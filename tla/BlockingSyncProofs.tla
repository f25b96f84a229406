------------------------- MODULE BlockingSyncProofs -------------------------
(***************************************************************************)
(* Proofs about BlockingSync, for any number of threads, queues and locks. *)
(***************************************************************************)
EXTENDS BlockingSync, SequenceTheorems, TLAPS

-----------------------------------------------------------------------------
(* The lists: linking at the end, unlinking an element.                    *)

(* push_back of an element that is not linked.                             *)
LEMMA AppendList ==
  ASSUME NEW S, NEW s \in Seq(S), NEW v \in S
  PROVE  /\ Append(s, v) \in Seq(S)
         /\ ToSet(Append(s, v)) = ToSet(s) \cup {v}
         /\ IsInjective(s) /\ v \notin ToSet(s) => IsInjective(Append(s, v))
  <1>1. /\ Append(s, v) \in Seq(S)
        /\ Len(Append(s, v)) = Len(s) + 1
        /\ \A i \in 1 .. Len(s) : Append(s, v)[i] = s[i]
        /\ Append(s, v)[Len(s) + 1] = v
    BY AppendProperties
  <1>2. ToSet(Append(s, v)) = ToSet(s) \cup {v}
    BY <1>1 DEF ToSet
  <1>3. IsInjective(s) /\ v \notin ToSet(s) => IsInjective(Append(s, v))
    BY <1>1 DEF ToSet, IsInjective
  <1> QED BY <1>1, <1>2, <1>3

LEMMA RemoveAtList ==
  ASSUME NEW S, NEW s \in Seq(S), NEW i \in 1 .. Len(s)
  PROVE  /\ RemoveAt(s, i) \in Seq(S)
         /\ Len(RemoveAt(s, i)) = Len(s) - 1
         /\ \A j \in 1 .. Len(s) - 1 : RemoveAt(s, i)[j] = IF j < i THEN s[j] ELSE s[j + 1]
  <1> DEFINE a == SubSeq(s, 1, i - 1)
             b == SubSeq(s, i + 1, Len(s))
  <1>0. Len(s) \in Nat /\ i \in Nat
    BY LenProperties
  <1>1. /\ a \in Seq(S)
        /\ Len(a) = i - 1
        /\ \A j \in 1 .. i - 1 : a[j] = s[j]
    BY <1>0, SubSeqProperties
  <1>2. /\ b \in Seq(S)
        /\ Len(b) = Len(s) - i
        /\ \A j \in 1 .. Len(s) - i : b[j] = s[i + j]
    BY <1>0, SubSeqProperties
  <1> HIDE DEF a, b
  <1>3. /\ a \o b \in Seq(S)
        /\ Len(a \o b) = Len(a) + Len(b)
        /\ \A j \in 1 .. Len(a) + Len(b) :
             (a \o b)[j] = IF j <= Len(a) THEN a[j] ELSE b[j - Len(a)]
    BY <1>1, <1>2, ConcatProperties
  <1>4. RemoveAt(s, i) = a \o b
    BY DEF RemoveAt, a, b
  <1>5. ASSUME NEW j \in 1 .. Len(s) - 1
        PROVE  (a \o b)[j] = IF j < i THEN s[j] ELSE s[j + 1]
    <2>1. CASE j < i
      BY <1>0, <1>1, <1>2, <1>3, <2>1
    <2>2. CASE ~ (j < i)
      <3>1. j - Len(a) \in 1 .. Len(s) - i
        BY <1>0, <1>1, <2>2
      <3>2. (a \o b)[j] = b[j - Len(a)]
        BY <1>0, <1>1, <1>2, <1>3, <2>2
      <3> QED
        BY <1>0, <1>1, <1>2, <2>2, <3>1, <3>2
    <2> QED BY <2>1, <2>2
  <1>6. Len(a \o b) = Len(s) - 1
    BY <1>0, <1>1, <1>2, <1>3
  <1> QED
    BY <1>3, <1>4, <1>5, <1>6

(* Unlinking an element of a list without duplicates.                      *)
LEMMA UnlinkList ==
  ASSUME NEW S, NEW s \in Seq(S), NEW v, IsInjective(s)
  PROVE  /\ Unlink(s, v) \in Seq(S)
         /\ ToSet(Unlink(s, v)) = ToSet(s) \ {v}
         /\ IsInjective(Unlink(s, v))
  <1>1. CASE v \notin ToSet(s)
    BY <1>1 DEF Unlink
  <1>2. CASE v \in ToSet(s)
    <2> DEFINE k == CHOOSE i \in DOMAIN s : s[i] = v
    <2>1. DOMAIN s = 1 .. Len(s) /\ Len(s) \in Nat
      BY LenProperties
    <2>2. k \in 1 .. Len(s) /\ s[k] = v
      BY <1>2, <2>1 DEF ToSet
    <2> HIDE DEF k
    <2> DEFINE r == RemoveAt(s, k)
    <2>3. Unlink(s, v) = r
      BY <1>2 DEF Unlink, k
    <2>4. /\ r \in Seq(S)
          /\ Len(r) = Len(s) - 1
          /\ \A j \in 1 .. Len(s) - 1 : r[j] = IF j < k THEN s[j] ELSE s[j + 1]
      BY <2>2, RemoveAtList
    <2> HIDE DEF r
    <2>5. DOMAIN r = 1 .. Len(s) - 1
      BY <2>4, LenProperties
    <2> DEFINE f(j) == IF j < k THEN j ELSE j + 1
    <2>a. \A j \in 1 .. Len(s) - 1 : f(j) \in 1 .. Len(s) /\ f(j) # k /\ r[j] = s[f(j)]
      BY <2>1, <2>2, <2>4
    <2>b. \A i, j \in 1 .. Len(s) - 1 : f(i) = f(j) => i = j
      BY <2>1, <2>2
    <2> HIDE DEF f
    <2>c. \A i, j \in 1 .. Len(s) : s[i] = s[j] => i = j
      BY <2>1 DEF IsInjective
    <2>6. IsInjective(r)
      <3> SUFFICES ASSUME NEW i \in 1 .. Len(s) - 1, NEW j \in 1 .. Len(s) - 1, r[i] = r[j]
                   PROVE  i = j
        BY <2>5 DEF IsInjective
      <3> QED BY <2>a, <2>b, <2>c
    <2>7. ASSUME NEW u \in ToSet(r) PROVE u \in ToSet(s) \ {v}
      <3>1. PICK j \in 1 .. Len(s) - 1 : u = r[j]
        BY <2>5, <2>7 DEF ToSet
      <3> QED
        BY <2>1, <2>2, <2>a, <2>c, <3>1 DEF ToSet
    <2>8. ASSUME NEW u \in ToSet(s) \ {v} PROVE u \in ToSet(r)
      <3>1. PICK j \in 1 .. Len(s) : u = s[j]
        BY <2>1, <2>8 DEF ToSet
      <3>2. j # k
        BY <2>2, <2>8, <3>1
      <3>3. CASE j < k
        BY <2>1, <2>2, <2>4, <2>5, <3>1, <3>3 DEF ToSet
      <3>4. CASE j > k
        <4>1. j - 1 \in 1 .. Len(s) - 1 /\ r[j - 1] = s[j]
          BY <2>1, <2>2, <2>4, <3>4
        <4> QED BY <2>5, <3>1, <4>1 DEF ToSet
      <3> QED BY <2>1, <2>2, <3>2, <3>3, <3>4
    <2> QED BY <2>3, <2>4, <2>6, <2>7, <2>8
  <1> QED BY <1>1, <1>2
-----------------------------------------------------------------------------
(* The initial states satisfy the invariant.                               *)
LEMMA InitInv == Init => Inv
  <1> SUFFICES ASSUME Init PROVE Inv
    OBVIOUS
  <1> USE ConstantsAssumption
  <1>1. TypeOK
    BY DEF Init, TypeOK, Actor, ThreadPC, ClockPC, NoWait, NoScan, ThreadState, Cause, WaitInfo, ScanPos
  <1>2. LocksInv
    BY DEF Init, LocksInv, Actor
  <1>3. ListsInv
    BY DEF Init, ListsInv, IsInjective, ToSet
  <1>4. ClaimsInv
    BY DEF Init, ClaimsInv, Claims, Unblocking, Waiting, Actor
  <1>5. ProgressInv
    BY DEF Init, ProgressInv, ResumedOnce, Actor
  <1> QED BY <1>1, <1>2, <1>3, <1>4, <1>5 DEF Inv

(* The values that the actions assign are of the right types.              *)
LEMMA Values ==
  /\ \A x \in {"run", "check", "store", "switch", "off", "on", "sleep", "timed", "scan",
               "claim", "erase", "remove", "wake", "exit", "gone", "leaked"} : x \in ThreadPC
  /\ \A x \in {"idle", "collect", "fire", "remove", "wake"} : x \in ClockPC
  /\ "Cancelled" \in ThreadState /\ "Finishing" \in ThreadState
  /\ "none" \in Cause /\ "event" \in Cause /\ "timeout" \in Cause /\ "cancel" \in Cause
  /\ NoWait \in WaitInfo
  /\ NoScan \in ScanPos
  /\ \A q \in Queue \cup {NoQueue}, timed \in BOOLEAN :
       [q |-> q, timed |-> timed, timedOut |-> FALSE] \in WaitInfo
  /\ \A w \in WaitInfo : [w EXCEPT !.timedOut = TRUE] \in WaitInfo
  /\ \A q \in Queue : [q |-> q, i |-> 1] \in ScanPos
  /\ \A w \in ScanPos : [w EXCEPT !.i = @ + 1] \in ScanPos
  <1>1. \A w \in WaitInfo : [w EXCEPT !.timedOut = TRUE] \in WaitInfo
    BY DEF WaitInfo
  <1>2. \A w \in ScanPos : [w EXCEPT !.i = @ + 1] \in ScanPos
    BY DEF ScanPos
  <1>3. NoWait \in WaitInfo /\ NoScan \in ScanPos
    BY DEF WaitInfo, ScanPos, NoWait, NoScan
  <1>4. /\ \A q \in Queue \cup {NoQueue}, timed \in BOOLEAN :
             [q |-> q, timed |-> timed, timedOut |-> FALSE] \in WaitInfo
        /\ \A q \in Queue : [q |-> q, i |-> 1] \in ScanPos
    BY DEF WaitInfo, ScanPos
  <1> QED
    BY <1>1, <1>2, <1>3, <1>4 DEF ThreadPC, ClockPC, ThreadState, Cause

(* The waiter that BlockingQueue::resume claims exists, is linked in the   *)
(* queue, and is off its stack: it gave up the lock resume now holds.      *)
LEMMA ScanTarget ==
  ASSUME Inv, NEW t \in Thread, ScanClaim(t)
  PROVE  LET q == scan[t].q
             v == queue[scan[t].q][scan[t].i]
         IN  /\ q \in Queue /\ v \in Thread /\ v \in ToSet(queue[q])
             /\ pc[v] = "off" /\ info[v].q = q
  <1> DEFINE q == scan[t].q
             i == scan[t].i
             v == queue[q][i]
  <1>1. pc[t] = "scan" /\ i <= Len(queue[q])
    BY DEF ScanClaim
  <1>2. q # NoQueue /\ i # 0 /\ lock[LockOf[q]] = t
    BY <1>1 DEF Inv, LocksInv
  <1>3. q \in Queue /\ i \in Nat
    BY <1>2 DEF Inv, TypeOK, ScanPos
  <1>4. queue[q] \in Seq(Thread)
    BY <1>3 DEF Inv, TypeOK
  <1>5. i \in 1 .. Len(queue[q])
    BY <1>1, <1>2, <1>3, <1>4
  <1>6. v \in Thread /\ v \in ToSet(queue[q])
    BY <1>4, <1>5 DEF ToSet
  <1>7. pc[v] \in {"switch", "off"} /\ info[v].q = q
    BY <1>3, <1>6 DEF Inv, ListsInv
  <1>8. pc[v] = "switch" => lock[LockOf[q]] = v
    <2> HIDE DEF v, q
    <2>1. pc[v] = "switch" /\ info[v].q # NoQueue => lock[LockOf[info[v].q]] = v
      BY <1>6 DEF Inv, LocksInv
    <2> QED BY <1>2, <1>7, <2>1
  <1> HIDE DEF v, q, i
  <1>9. pc[v] = "off" /\ info[v].q = q
    BY <1>1, <1>2, <1>7, <1>8
  <1> QED BY <1>3, <1>6, <1>9 DEF v, q, i

(* Every step preserves the types; the queue positions that                *)
(* BlockingQueue::resume reads exist because it holds the queue's lock.    *)
LEMMA TypeStep ==
  ASSUME Inv, [Next]_vars
  PROVE  TypeOK'
  <1>0. TypeOK
    BY DEF Inv
  <1>9. \A a \in Actor : pc[a] = "wake" => victim[a] \in Thread
    BY DEF Inv, ClaimsInv
  <1> USE <1>0, ConstantsAssumption, Values DEF Actor
  <1>1. CASE UNCHANGED vars
    BY <1>1 DEF TypeOK, vars, waitVars, unblockVars
  <1>2. ASSUME NEW t \in Thread, Step(t) PROVE TypeOK'
    <2>1. CASE TakeTimeoutLock(t)
      BY <2>1 DEF TypeOK, TakeTimeoutLock, Goto, waitVars, unblockVars
    <2>2. CASE BlockRefuse(t)
      BY <2>2 DEF TypeOK, BlockRefuse, Goto, unblockVars, Unlocked
    <2>3. CASE BlockCheck(t)
      BY <2>3 DEF TypeOK, BlockCheck, Goto, waitVars, unblockVars
    <2>4. CASE BlockStore(t)
      <3>1. \A q \in Queue : Append(queue[q], t) \in Seq(Thread)
        BY AppendList DEF TypeOK
      <3> QED
        BY <2>4, <3>1 DEF TypeOK, BlockStore, Goto, unblockVars
    <2>5. CASE SwitchOut(t)
      BY <2>5 DEF TypeOK, SwitchOut, Goto, waitVars, unblockVars, Unlocked
    <2>6. CASE Dispatch(t)
      BY <2>6 DEF TypeOK, Dispatch, Goto, waitVars, unblockVars
    <2>7. CASE SwitchIn(t)
      BY <2>7 DEF TypeOK, SwitchIn, Goto, unblockVars
    <2>8. CASE SwitchInCancelled(t)
      BY <2>8 DEF TypeOK, SwitchInCancelled, Goto, waitVars, unblockVars
    <2>9. CASE ScanSkip(t)
      BY <2>9 DEF TypeOK, ScanSkip, waitVars
    <2>10. CASE ScanClaim(t)
      <3> DEFINE q == scan[t].q
                 v == queue[scan[t].q][scan[t].i]
      <3>1. q \in Queue /\ v \in Thread
        BY <2>10, ScanTarget
      <3>2. Unlink(queue[q], v) \in Seq(Thread)
        BY <3>1, UnlinkList DEF TypeOK, Inv, ListsInv
      <3> QED
        BY <2>10, <3>1, <3>2 DEF TypeOK, ScanClaim, Goto
    <2>11. CASE ScanEnd(t)
      BY <2>11 DEF TypeOK, ScanEnd, Goto, waitVars
    <2>12. CASE CancelTimeout(t)
      BY <2>12 DEF TypeOK, CancelTimeout, Goto, unblockVars
    <2>13. CASE CancelEvent(t)
      <3>1. \A q \in Queue, v \in Thread : Unlink(queue[q], v) \in Seq(Thread)
        BY UnlinkList DEF TypeOK, Inv, ListsInv
      <3>2. victim[t] \in Thread
        BY <2>13 DEF CancelEvent, Inv, ClaimsInv
      <3>3. info[victim[t]].q \in Queue
        BY <2>13, <3>2 DEF CancelEvent, TypeOK, WaitInfo
      <3> QED
        BY <2>13, <3>1, <3>2, <3>3 DEF TypeOK, CancelEvent, Goto, unblockVars
    <2>14. CASE CancelNoEvent(t)
      BY <2>14 DEF TypeOK, CancelNoEvent, Goto, waitVars, unblockVars
    <2>15. CASE Wake(t)
      BY <2>15, <1>9 DEF TypeOK, Wake, Goto, waitVars
    <2>16. CASE CancelClaim(t)
      BY <2>16 DEF TypeOK, CancelClaim, Goto, unblockVars
    <2>17. CASE CancelMiss(t)
      BY <2>17 DEF TypeOK, CancelMiss, Goto, waitVars
    <2>18. CASE Preempt(t)
      BY <2>18 DEF TypeOK, Preempt, Goto, waitVars, unblockVars
    <2>19. CASE Exit(t)
      BY <2>19 DEF TypeOK, Exit, Goto, waitVars, unblockVars
    <2> QED
      BY <1>2, <2>1, <2>2, <2>3, <2>4, <2>5, <2>6, <2>7, <2>8, <2>9, <2>10, <2>11, <2>12,
         <2>13, <2>14, <2>15, <2>16, <2>17, <2>18, <2>19 DEF Step
  <1>3. ASSUME NEW t \in Thread, Client(t) PROVE TypeOK'
    <2>1. ASSUME NEW l \in Lock, Acquire(t, l) PROVE TypeOK'
      BY <2>1 DEF TypeOK, Acquire, waitVars, unblockVars
    <2>2. ASSUME NEW l \in Lock, Release(t, l) PROVE TypeOK'
      BY <2>2 DEF TypeOK, Release, waitVars, unblockVars
    <2>3. ASSUME NEW q \in Queue, BlockNot(t, q) PROVE TypeOK'
      BY <2>3 DEF TypeOK, BlockNot, waitVars, unblockVars
    <2>4. ASSUME NEW q \in Queue, Resume(t, q) PROVE TypeOK'
      BY <2>4 DEF TypeOK, Resume, Goto, waitVars
    <2>5. ASSUME NEW q \in Queue, NEW timed \in BOOLEAN, Block(t, q, timed) PROVE TypeOK'
      BY <2>5 DEF TypeOK, Block, Goto, unblockVars
    <2>6. CASE Sleep(t)
      BY <2>6 DEF TypeOK, Sleep, Goto, unblockVars
    <2>7. ASSUME NEW v \in Thread, Cancel(t, v) PROVE TypeOK'
      BY <2>7 DEF TypeOK, Cancel, Goto, waitVars
    <2>8. CASE Terminate(t)
      BY <2>8 DEF TypeOK, Terminate, Goto, waitVars, unblockVars
    <2> QED
      BY <1>3, <2>1, <2>2, <2>3, <2>4, <2>5, <2>6, <2>7, <2>8 DEF Client
  <1>4. ASSUME ClockStep PROVE TypeOK'
    <2>1. CASE ExpiryBegin
      BY <2>1 DEF TypeOK, ExpiryBegin, Goto, waitVars, unblockVars
    <2>2. ASSUME NEW v \in Thread, ExpiryCollect(v) PROVE TypeOK'
      BY <2>2 DEF TypeOK, ExpiryCollect
    <2>3. CASE ExpiryCollected
      BY <2>3 DEF TypeOK, ExpiryCollected, Goto, waitVars, unblockVars
    <2>4. ASSUME NEW v \in Thread, ExpiryFire(v) PROVE TypeOK'
      BY <2>4 DEF TypeOK, ExpiryFire, Goto, waitVars
    <2>5. CASE CancelEvent(Clock)
      <3>1. \A q \in Queue, v \in Thread : Unlink(queue[q], v) \in Seq(Thread)
        BY UnlinkList DEF TypeOK, Inv, ListsInv
      <3>2. victim[Clock] \in Thread
        BY <2>5 DEF CancelEvent, Inv, ClaimsInv
      <3>3. info[victim[Clock]].q \in Queue
        BY <2>5, <3>2 DEF CancelEvent, TypeOK, WaitInfo
      <3> QED
        BY <2>5, <3>1, <3>2, <3>3 DEF TypeOK, CancelEvent, Goto, unblockVars
    <2>6. CASE CancelNoEvent(Clock)
      BY <2>6 DEF TypeOK, CancelNoEvent, Goto, waitVars, unblockVars
    <2>7. CASE ExpiryWake
      BY <2>7, <1>9 DEF TypeOK, ExpiryWake, Goto, waitVars
    <2>8. CASE ExpiryEnd
      BY <2>8 DEF TypeOK, ExpiryEnd, Goto, waitVars, unblockVars
    <2> QED
      BY <1>4, <2>1, <2>2, <2>3, <2>4, <2>5, <2>6, <2>7, <2>8 DEF ClockStep
  <1> QED
    BY <1>1, <1>2, <1>3, <1>4 DEF Next

(* Every step preserves what is known about the locks: a lock is released  *)
(* only by its holder and taken only when it is free.                      *)
LEMMA LocksStep ==
  ASSUME Inv, [Next]_vars
  PROVE  LocksInv'
  <1>0. TypeOK /\ LocksInv
    BY DEF Inv
  <1> USE <1>0, ConstantsAssumption DEF Actor, LocksInv
  <1>1. CASE UNCHANGED vars
    BY <1>1 DEF TypeOK, vars, waitVars, unblockVars
  <1>2. ASSUME NEW t \in Thread, Step(t) PROVE LocksInv'
    <2>1. CASE TakeTimeoutLock(t)
      BY <2>1 DEF TypeOK, TakeTimeoutLock, Goto, waitVars, unblockVars
    <2>2. CASE BlockRefuse(t)
      <3>1. \A l \in Lock \cup {TimeoutLock} : lock[l] # t => lock'[l] = lock[l]
        BY <2>2 DEF TypeOK, BlockRefuse, Unlocked, WaitLocks, WaitInfo
      <3> QED
        BY <2>2, <3>1 DEF TypeOK, WaitInfo, ScanPos, NoWait, BlockRefuse, Goto, unblockVars
    <2>3. CASE BlockCheck(t)
      BY <2>3 DEF TypeOK, BlockCheck, Goto, waitVars, unblockVars
    <2>4. CASE BlockStore(t)
      BY <2>4 DEF TypeOK, BlockStore, Goto, unblockVars
    <2>5. CASE SwitchOut(t)
      <3>1. \A l \in Lock \cup {TimeoutLock} : lock[l] # t => lock'[l] = lock[l]
        BY <2>5 DEF TypeOK, SwitchOut, Unlocked, WaitLocks, WaitInfo
      <3> QED
        BY <2>5, <3>1 DEF TypeOK, WaitInfo, ScanPos, NoWait, SwitchOut, Goto, waitVars, unblockVars
    <2>6. CASE Dispatch(t)
      BY <2>6 DEF TypeOK, Dispatch, Goto, waitVars, unblockVars
    <2>7. CASE SwitchIn(t)
      BY <2>7 DEF TypeOK, SwitchIn, Goto, unblockVars
    <2>8. CASE SwitchInCancelled(t)
      BY <2>8 DEF TypeOK, SwitchInCancelled, Goto, waitVars, unblockVars
    <2>9. CASE ScanSkip(t)
      BY <2>9 DEF TypeOK, ScanSkip, waitVars, ScanPos, Holds, HoldsNone
    <2>10. CASE ScanClaim(t)
      BY <2>10 DEF TypeOK, ScanClaim, Goto, ScanPos, Holds, HoldsNone
    <2>11. CASE ScanEnd(t)
      BY <2>11 DEF TypeOK, ScanEnd, Goto, waitVars
    <2>12. CASE CancelTimeout(t)
      BY <2>12 DEF TypeOK, CancelTimeout, Goto, unblockVars
    <2>13. CASE CancelEvent(t)
      BY <2>13 DEF TypeOK, CancelEvent, Goto, unblockVars, WaitInfo, Holds, HoldsNone
    <2>14. CASE CancelNoEvent(t)
      BY <2>14 DEF TypeOK, CancelNoEvent, Goto, waitVars, unblockVars
    <2>15. CASE Wake(t)
      BY <2>15 DEF TypeOK, Wake, Goto, waitVars
    <2>16. CASE CancelClaim(t)
      BY <2>16 DEF TypeOK, CancelClaim, Goto, unblockVars
    <2>17. CASE CancelMiss(t)
      BY <2>17 DEF TypeOK, CancelMiss, Goto, waitVars
    <2>18. CASE Preempt(t)
      BY <2>18 DEF TypeOK, Preempt, Goto, waitVars, unblockVars, Holds, HoldsNone
    <2>19. CASE Exit(t)
      BY <2>19 DEF TypeOK, Exit, Goto, waitVars, unblockVars
    <2> QED
      BY <1>2, <2>1, <2>2, <2>3, <2>4, <2>5, <2>6, <2>7, <2>8, <2>9, <2>10, <2>11, <2>12,
         <2>13, <2>14, <2>15, <2>16, <2>17, <2>18, <2>19 DEF Step
  <1>3. ASSUME NEW t \in Thread, Client(t) PROVE LocksInv'
    <2>1. ASSUME NEW l \in Lock, Acquire(t, l) PROVE LocksInv'
      BY <2>1 DEF TypeOK, Acquire, waitVars, unblockVars
    <2>2. ASSUME NEW l \in Lock, Release(t, l) PROVE LocksInv'
      BY <2>2 DEF TypeOK, Release, waitVars, unblockVars, Holds, HoldsNone
    <2>3. ASSUME NEW q \in Queue, BlockNot(t, q) PROVE LocksInv'
      BY <2>3 DEF TypeOK, BlockNot, waitVars, unblockVars, Holds, HoldsNone
    <2>4. ASSUME NEW q \in Queue, Resume(t, q) PROVE LocksInv'
      BY <2>4 DEF TypeOK, Resume, Goto, waitVars, Holds, HoldsNone
    <2>5. ASSUME NEW q \in Queue, NEW timed \in BOOLEAN, Block(t, q, timed) PROVE LocksInv'
      BY <2>5 DEF TypeOK, Block, Goto, unblockVars, Holds, HoldsNone
    <2>6. CASE Sleep(t)
      BY <2>6 DEF TypeOK, Sleep, Goto, unblockVars, Holds, HoldsNone
    <2>7. ASSUME NEW v \in Thread, Cancel(t, v) PROVE LocksInv'
      BY <2>7 DEF TypeOK, Cancel, Goto, waitVars, Holds, HoldsNone
    <2>8. CASE Terminate(t)
      BY <2>8 DEF TypeOK, Terminate, Goto, waitVars, unblockVars, Holds, HoldsNone
    <2> QED
      BY <1>3, <2>1, <2>2, <2>3, <2>4, <2>5, <2>6, <2>7, <2>8 DEF Client
  <1>4. ASSUME ClockStep PROVE LocksInv'
    <2>1. CASE ExpiryBegin
      BY <2>1 DEF TypeOK, ExpiryBegin, Goto, waitVars, unblockVars
    <2>2. ASSUME NEW v \in Thread, ExpiryCollect(v) PROVE LocksInv'
      BY <2>2 DEF TypeOK, ExpiryCollect
    <2>3. CASE ExpiryCollected
      BY <2>3 DEF TypeOK, ExpiryCollected, Goto, waitVars, unblockVars
    <2>4. ASSUME NEW v \in Thread, ExpiryFire(v) PROVE LocksInv'
      BY <2>4 DEF TypeOK, ExpiryFire, Goto, waitVars
    <2>5. CASE CancelEvent(Clock)
      BY <2>5 DEF TypeOK, CancelEvent, Goto, unblockVars, WaitInfo, Holds, HoldsNone
    <2>6. CASE CancelNoEvent(Clock)
      BY <2>6 DEF TypeOK, CancelNoEvent, Goto, waitVars, unblockVars
    <2>7. CASE ExpiryWake
      BY <2>7 DEF TypeOK, ExpiryWake, Goto, waitVars
    <2>8. CASE ExpiryEnd
      BY <2>8 DEF TypeOK, ExpiryEnd, Goto, waitVars, unblockVars
    <2> QED
      BY <1>4, <2>1, <2>2, <2>3, <2>4, <2>5, <2>6, <2>7, <2>8 DEF ClockStep
  <1> QED
    BY <1>1, <1>2, <1>3, <1>4 DEF Next

(* Every step preserves what is known about the lists: a thread is linked  *)
(* after it has published its UnblockInfo and unlinked before it runs.     *)
LEMMA ListsStep ==
  ASSUME Inv, [Next]_vars
  PROVE  ListsInv'
  <1>0. TypeOK /\ ListsInv
    BY DEF Inv
  <1> USE <1>0, ConstantsAssumption DEF Actor, ListsInv
  <1>1. CASE UNCHANGED vars
    BY <1>1 DEF TypeOK, vars, waitVars, unblockVars
  <1>2. ASSUME NEW t \in Thread, Step(t) PROVE ListsInv'
    <2>1. CASE TakeTimeoutLock(t)
      BY <2>1 DEF TypeOK, TakeTimeoutLock, Goto, waitVars, unblockVars
    <2>2. CASE BlockRefuse(t)
      BY <2>2 DEF TypeOK, BlockRefuse, Goto, unblockVars, Unlocked
    <2>3. CASE BlockCheck(t)
      BY <2>3 DEF TypeOK, BlockCheck, Goto, waitVars, unblockVars
    <2>4. CASE BlockStore(t)
      <3> DEFINE q == info[t].q
      <3>1. \A r \in Queue : t \notin ToSet(queue[r])
        BY <2>4 DEF BlockStore
      <3>2. CASE q = NoQueue
        BY <2>4, <3>2 DEF BlockStore, Goto, unblockVars, TypeOK
      <3>3. CASE q # NoQueue
        <4>1. q \in Queue
          BY <3>3 DEF TypeOK, WaitInfo
        <4>2. /\ ToSet(Append(queue[q], t)) = ToSet(queue[q]) \cup {t}
              /\ IsInjective(Append(queue[q], t))
          BY <3>1, <4>1, AppendList DEF TypeOK
        <4> QED
          BY <2>4, <3>3, <4>1, <4>2 DEF BlockStore, Goto, unblockVars, TypeOK
      <3> QED BY <3>2, <3>3
    <2>5. CASE SwitchOut(t)
      BY <2>5 DEF TypeOK, SwitchOut, Goto, waitVars, unblockVars, Unlocked
    <2>6. CASE Dispatch(t)
      <3>1. t \notin timeouts /\ \A q \in Queue : t \notin ToSet(queue[q])
        BY <2>6 DEF Inv, ProgressInv, ResumedOnce, Dispatch, TypeOK
      <3> QED
        BY <2>6, <3>1 DEF TypeOK, Dispatch, Goto, waitVars
    <2>7. CASE SwitchIn(t)
      BY <2>7 DEF TypeOK, SwitchIn, Goto, unblockVars
    <2>8. CASE SwitchInCancelled(t)
      BY <2>8 DEF TypeOK, SwitchInCancelled, Goto, waitVars, unblockVars
    <2>9. CASE ScanSkip(t)
      BY <2>9 DEF TypeOK, ScanSkip, waitVars
    <2>10. CASE ScanClaim(t)
      <3> DEFINE q == scan[t].q
                 v == queue[scan[t].q][scan[t].i]
      <3>1. q \in Queue /\ v \in Thread
        BY <2>10, ScanTarget
      <3>2. /\ ToSet(Unlink(queue[q], v)) = ToSet(queue[q]) \ {v}
            /\ IsInjective(Unlink(queue[q], v))
        BY <3>1, UnlinkList DEF TypeOK
      <3>3. /\ queue' = [queue EXCEPT ![q] = Unlink(queue[q], v)]
            /\ pc' = [pc EXCEPT ![t] = "erase"] /\ pc[t] = "scan"
            /\ info' = info /\ timeouts' = timeouts
        BY <2>10 DEF ScanClaim, Goto
      <3> HIDE DEF q, v
      <3> QED
        BY <3>1, <3>2, <3>3 DEF TypeOK
    <2>11. CASE ScanEnd(t)
      BY <2>11 DEF TypeOK, ScanEnd, Goto, waitVars
    <2>12. CASE CancelTimeout(t)
      BY <2>12 DEF TypeOK, CancelTimeout, Goto, unblockVars
    <2>13. CASE CancelEvent(t)
      <3> DEFINE v == victim[t]
                 q == info[v].q
      <3>1. v \in Thread /\ q \in Queue
        BY <2>13 DEF CancelEvent, TypeOK, WaitInfo, Inv, ClaimsInv
      <3>2. /\ ToSet(Unlink(queue[q], v)) = ToSet(queue[q]) \ {v}
            /\ IsInjective(Unlink(queue[q], v))
        BY <3>1, UnlinkList DEF TypeOK
      <3>3. /\ \A u \in Thread : info'[u].q = info[u].q /\ info'[u].timed = info[u].timed
            /\ pc' = [pc EXCEPT ![t] = "wake"] /\ pc[t] = "remove"
            /\ queue' = [queue EXCEPT ![q] = Unlink(queue[q], v)]
            /\ timeouts' = timeouts
        BY <2>13, <3>1 DEF CancelEvent, Goto, TypeOK, WaitInfo
      <3> HIDE DEF v, q
      <3>4. \A r \in Queue : /\ IsInjective(queue'[r])
                             /\ ToSet(queue'[r]) \subseteq ToSet(queue[r])
        BY <3>1, <3>2, <3>3 DEF TypeOK
      <3>5. \A u \in Thread : pc[u] \in {"switch", "off"} => pc'[u] = pc[u]
        BY <3>3 DEF TypeOK
      <3> QED
        BY <3>3, <3>4, <3>5 DEF TypeOK
    <2>14. CASE CancelNoEvent(t)
      BY <2>14 DEF TypeOK, CancelNoEvent, Goto, waitVars, unblockVars
    <2>15. CASE Wake(t)
      BY <2>15 DEF TypeOK, Wake, Goto, waitVars
    <2>16. CASE CancelClaim(t)
      BY <2>16 DEF TypeOK, CancelClaim, Goto, unblockVars
    <2>17. CASE CancelMiss(t)
      BY <2>17 DEF TypeOK, CancelMiss, Goto, waitVars
    <2>18. CASE Preempt(t)
      BY <2>18 DEF TypeOK, Preempt, Goto, waitVars, unblockVars
    <2>19. CASE Exit(t)
      BY <2>19 DEF TypeOK, Exit, Goto, waitVars, unblockVars
    <2> QED
      BY <1>2, <2>1, <2>2, <2>3, <2>4, <2>5, <2>6, <2>7, <2>8, <2>9, <2>10, <2>11, <2>12,
         <2>13, <2>14, <2>15, <2>16, <2>17, <2>18, <2>19 DEF Step
  <1>3. ASSUME NEW t \in Thread, Client(t) PROVE ListsInv'
    <2>1. ASSUME NEW l \in Lock, Acquire(t, l) PROVE ListsInv'
      BY <2>1 DEF TypeOK, Acquire, waitVars, unblockVars
    <2>2. ASSUME NEW l \in Lock, Release(t, l) PROVE ListsInv'
      BY <2>2 DEF TypeOK, Release, waitVars, unblockVars
    <2>3. ASSUME NEW q \in Queue, BlockNot(t, q) PROVE ListsInv'
      BY <2>3 DEF TypeOK, BlockNot, waitVars, unblockVars
    <2>4. ASSUME NEW q \in Queue, Resume(t, q) PROVE ListsInv'
      BY <2>4 DEF TypeOK, Resume, Goto, waitVars
    <2>5. ASSUME NEW q \in Queue, NEW timed \in BOOLEAN, Block(t, q, timed) PROVE ListsInv'
      BY <2>5 DEF TypeOK, Block, Goto, unblockVars
    <2>6. CASE Sleep(t)
      BY <2>6 DEF TypeOK, Sleep, Goto, unblockVars
    <2>7. ASSUME NEW v \in Thread, Cancel(t, v) PROVE ListsInv'
      BY <2>7 DEF TypeOK, Cancel, Goto, waitVars
    <2>8. CASE Terminate(t)
      BY <2>8 DEF TypeOK, Terminate, Goto, waitVars, unblockVars
    <2> QED
      BY <1>3, <2>1, <2>2, <2>3, <2>4, <2>5, <2>6, <2>7, <2>8 DEF Client
  <1>4. ASSUME ClockStep PROVE ListsInv'
    <2>1. CASE ExpiryBegin
      BY <2>1 DEF TypeOK, ExpiryBegin, Goto, waitVars, unblockVars
    <2>2. ASSUME NEW v \in Thread, ExpiryCollect(v) PROVE ListsInv'
      BY <2>2 DEF TypeOK, ExpiryCollect
    <2>3. CASE ExpiryCollected
      BY <2>3 DEF TypeOK, ExpiryCollected, Goto, waitVars, unblockVars
    <2>4. ASSUME NEW v \in Thread, ExpiryFire(v) PROVE ListsInv'
      BY <2>4 DEF TypeOK, ExpiryFire, Goto, waitVars
    <2>5. CASE CancelEvent(Clock)
      <3> DEFINE v == victim[Clock]
                 q == info[v].q
      <3>1. v \in Thread /\ q \in Queue
        BY <2>5 DEF CancelEvent, TypeOK, WaitInfo, Inv, ClaimsInv
      <3>2. /\ ToSet(Unlink(queue[q], v)) = ToSet(queue[q]) \ {v}
            /\ IsInjective(Unlink(queue[q], v))
        BY <3>1, UnlinkList DEF TypeOK
      <3>3. /\ \A u \in Thread : info'[u].q = info[u].q /\ info'[u].timed = info[u].timed
            /\ pc' = [pc EXCEPT ![Clock] = "wake"] /\ pc[Clock] = "remove"
            /\ queue' = [queue EXCEPT ![q] = Unlink(queue[q], v)]
            /\ timeouts' = timeouts
        BY <2>5, <3>1 DEF CancelEvent, Goto, TypeOK, WaitInfo
      <3> HIDE DEF v, q
      <3>4. \A r \in Queue : /\ IsInjective(queue'[r])
                             /\ ToSet(queue'[r]) \subseteq ToSet(queue[r])
        BY <3>1, <3>2, <3>3 DEF TypeOK
      <3>5. \A u \in Thread : pc[u] \in {"switch", "off"} => pc'[u] = pc[u]
        BY <3>3 DEF TypeOK
      <3> QED
        BY <3>3, <3>4, <3>5 DEF TypeOK
    <2>6. CASE CancelNoEvent(Clock)
      BY <2>6 DEF TypeOK, CancelNoEvent, Goto, waitVars, unblockVars
    <2>7. CASE ExpiryWake
      BY <2>7 DEF TypeOK, ExpiryWake, Goto, waitVars
    <2>8. CASE ExpiryEnd
      BY <2>8 DEF TypeOK, ExpiryEnd, Goto, waitVars, unblockVars
    <2> QED
      BY <1>4, <2>1, <2>2, <2>3, <2>4, <2>5, <2>6, <2>7, <2>8 DEF ClockStep
  <1> QED
    BY <1>1, <1>2, <1>3, <1>4 DEF Next

(* Every step preserves what is known about claims: a claim begins with    *)
(* the exchange of a pointer that only a waiting thread publishes, and     *)
(* ends before that thread can be dispatched.                              *)
LEMMA ClaimsStep ==
  ASSUME Inv, [Next]_vars
  PROVE  ClaimsInv'
  <1>0. TypeOK /\ ClaimsInv
    BY DEF Inv
  <1> USE <1>0, ConstantsAssumption DEF Actor, ClaimsInv, Claims, Unblocking, Waiting
  <1>1. CASE UNCHANGED vars
    BY <1>1 DEF TypeOK, vars, waitVars, unblockVars
  <1>2. ASSUME NEW t \in Thread, Step(t) PROVE ClaimsInv'
    <2>1. CASE TakeTimeoutLock(t)
      BY <2>1 DEF TypeOK, TakeTimeoutLock, Goto, waitVars, unblockVars
    <2>2. CASE BlockRefuse(t)
      BY <2>2 DEF TypeOK, BlockRefuse, Goto, unblockVars, Unlocked
    <2>3. CASE BlockCheck(t)
      BY <2>3 DEF TypeOK, BlockCheck, Goto, waitVars, unblockVars
    <2>4. CASE BlockStore(t)
      BY <2>4 DEF TypeOK, BlockStore, Goto, unblockVars, Inv, ProgressInv, ResumedOnce
    <2>5. CASE SwitchOut(t)
      BY <2>5 DEF TypeOK, SwitchOut, Goto, waitVars, unblockVars, Unlocked
    <2>6. CASE Dispatch(t)
      BY <2>6 DEF TypeOK, Dispatch, Goto, waitVars, unblockVars
    <2>7. CASE SwitchIn(t)
      BY <2>7 DEF TypeOK, SwitchIn, Goto, unblockVars
    <2>8. CASE SwitchInCancelled(t)
      BY <2>8 DEF TypeOK, SwitchInCancelled, Goto, waitVars, unblockVars
    <2>9. CASE ScanSkip(t)
      BY <2>9 DEF TypeOK, ScanSkip, waitVars
    <2>10. CASE ScanClaim(t)
      <3> DEFINE v == queue[scan[t].q][scan[t].i]
      <3>1. v \in Thread
        BY <2>10, ScanTarget
      <3> HIDE DEF v
      <3>2. /\ unblockInfo[v] /\ unblockInfo' = [unblockInfo EXCEPT ![v] = FALSE]
            /\ victim' = [victim EXCEPT ![t] = v]
            /\ pc[t] = "scan" /\ pc' = [pc EXCEPT ![t] = "erase"]
            /\ fireList' = fireList /\ ready' = ready
        BY <2>10 DEF ScanClaim, Goto, v
      <3> QED
        BY <3>1, <3>2 DEF TypeOK
    <2>11. CASE ScanEnd(t)
      BY <2>11 DEF TypeOK, ScanEnd, Goto, waitVars
    <2>12. CASE CancelTimeout(t)
      BY <2>12 DEF TypeOK, CancelTimeout, Goto, unblockVars
    <2>13. CASE CancelEvent(t)
      BY <2>13 DEF TypeOK, CancelEvent, Goto, unblockVars
    <2>14. CASE CancelNoEvent(t)
      BY <2>14 DEF TypeOK, CancelNoEvent, Goto, waitVars, unblockVars
    <2>15. CASE Wake(t)
      BY <2>15 DEF TypeOK, Wake, Goto, waitVars
    <2>16. CASE CancelClaim(t)
      BY <2>16 DEF TypeOK, CancelClaim, Goto, unblockVars
    <2>17. CASE CancelMiss(t)
      BY <2>17 DEF TypeOK, CancelMiss, Goto, waitVars
    <2>18. CASE Preempt(t)
      BY <2>18 DEF TypeOK, Preempt, Goto, waitVars, unblockVars
    <2>19. CASE Exit(t)
      BY <2>19 DEF TypeOK, Exit, Goto, waitVars, unblockVars
    <2> QED
      BY <1>2, <2>1, <2>2, <2>3, <2>4, <2>5, <2>6, <2>7, <2>8, <2>9, <2>10, <2>11, <2>12,
         <2>13, <2>14, <2>15, <2>16, <2>17, <2>18, <2>19 DEF Step
  <1>3. ASSUME NEW t \in Thread, Client(t) PROVE ClaimsInv'
    <2>1. ASSUME NEW l \in Lock, Acquire(t, l) PROVE ClaimsInv'
      BY <2>1 DEF TypeOK, Acquire, waitVars, unblockVars
    <2>2. ASSUME NEW l \in Lock, Release(t, l) PROVE ClaimsInv'
      BY <2>2 DEF TypeOK, Release, waitVars, unblockVars
    <2>3. ASSUME NEW q \in Queue, BlockNot(t, q) PROVE ClaimsInv'
      BY <2>3 DEF TypeOK, BlockNot, waitVars, unblockVars
    <2>4. ASSUME NEW q \in Queue, Resume(t, q) PROVE ClaimsInv'
      BY <2>4 DEF TypeOK, Resume, Goto, waitVars
    <2>5. ASSUME NEW q \in Queue, NEW timed \in BOOLEAN, Block(t, q, timed) PROVE ClaimsInv'
      BY <2>5 DEF TypeOK, Block, Goto, unblockVars
    <2>6. CASE Sleep(t)
      BY <2>6 DEF TypeOK, Sleep, Goto, unblockVars
    <2>7. ASSUME NEW v \in Thread, Cancel(t, v) PROVE ClaimsInv'
      BY <2>7 DEF TypeOK, Cancel, Goto, waitVars
    <2>8. CASE Terminate(t)
      BY <2>8 DEF TypeOK, Terminate, Goto, waitVars, unblockVars
    <2> QED
      BY <1>3, <2>1, <2>2, <2>3, <2>4, <2>5, <2>6, <2>7, <2>8 DEF Client
  <1>4. ASSUME ClockStep PROVE ClaimsInv'
    <2>1. CASE ExpiryBegin
      BY <2>1 DEF TypeOK, ExpiryBegin, Goto, waitVars, unblockVars
    <2>2. ASSUME NEW v \in Thread, ExpiryCollect(v) PROVE ClaimsInv'
      BY <2>2 DEF TypeOK, ExpiryCollect, Expirable
    <2>3. CASE ExpiryCollected
      BY <2>3 DEF TypeOK, ExpiryCollected, Goto, waitVars, unblockVars
    <2>4. ASSUME NEW v \in Thread, ExpiryFire(v) PROVE ClaimsInv'
      BY <2>4 DEF TypeOK, ExpiryFire, Goto, waitVars
    <2>5. CASE CancelEvent(Clock)
      BY <2>5 DEF TypeOK, CancelEvent, Goto, unblockVars
    <2>6. CASE CancelNoEvent(Clock)
      BY <2>6 DEF TypeOK, CancelNoEvent, Goto, waitVars, unblockVars
    <2>7. CASE ExpiryWake
      BY <2>7 DEF TypeOK, ExpiryWake, Goto, waitVars
    <2>8. CASE ExpiryEnd
      BY <2>8 DEF TypeOK, ExpiryEnd, Goto, waitVars, unblockVars
    <2> QED
      BY <1>4, <2>1, <2>2, <2>3, <2>4, <2>5, <2>6, <2>7, <2>8 DEF ClockStep
  <1> QED
    BY <1>1, <1>2, <1>3, <1>4 DEF Next

(* Every step preserves what is known about an actor that has claimed a    *)
(* thread.  A thread on its way out holds its locks until it is off its    *)
(* stack, so whoever gets one of them finds the thread off its stack.      *)
LEMMA ProgressStep ==
  ASSUME Inv, [Next]_vars
  PROVE  ProgressInv'
  <1>0. TypeOK /\ ClaimsInv /\ ProgressInv
    BY DEF Inv
  <1> USE <1>0, ConstantsAssumption DEF Actor, ProgressInv, ResumedOnce, ClaimsInv
  <1>1. CASE UNCHANGED vars
    BY <1>1 DEF TypeOK, vars, waitVars, unblockVars
  <1>e. ASSUME NEW a \in Actor, CancelEvent(a) PROVE ProgressInv'
    <2> DEFINE v == victim[a]
               q == info[v].q
    <2>1. v \in Thread /\ q \in Queue
      BY <1>e DEF CancelEvent, TypeOK, WaitInfo, ClaimsInv
    <2>2. pc[v] = "off" /\ v \notin timeouts
      BY <1>e, <2>1 DEF CancelEvent, Inv, LocksInv, ClaimsInv, Claims, Unblocking, Waiting
    <2>3. ToSet(Unlink(queue[q], v)) = ToSet(queue[q]) \ {v}
      BY <2>1, UnlinkList DEF TypeOK, Inv, ListsInv
    <2>4. \A r \in Queue : r # q => v \notin ToSet(queue[r])
      BY <2>1 DEF Inv, ListsInv
    <2>5. /\ pc[a] = "remove" /\ pc' = [pc EXCEPT ![a] = "wake"]
          /\ queue' = [queue EXCEPT ![q] = Unlink(queue[q], v)]
          /\ UNCHANGED <<timeouts, victim, cause, fireList, ready>>
      BY <1>e, <2>1 DEF CancelEvent, Goto, TypeOK, unblockVars
    <2>6. \A u \in Thread : info'[u].timed = info[u].timed
      BY <1>e, <2>1 DEF CancelEvent, TypeOK, WaitInfo
    <2>7. \A r \in Queue : ToSet(queue'[r]) = ToSet(queue[r]) \ {v}
      <3> HIDE DEF v, q
      <3> QED BY <2>1, <2>3, <2>4, <2>5 DEF TypeOK
    <2>8. \A b \in Actor : b # a => pc'[b] = pc[b]
      BY <2>5 DEF TypeOK
    <2>9. pc'[a] = "wake" /\ pc'[v] = "off"
      BY <2>1, <2>2, <2>5 DEF TypeOK
    <2>10. v = victim[a]
      OBVIOUS
    <2> HIDE DEF v, q
    <2>11. \A t \in Thread : pc[t] = "off" => pc'[t] = "off"
      BY <2>5, <2>8
    <2>12. (\A t \in Thread : pc[t] = "claim" => cause[t] = "cancel")'
      BY <2>5, <2>8, <2>9
    <2>13. (\A t \in Thread : pc[t] = "erase" /\ cause[t] = "event" =>
             pc[victim[t]] = "off" /\ \A r \in Queue : victim[t] \notin ToSet(queue[r]))'
      <3> SUFFICES ASSUME NEW t \in Thread, pc'[t] = "erase", cause'[t] = "event"
                   PROVE  /\ pc'[victim'[t]] = "off"
                          /\ \A r \in Queue : victim'[t] \notin ToSet(queue'[r])
        OBVIOUS
      <3>1. pc[t] = "erase" /\ cause[t] = "event" /\ victim[t] \in Thread
        BY <2>5, <2>8, <2>9
      <3>2. pc[victim[t]] = "off" /\ \A r \in Queue : victim[t] \notin ToSet(queue[r])
        BY <3>1
      <3>3. victim'[t] = victim[t]
        BY <2>5
      <3> HIDE <1>0 DEF Actor, ProgressInv, ResumedOnce, ClaimsInv
      <3> QED BY <3>1, <3>2, <3>3, <2>7, <2>11
    <2>14. (\A b \in Actor : pc[b] = "remove" =>
             /\ victim[b] \notin timeouts
             /\ info[victim[b]].timed => pc[victim[b]] = "off")'
      <3> SUFFICES ASSUME NEW b \in Actor, pc'[b] = "remove"
                   PROVE  /\ victim'[b] \notin timeouts'
                          /\ info'[victim'[b]].timed => pc'[victim'[b]] = "off"
        OBVIOUS
      <3>1. pc[b] = "remove" /\ victim[b] \in Thread
        BY <2>8, <2>9
      <3> QED BY <3>1, <2>5, <2>6, <2>11
    <2>15. (\A b \in Actor : pc[b] = "wake" =>
             /\ victim[b] \notin timeouts
             /\ pc[victim[b]] = "off"
             /\ \A r \in Queue : victim[b] \notin ToSet(queue[r]))'
      <3> SUFFICES ASSUME NEW b \in Actor, pc'[b] = "wake"
                   PROVE  /\ victim'[b] \notin timeouts'
                          /\ pc'[victim'[b]] = "off"
                          /\ \A r \in Queue : victim'[b] \notin ToSet(queue'[r])
        OBVIOUS
      <3>1. CASE b = a
        BY <3>1, <2>2, <2>5, <2>7, <2>9, <2>10
      <3>2. CASE b # a
        <4>1. pc[b] = "wake" /\ victim[b] \in Thread
          BY <3>2, <2>8
        <4>2. /\ victim[b] \notin timeouts /\ pc[victim[b]] = "off"
              /\ \A r \in Queue : victim[b] \notin ToSet(queue[r])
          BY <4>1
        <4>3. victim'[b] = victim[b] /\ timeouts' = timeouts
          BY <2>5
        <4> HIDE <1>0 DEF Actor, ProgressInv, ResumedOnce, ClaimsInv
        <4> QED BY <4>1, <4>2, <4>3, <2>7, <2>11
      <3> QED BY <3>1, <3>2
    <2>16. (\A u \in fireList : pc[u] = "off" /\ u \notin timeouts /\ info[u].timed)'
      <3> SUFFICES ASSUME NEW u \in fireList
                   PROVE  pc'[u] = "off" /\ u \notin timeouts' /\ info'[u].timed
        BY <2>5
      <3>1. u \in Thread
        BY DEF TypeOK
      <3> QED BY <3>1, <2>5, <2>6, <2>11
    <2>17. ResumedOnce'
      BY <2>5, <2>7, <2>11
    <2> QED BY <2>12, <2>13, <2>14, <2>15, <2>16, <2>17
  <1>2. ASSUME NEW t \in Thread, Step(t) PROVE ProgressInv'
    <2>1. CASE TakeTimeoutLock(t)
      BY <2>1 DEF TypeOK, TakeTimeoutLock, Goto, waitVars, unblockVars
    <2>2. CASE BlockRefuse(t)
      <3>1. t \notin fireList /\ \A a \in Actor : Unblocking(a) => victim[a] # t
        BY <2>2 DEF BlockRefuse, Claims, Unblocking, Waiting
      <3> QED
        BY <2>2, <3>1 DEF BlockRefuse, Goto, unblockVars, TypeOK, Unblocking
    <2>3. CASE BlockCheck(t)
      BY <2>3 DEF TypeOK, BlockCheck, Goto, waitVars, unblockVars
    <2>4. CASE BlockStore(t)
      <3>1. /\ ready[t] = 0 /\ t \notin fireList
            /\ \A a \in Actor : Unblocking(a) => victim[a] # t
        BY <2>4 DEF BlockStore, Claims, Unblocking, Waiting
      <3>2. \A r \in Queue, u \in Thread : u \in ToSet(queue'[r]) => u \in ToSet(queue[r]) \/ u = t
        <4>1. \A r \in Queue : ToSet(Append(queue[r], t)) = ToSet(queue[r]) \cup {t}
          BY AppendList DEF TypeOK
        <4> QED
          BY <2>4, <4>1 DEF BlockStore, TypeOK
      <3>3. /\ pc[t] = "store" /\ pc' = [pc EXCEPT ![t] = "switch"]
            /\ timeouts' \subseteq timeouts \cup {t}
            /\ UNCHANGED <<victim, cause, fireList, ready, info>>
        BY <2>4 DEF BlockStore, Goto, unblockVars
      <3> QED
        BY <3>1, <3>2, <3>3 DEF TypeOK, Unblocking
    <2>5. CASE SwitchOut(t)
      BY <2>5 DEF TypeOK, SwitchOut, Goto, waitVars, unblockVars, Unlocked
    <2>6. CASE Dispatch(t)
      <3>1. ready[t] = 1 /\ t \notin fireList /\ \A a \in Actor : Unblocking(a) => victim[a] # t
        BY <2>6 DEF Dispatch, TypeOK, Claims, Unblocking, Waiting
      <3> QED
        BY <2>6, <3>1 DEF Dispatch, Goto, waitVars, unblockVars, TypeOK, Unblocking
    <2>7. CASE SwitchIn(t)
      <3>1. t \notin fireList /\ \A a \in Actor : Unblocking(a) => victim[a] # t
        BY <2>7 DEF SwitchIn, Claims, Unblocking, Waiting
      <3> QED
        BY <2>7, <3>1 DEF SwitchIn, Goto, unblockVars, TypeOK, Unblocking
    <2>8. CASE SwitchInCancelled(t)
      BY <2>8 DEF TypeOK, SwitchInCancelled, Goto, waitVars, unblockVars
    <2>9. CASE ScanSkip(t)
      BY <2>9 DEF TypeOK, ScanSkip, waitVars
    <2>10. CASE ScanClaim(t)
      <3> DEFINE q == scan[t].q
                 v == queue[scan[t].q][scan[t].i]
      <3>1. q \in Queue /\ v \in Thread /\ v \in ToSet(queue[q])
        BY <2>10, ScanTarget
      <3>2. pc[v] \in {"switch", "off"} /\ info[v].q = q
        BY <3>1 DEF Inv, ListsInv
      <3>3. pc[v] = "off"
        BY <2>10, ScanTarget
      <3>4. ToSet(Unlink(queue[q], v)) = ToSet(queue[q]) \ {v}
        BY <3>1, UnlinkList DEF TypeOK, Inv, ListsInv
      <3>5. \A r \in Queue : r # q => v \notin ToSet(queue[r])
        BY <3>1, <3>2 DEF Inv, ListsInv
      <3>6. /\ pc[t] = "scan" /\ pc' = [pc EXCEPT ![t] = "erase"]
            /\ queue' = [queue EXCEPT ![q] = Unlink(queue[q], v)]
            /\ victim' = [victim EXCEPT ![t] = v]
            /\ cause' = [cause EXCEPT ![t] = "event"]
            /\ UNCHANGED <<timeouts, info, fireList, ready>>
        BY <2>10 DEF ScanClaim, Goto
      <3> HIDE DEF q, v
      <3> QED
        BY <3>1, <3>3, <3>4, <3>5, <3>6 DEF TypeOK
    <2>11. CASE ScanEnd(t)
      BY <2>11 DEF TypeOK, ScanEnd, Goto, waitVars
    <2>12. CASE CancelTimeout(t)
      <3> DEFINE v == victim[t]
      <3>1. v \in Thread /\ Waiting(v)
        BY <2>12 DEF CancelTimeout, Claims, Unblocking
      <3>2. info[v].timed => pc[v] = "off"
        BY <2>12, <3>1 DEF CancelTimeout, Inv, LocksInv, Waiting
      <3>3. v \notin timeouts'
        BY <2>12, <3>1 DEF CancelTimeout, Inv, ListsInv
      <3>4. /\ pc[t] = "erase"
            /\ pc' = [pc EXCEPT ![t] = IF cause[t] = "event" THEN "wake" ELSE "remove"]
            /\ timeouts' \subseteq timeouts
            /\ UNCHANGED <<info, queue, victim, cause, fireList, ready>>
        BY <2>12 DEF CancelTimeout, Goto, unblockVars
      <3> QED
        BY <3>1, <3>2, <3>3, <3>4 DEF TypeOK, Waiting
    <2>13. CASE CancelEvent(t)
      BY <2>13, <1>e
    <2>14. CASE CancelNoEvent(t)
      BY <2>14 DEF TypeOK, CancelNoEvent, Goto, waitVars, unblockVars, Inv, LocksInv,
         ListsInv, Claims, Unblocking, Waiting
    <2>15. CASE Wake(t)
      BY <2>15 DEF TypeOK, Wake, Goto, waitVars, Claims, Unblocking, Waiting
    <2>16. CASE CancelClaim(t)
      BY <2>16 DEF TypeOK, CancelClaim, Goto, unblockVars
    <2>17. CASE CancelMiss(t)
      BY <2>17 DEF TypeOK, CancelMiss, Goto, waitVars
    <2>18. CASE Preempt(t)
      BY <2>18 DEF TypeOK, Preempt, Goto, waitVars, unblockVars
    <2>19. CASE Exit(t)
      BY <2>19 DEF TypeOK, Exit, Goto, waitVars, unblockVars
    <2> QED
      BY <1>2, <2>1, <2>2, <2>3, <2>4, <2>5, <2>6, <2>7, <2>8, <2>9, <2>10, <2>11, <2>12,
         <2>13, <2>14, <2>15, <2>16, <2>17, <2>18, <2>19 DEF Step
  <1>3. ASSUME NEW t \in Thread, Client(t) PROVE ProgressInv'
    <2>1. ASSUME NEW l \in Lock, Acquire(t, l) PROVE ProgressInv'
      BY <2>1 DEF TypeOK, Acquire, waitVars, unblockVars
    <2>2. ASSUME NEW l \in Lock, Release(t, l) PROVE ProgressInv'
      BY <2>2 DEF TypeOK, Release, waitVars, unblockVars
    <2>3. ASSUME NEW q \in Queue, BlockNot(t, q) PROVE ProgressInv'
      BY <2>3 DEF TypeOK, BlockNot, waitVars, unblockVars
    <2>4. ASSUME NEW q \in Queue, Resume(t, q) PROVE ProgressInv'
      BY <2>4 DEF TypeOK, Resume, Goto, waitVars
    <2>5. ASSUME NEW q \in Queue, NEW timed \in BOOLEAN, Block(t, q, timed) PROVE ProgressInv'
      <3>1. t \notin fireList /\ \A a \in Actor : Unblocking(a) => victim[a] # t
        BY <2>5 DEF Block, Claims, Unblocking, Waiting
      <3> QED
        BY <2>5, <3>1 DEF Block, Goto, unblockVars, TypeOK, Unblocking
    <2>6. CASE Sleep(t)
      <3>1. t \notin fireList /\ \A a \in Actor : Unblocking(a) => victim[a] # t
        BY <2>6 DEF Sleep, Claims, Unblocking, Waiting
      <3> QED
        BY <2>6, <3>1 DEF Sleep, Goto, unblockVars, TypeOK, Unblocking
    <2>7. ASSUME NEW v \in Thread, Cancel(t, v) PROVE ProgressInv'
      BY <2>7 DEF TypeOK, Cancel, Goto, waitVars
    <2>8. CASE Terminate(t)
      BY <2>8 DEF TypeOK, Terminate, Goto, waitVars, unblockVars
    <2> QED
      BY <1>3, <2>1, <2>2, <2>3, <2>4, <2>5, <2>6, <2>7, <2>8 DEF Client
  <1>4. ASSUME ClockStep PROVE ProgressInv'
    <2>1. CASE ExpiryBegin
      BY <2>1 DEF TypeOK, ExpiryBegin, Goto, waitVars, unblockVars
    <2>2. ASSUME NEW v \in Thread, ExpiryCollect(v) PROVE ProgressInv'
      BY <2>2 DEF TypeOK, ExpiryCollect, Expirable, Claims, Unblocking, Waiting, Inv,
         LocksInv, ListsInv
    <2>3. CASE ExpiryCollected
      BY <2>3 DEF TypeOK, ExpiryCollected, Goto, waitVars, unblockVars
    <2>4. ASSUME NEW v \in Thread, ExpiryFire(v) PROVE ProgressInv'
      BY <2>4 DEF TypeOK, ExpiryFire, Goto, waitVars
    <2>5. CASE CancelEvent(Clock)
      BY <2>5, <1>e
    <2>6. CASE CancelNoEvent(Clock)
      BY <2>6 DEF TypeOK, CancelNoEvent, Goto, waitVars, unblockVars, Inv, LocksInv,
         ListsInv, Claims, Unblocking, Waiting
    <2>7. CASE ExpiryWake
      BY <2>7 DEF TypeOK, ExpiryWake, Goto, waitVars, Claims, Unblocking, Waiting
    <2>8. CASE ExpiryEnd
      BY <2>8 DEF TypeOK, ExpiryEnd, Goto, waitVars, unblockVars
    <2> QED
      BY <1>4, <2>1, <2>2, <2>3, <2>4, <2>5, <2>6, <2>7, <2>8 DEF ClockStep
  <1> QED
    BY <1>1, <1>2, <1>3, <1>4 DEF Next

-----------------------------------------------------------------------------
(* The inductive invariant holds in every state of every behaviour.        *)
THEOREM Invariance == Spec => []Inv
  <1>1. Inv /\ [Next]_vars => Inv'
    BY TypeStep, LocksStep, ListsStep, ClaimsStep, ProgressStep DEF Inv
  <1> QED
    BY InitInv, <1>1, PTL DEF Spec

(* Type correctness of the blocking core.                                  *)
THEOREM TypeCorrect == Spec => []TypeOK
  BY Invariance, PTL DEF Inv

(* Of an event, a timeout and a cancellation that race to end a wait, one  *)
(* wins, whatever the number of threads and queues.                        *)
THEOREM ExactlyOneWinner == Spec => []OneWinner
  <1>1. Inv => OneWinner
    BY DEF Inv, ClaimsInv, OneWinner
  <1> QED BY <1>1, Invariance, PTL

(* The UnblockInfo on the stack of a waiting thread is never used once     *)
(* that thread can run again.                                              *)
THEOREM NoDanglingInfo == Spec => []InfoAlive
  <1>1. Inv => InfoAlive
    BY DEF Inv, ClaimsInv, InfoAlive
  <1> QED BY <1>1, Invariance, PTL

(* A thread enters a ready queue at most once per wait, off its stack and  *)
(* unlinked from every other list.                                         *)
THEOREM ResumedAtMostOnce == Spec => []ResumedOnce
  <1>1. Inv => ResumedOnce
    BY DEF Inv, ProgressInv
  <1> QED BY <1>1, Invariance, PTL

-----------------------------------------------------------------------------
(* Initially nothing is published or claimed.                              *)
LEMMA LinkedInit == Init => LinkedInv
  BY ConstantsAssumption DEF Init, LinkedInv, Actor

(* Nobody claims a thread that is not waiting, and of the threads that are *)
(* published or claimed every list keeps what the step does not unlink.    *)
LEMMA UnclaimedRunner ==
  ASSUME Inv, NEW t \in Thread, pc[t] \notin {"switch", "off"}
  PROVE  /\ ~ unblockInfo[t] /\ t \notin fireList
         /\ \A a \in Actor : Unblocking(a) => victim[a] # t
  BY DEF Inv, ClaimsInv, Claims, Waiting, Actor

(* Every step preserves what is linked: a list entry is removed only by    *)
(* the one actor that has claimed the thread.                              *)
LEMMA LinkedStep ==
  ASSUME Inv, LinkedInv, [Next]_vars
  PROVE  LinkedInv'
  <1>0. TypeOK
    BY DEF Inv
  <1>v. \A a \in Actor : pc[a] \in {"claim", "erase", "remove", "wake"} => victim[a] \in Thread
    BY DEF Inv, ClaimsInv
  <1> USE <1>0, <1>v, ConstantsAssumption DEF Actor, LinkedInv, Linked
  <1>1. CASE UNCHANGED vars
    BY <1>1 DEF vars, waitVars, unblockVars
  <1>e. ASSUME NEW a \in Actor, CancelEvent(a) PROVE LinkedInv'
    <2> DEFINE v == victim[a]
               q == info[v].q
    <2>1. v \in Thread /\ q \in Queue /\ pc[a] = "remove"
      BY <1>e DEF CancelEvent, TypeOK, WaitInfo
    <2>2. /\ ~ unblockInfo[v] /\ v \notin fireList
          /\ \A b \in Actor : b # a /\ Unblocking(b) => victim[b] # v
      BY <2>1 DEF Inv, ClaimsInv, Claims, Unblocking
    <2>3. ToSet(Unlink(queue[q], v)) = ToSet(queue[q]) \ {v}
      BY <2>1, UnlinkList DEF TypeOK, Inv, ListsInv
    <2>4. /\ pc' = [pc EXCEPT ![a] = "wake"]
          /\ queue' = [queue EXCEPT ![q] = Unlink(queue[q], v)]
          /\ UNCHANGED <<state, unblockInfo, timeouts, victim, cause, fireList>>
      BY <1>e DEF CancelEvent, Goto, unblockVars
    <2>5. \A u \in Thread : info'[u].q = info[u].q /\ info'[u].timed = info[u].timed
      BY <1>e, <2>1 DEF CancelEvent, TypeOK, WaitInfo
    <2>6. v = victim[a]
      OBVIOUS
    <2> HIDE DEF v, q
    <2>7. \A u \in Thread, r \in Queue : u # v /\ u \in ToSet(queue[r]) => u \in ToSet(queue'[r])
      BY <2>1, <2>3, <2>4 DEF TypeOK
    <2>8. \A u \in Thread : u # v /\ Linked(u) => Linked(u)'
      BY <2>5, <2>7 DEF TypeOK, WaitInfo
    <2>9. pc'[a] = "wake" /\ \A b \in Actor : b # a => pc'[b] = pc[b]
      BY <2>4 DEF TypeOK
    <2> HIDE DEF Linked
    <2>10. (\A u \in Thread : unblockInfo[u] => Linked(u) /\ (info[u].timed => u \in timeouts))'
      BY <2>2, <2>4, <2>5, <2>8
    <2>11. (\A b \in Actor : pc[b] = "erase" =>
             /\ info[victim[b]].timed => victim[b] \in timeouts
             /\ cause[b] # "event" => Linked(victim[b]))'
      <3> SUFFICES ASSUME NEW b \in Actor, pc'[b] = "erase"
                   PROVE  /\ info'[victim'[b]].timed => victim'[b] \in timeouts'
                          /\ cause'[b] # "event" => Linked(victim[b])'
        OBVIOUS
      <3>1. b # a /\ pc[b] = "erase" /\ victim[b] \in Thread /\ victim[b] # v
        BY <2>2, <2>9 DEF Unblocking
      <3>2. victim' = victim
        BY <2>4
      <3>3. cause[b] # "event" => Linked(victim[b])'
        <4> SUFFICES ASSUME cause[b] # "event" PROVE Linked(victim[b])'
          OBVIOUS
        <4>1. info'[victim[b]].q # NoQueue => victim[b] \in ToSet(queue'[info'[victim[b]].q])
          BY <3>1, <2>8 DEF Linked
        <4> QED BY <4>1, <3>2 DEF Linked
      <3> QED BY <3>1, <3>2, <3>3, <2>4, <2>5
    <2>12. (\A b \in Actor : pc[b] = "remove" => Linked(victim[b]))'
      BY <2>2, <2>4, <2>8, <2>9 DEF Unblocking
    <2>13. (\A u \in fireList : Linked(u))'
      BY <2>2, <2>4, <2>8 DEF TypeOK
    <2>14. (\A t \in Thread : state[t] = "Finishing" => pc[t] \in {"exit", "gone", "leaked"})'
      BY <2>1, <2>4, <2>9
    <2> QED BY <2>10, <2>11, <2>12, <2>13, <2>14
  <1>2. ASSUME NEW t \in Thread, Step(t) PROVE LinkedInv'
    <2>1. CASE TakeTimeoutLock(t)
      BY <2>1 DEF TypeOK, TakeTimeoutLock, Goto, waitVars, unblockVars
    <2>2. CASE BlockRefuse(t)
      <3>1. ~ unblockInfo[t] /\ t \notin fireList /\ \A a \in Actor : Unblocking(a) => victim[a] # t
        BY <2>2, UnclaimedRunner DEF BlockRefuse
      <3> QED BY <2>2, <3>1 DEF TypeOK, BlockRefuse, Goto, unblockVars, Unblocking
    <2>3. CASE BlockCheck(t)
      BY <2>3 DEF TypeOK, BlockCheck, Goto, waitVars, unblockVars
    <2>4. CASE BlockStore(t)
      <3>1. \A r \in Queue : ToSet(Append(queue[r], t)) = ToSet(queue[r]) \cup {t}
        BY AppendList DEF TypeOK
      <3>2. \A r \in Queue, u \in Thread : u \in ToSet(queue[r]) => u \in ToSet(queue'[r])
        BY <2>4, <3>1 DEF BlockStore, TypeOK
      <3>3. Linked(t)' /\ (info'[t].timed => t \in timeouts')
        BY <2>4, <3>1 DEF BlockStore, TypeOK, WaitInfo
      <3>4. /\ pc[t] = "store" /\ pc' = [pc EXCEPT ![t] = "switch"]
            /\ unblockInfo' = [unblockInfo EXCEPT ![t] = TRUE]
            /\ timeouts \subseteq timeouts'
            /\ UNCHANGED <<info, victim, cause, fireList, state>>
        BY <2>4 DEF BlockStore, Goto, unblockVars
      <3>5. \A u \in Thread : Linked(u) => Linked(u)'
        BY <3>2, <3>4 DEF TypeOK, WaitInfo
      <3> HIDE DEF Linked
      <3>6. (\A u \in Thread : unblockInfo[u] => Linked(u) /\ (info[u].timed => u \in timeouts))'
        BY <3>3, <3>4, <3>5 DEF TypeOK
      <3>7. (\A u \in fireList : Linked(u))'
        BY <3>4, <3>5 DEF TypeOK
      <3> QED BY <3>4, <3>5, <3>6, <3>7 DEF TypeOK
    <2>5. CASE SwitchOut(t)
      BY <2>5 DEF TypeOK, SwitchOut, Goto, waitVars, unblockVars
    <2>6. CASE Dispatch(t)
      BY <2>6 DEF TypeOK, Dispatch, Goto, waitVars, unblockVars
    <2>7. CASE SwitchIn(t)
      <3>1. ~ unblockInfo[t] /\ t \notin fireList /\ \A a \in Actor : Unblocking(a) => victim[a] # t
        BY <2>7, UnclaimedRunner DEF SwitchIn
      <3> QED BY <2>7, <3>1 DEF TypeOK, SwitchIn, Goto, unblockVars, Unblocking
    <2>8. CASE SwitchInCancelled(t)
      BY <2>8 DEF TypeOK, SwitchInCancelled, Goto, waitVars, unblockVars
    <2>9. CASE ScanSkip(t)
      BY <2>9 DEF ScanSkip, waitVars
    <2>10. CASE ScanClaim(t)
      <3> DEFINE q == scan[t].q
                 v == queue[scan[t].q][scan[t].i]
      <3>1. q \in Queue /\ v \in Thread /\ info[v].q = q
        BY <2>10, ScanTarget
      <3>2. ToSet(Unlink(queue[q], v)) = ToSet(queue[q]) \ {v}
        <4>1. queue[q] \in Seq(Thread) /\ IsInjective(queue[q])
          BY <3>1 DEF TypeOK, Inv, ListsInv
        <4> HIDE DEF q, v, LinkedInv, Linked
        <4> QED BY <3>1, <4>1, UnlinkList
      <3>3. /\ pc[t] = "scan" /\ pc' = [pc EXCEPT ![t] = "erase"]
            /\ unblockInfo[v] /\ unblockInfo' = [unblockInfo EXCEPT ![v] = FALSE]
            /\ queue' = [queue EXCEPT ![q] = Unlink(queue[q], v)]
            /\ victim' = [victim EXCEPT ![t] = v]
            /\ cause' = [cause EXCEPT ![t] = "event"]
            /\ UNCHANGED <<timeouts, info, fireList, state>>
        BY <2>10 DEF ScanClaim, Goto
      <3> HIDE DEF q, v
      <3>4. v \notin fireList /\ \A b \in Actor : Unblocking(b) => victim[b] # v
        BY <3>1, <3>3 DEF Inv, ClaimsInv, Claims
      <3>5. \A u \in Thread, r \in Queue : u # v /\ u \in ToSet(queue[r]) => u \in ToSet(queue'[r])
        BY <3>1, <3>2, <3>3 DEF TypeOK
      <3>6. \A u \in Thread : u # v /\ Linked(u) => Linked(u)'
        BY <3>3, <3>5 DEF TypeOK, WaitInfo
      <3>7. /\ pc'[t] = "erase" /\ victim'[t] = v /\ cause'[t] = "event"
            /\ \A b \in Actor : b # t => pc'[b] = pc[b] /\ victim'[b] = victim[b] /\ cause'[b] = cause[b]
        BY <3>3 DEF TypeOK
      <3> HIDE DEF Linked
      <3>8. (\A u \in Thread : unblockInfo[u] => Linked(u) /\ (info[u].timed => u \in timeouts))'
        BY <3>3, <3>6 DEF TypeOK
      <3>9. (\A b \in Actor : pc[b] = "erase" =>
               /\ info[victim[b]].timed => victim[b] \in timeouts
               /\ cause[b] # "event" => Linked(victim[b]))'
        <4> SUFFICES ASSUME NEW b \in Actor, pc'[b] = "erase"
                     PROVE  /\ info'[victim'[b]].timed => victim'[b] \in timeouts'
                            /\ cause'[b] # "event" => Linked(victim[b])'
          OBVIOUS
        <4>1. CASE b = t
          BY <4>1, <3>1, <3>3, <3>7
        <4>2. CASE b # t
          <5>1. pc[b] = "erase" /\ victim[b] \in Thread /\ victim[b] # v
            BY <4>2, <3>4, <3>7 DEF Unblocking
          <5>2. victim'[b] = victim[b] /\ cause'[b] = cause[b] /\ info' = info /\ timeouts' = timeouts
            BY <4>2, <3>3, <3>7
          <5>3. cause[b] # "event" => Linked(victim[b])'
            <6> SUFFICES ASSUME cause[b] # "event" PROVE Linked(victim[b])'
              OBVIOUS
            <6>1. (info[victim[b]].q # NoQueue => victim[b] \in ToSet(queue'[info[victim[b]].q]))
              BY <5>1, <5>2, <3>6 DEF Linked
            <6> QED BY <6>1, <5>2 DEF Linked
          <5> QED BY <5>1, <5>2, <5>3
        <4> QED BY <4>1, <4>2
      <3>10. (\A b \in Actor : pc[b] = "remove" => Linked(victim[b]))'
        <4> SUFFICES ASSUME NEW b \in Actor, pc'[b] = "remove" PROVE Linked(victim[b])'
          OBVIOUS
        <4>1. b # t /\ pc[b] = "remove" /\ victim[b] \in Thread /\ victim[b] # v
          BY <3>4, <3>7 DEF Unblocking
        <4>2. victim'[b] = victim[b] /\ info' = info
          BY <4>1, <3>3, <3>7
        <4>3. (info[victim[b]].q # NoQueue => victim[b] \in ToSet(queue'[info[victim[b]].q]))
          BY <4>1, <4>2, <3>6 DEF Linked
        <4> QED BY <4>2, <4>3 DEF Linked
      <3>11. (\A u \in fireList : Linked(u))'
        BY <3>3, <3>4, <3>6 DEF TypeOK
      <3>12. (\A u \in Thread : state[u] = "Finishing" => pc[u] \in {"exit", "gone", "leaked"})'
        BY <3>3, <3>7
      <3> QED BY <3>8, <3>9, <3>10, <3>11, <3>12
    <2>11. CASE ScanEnd(t)
      BY <2>11 DEF TypeOK, ScanEnd, Goto, waitVars
    <2>12. CASE CancelTimeout(t)
      <3>1. /\ ~ unblockInfo[victim[t]]
            /\ \A b \in Actor : b # t /\ Unblocking(b) => victim[b] # victim[t]
        BY <2>12 DEF CancelTimeout, Inv, ClaimsInv, Claims, Unblocking
      <3> QED BY <2>12, <3>1 DEF TypeOK, CancelTimeout, Goto, unblockVars, Unblocking
    <2>13. CASE CancelEvent(t)
      BY <2>13, <1>e
    <2>14. CASE CancelNoEvent(t)
      BY <2>14 DEF TypeOK, CancelNoEvent, Goto, waitVars, unblockVars
    <2>15. CASE Wake(t)
      BY <2>15 DEF TypeOK, Wake, Goto, waitVars
    <2>16. CASE CancelClaim(t)
      BY <2>16 DEF TypeOK, CancelClaim, Goto, unblockVars
    <2>17. CASE CancelMiss(t)
      BY <2>17 DEF TypeOK, CancelMiss, Goto, waitVars
    <2>18. CASE Preempt(t)
      BY <2>18 DEF TypeOK, Preempt, Goto, waitVars, unblockVars
    <2>19. CASE Exit(t)
      BY <2>19 DEF TypeOK, Exit, Goto, waitVars, unblockVars
    <2> QED
      BY <1>2, <2>1, <2>2, <2>3, <2>4, <2>5, <2>6, <2>7, <2>8, <2>9, <2>10, <2>11, <2>12,
         <2>13, <2>14, <2>15, <2>16, <2>17, <2>18, <2>19 DEF Step
  <1>3. ASSUME NEW t \in Thread, Client(t) PROVE LinkedInv'
    <2>0. pc[t] = "run" =>
            ~ unblockInfo[t] /\ t \notin fireList /\ \A a \in Actor : Unblocking(a) => victim[a] # t
      BY UnclaimedRunner
    <2>1. ASSUME NEW l \in Lock, Acquire(t, l) PROVE LinkedInv'
      BY <2>1 DEF Acquire, waitVars, unblockVars
    <2>2. ASSUME NEW l \in Lock, Release(t, l) PROVE LinkedInv'
      BY <2>2 DEF Release, waitVars, unblockVars
    <2>3. ASSUME NEW q \in Queue, BlockNot(t, q) PROVE LinkedInv'
      BY <2>3 DEF BlockNot, waitVars, unblockVars
    <2>4. ASSUME NEW q \in Queue, Resume(t, q) PROVE LinkedInv'
      BY <2>4 DEF TypeOK, Resume, Goto, waitVars
    <2>5. ASSUME NEW q \in Queue, NEW timed \in BOOLEAN, Block(t, q, timed) PROVE LinkedInv'
      BY <2>0, <2>5 DEF TypeOK, Block, Goto, unblockVars, Unblocking
    <2>6. CASE Sleep(t)
      BY <2>0, <2>6 DEF TypeOK, Sleep, Goto, unblockVars, Unblocking
    <2>7. ASSUME NEW v \in Thread, Cancel(t, v) PROVE LinkedInv'
      BY <2>7 DEF TypeOK, Cancel, Goto, waitVars
    <2>8. CASE Terminate(t)
      BY <2>8 DEF TypeOK, Terminate, Goto, waitVars, unblockVars
    <2> QED
      BY <1>3, <2>1, <2>2, <2>3, <2>4, <2>5, <2>6, <2>7, <2>8 DEF Client
  <1>4. ASSUME ClockStep PROVE LinkedInv'
    <2>1. CASE ExpiryBegin
      BY <2>1 DEF TypeOK, ExpiryBegin, Goto, waitVars, unblockVars
    <2>2. ASSUME NEW v \in Thread, ExpiryCollect(v) PROVE LinkedInv'
      <3>1. \A b \in Actor : Unblocking(b) => victim[b] # v
        BY <2>2 DEF ExpiryCollect, Expirable, Inv, ClaimsInv, Claims
      <3> QED BY <2>2, <3>1 DEF TypeOK, ExpiryCollect, Expirable, Unblocking
    <2>3. CASE ExpiryCollected
      BY <2>3 DEF TypeOK, ExpiryCollected, Goto, waitVars, unblockVars
    <2>4. ASSUME NEW v \in Thread, ExpiryFire(v) PROVE LinkedInv'
      BY <2>4 DEF TypeOK, ExpiryFire, Goto, waitVars
    <2>5. CASE CancelEvent(Clock)
      BY <2>5, <1>e
    <2>6. CASE CancelNoEvent(Clock)
      BY <2>6 DEF TypeOK, CancelNoEvent, Goto, waitVars, unblockVars
    <2>7. CASE ExpiryWake
      BY <2>7 DEF TypeOK, ExpiryWake, Goto, waitVars
    <2>8. CASE ExpiryEnd
      BY <2>8 DEF TypeOK, ExpiryEnd, Goto, waitVars, unblockVars
    <2> QED
      BY <1>4, <2>1, <2>2, <2>3, <2>4, <2>5, <2>6, <2>7, <2>8 DEF ClockStep
  <1> QED
    BY <1>1, <1>2, <1>3, <1>4 DEF Next

(* A published or claimed UnblockInfo stays linked where its claimant will *)
(* look for it.                                                            *)
THEOREM LinkedInvariance == Spec => []LinkedInv
  <1>1. Inv /\ LinkedInv /\ [Next]_vars => LinkedInv'
    BY LinkedStep
  <1> QED
    BY LinkedInit, Invariance, <1>1, PTL DEF Spec

(* The queues hold waiting threads only, each once; IntrusiveList::remove  *)
(* and multimap::erase find what they unlink; the assertions of            *)
(* Thread::block hold.                                                     *)
THEOREM QueuesStaySound == Spec => []QueuesSound
  <1>1. Inv /\ LinkedInv => QueuesSound
    <2> SUFFICES ASSUME Inv, LinkedInv PROVE QueuesSound
      OBVIOUS
    <2>1. \A q \in Queue : ToSet(queue[q]) \subseteq Thread
      BY DEF Inv, TypeOK, ToSet
    <2>2. \A q \in Queue : /\ IsInjective(queue[q])
                           /\ \A v \in ToSet(queue[q]) : Waiting(v) /\ info[v].q = q
      BY <2>1 DEF Inv, ListsInv, ProgressInv, ResumedOnce, Waiting
    <2>3. \A v \in timeouts : Waiting(v) /\ info[v].timed
      BY DEF Inv, TypeOK, ListsInv, ProgressInv, ResumedOnce, Waiting
    <2>4. ListsSound
      BY <2>2, <2>3 DEF ListsSound, LinkedInv
    <2>5. BlockAsserts
      BY DEF BlockAsserts, Inv, ClaimsInv, Waiting, LinkedInv
    <2> QED BY <2>4, <2>5 DEF QueuesSound
  <1> QED BY <1>1, Invariance, LinkedInvariance, PTL
=============================================================================
