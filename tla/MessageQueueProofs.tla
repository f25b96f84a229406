------------------------- MODULE MessageQueueProofs -------------------------
(***************************************************************************)
(* Proofs about MessageQueue: every step of the message queue is a step of *)
(* the blocking core, baton passing neither loses nor duplicates a slot,   *)
(* and the queue implements a bounded FIFO channel, for any number of      *)
(* threads and calls and any capacity.                                     *)
(***************************************************************************)
EXTENDS MessageQueue, BlockingSyncProofs, FiniteSetTheorems

-----------------------------------------------------------------------------
(* Both queues of a message queue share its lock.                          *)
LEMMA QueueFacts ==
  /\ MqLock \in Lock /\ MqLock # TimeoutLock /\ ThreadLock \in Lock /\ ThreadLock # TimeoutLock
  /\ \A d \in Dir : /\ Other(d) \in Dir /\ Other(d) # d /\ Other(Other(d)) = d
                    /\ QueueOf[d] \in Queue /\ QueueOf[d] # NoQueue /\ LockOf[QueueOf[d]] = MqLock
  /\ \A d, e \in Dir : (QueueOf[d] = QueueOf[e] => d = e) /\ (d # e => e = Other(d))
  BY ConstantsAssumption, MessageQueueAssumption DEF MqLock, Dir, Other

(* Whatever the queue's code does, the blocking core sees one of the steps *)
(* it allows its clients; a caller that has been granted a slot takes the  *)
(* lock again with no other lock held.                                     *)
LEMMA StepOfCore ==
  ASSUME TypeOK, MqInv, [MqNext]_allVars
  PROVE  [Next]_vars
  <1> USE QueueFacts
  <1>1. CASE UNCHANGED allVars
    BY <1>1 DEF allVars
  <1>2. CASE ClockStep
    BY <1>2 DEF Next
  <1>3. ASSUME NEW t \in Thread, CoreStep(t) PROVE Step(t)
    BY <1>3 DEF CoreStep
  <1>4. ASSUME NEW t \in Thread, NEW d \in Dir, NEW limit \in Limit, Enter(t, d, limit) PROVE Client(t)
    BY <1>4 DEF Enter, Client
  <1>5. ASSUME NEW t \in Thread, NEW d \in Dir,
               \/ TakeSlot(t, d) \/ BlockFor(t, d) \/ Interrupted(t, d) \/ Granted(t, d)
               \/ Transfer(t, d) \/ Passed(t, d) \/ NotPassed(t, d)
        PROVE  Client(t) \/ UNCHANGED vars
    <2>1. CASE TakeSlot(t, d) \/ Interrupted(t, d) \/ Passed(t, d)
      BY <2>1 DEF TakeSlot, Interrupted, Passed
    <2>2. CASE BlockFor(t, d)
      BY <2>2 DEF BlockFor, Client
    <2>3. CASE Granted(t, d)
      <3>1. HoldsNone(t)
        <4>1. pc[t] = "run" /\ call[t].at = "wait" /\ call[t].d \in Dir
          BY <2>3 DEF Granted, Acquire
        <4>2. \A l \in Lock \cup {TimeoutLock} : ~ MayHold(t, l)
          BY <4>1 DEF MayHold, Dir
        <4>3. DOMAIN lock = Lock \cup {TimeoutLock}
          BY DEF TypeOK
        <4> QED BY <4>2, <4>3 DEF HoldsNone, MqInv, LocksAt
      <3> QED BY <2>3, <3>1 DEF Granted, Client
    <2>4. CASE Transfer(t, d)
      BY <2>4 DEF Transfer, Client
    <2>5. CASE NotPassed(t, d)
      BY <2>5 DEF NotPassed, Client
    <2> QED BY <1>5, <2>1, <2>2, <2>3, <2>4, <2>5
  <1>6. ASSUME NEW t \in Thread, CancelBegin(t) \/ CancelOne(t) \/ CancelEnd(t) PROVE Client(t)
    BY <1>6 DEF CancelBegin, CancelOne, CancelEnd, Client
  <1> QED
    BY <1>1, <1>2, <1>3, <1>4, <1>5, <1>6 DEF MqNext, ThreadStep, Next

-----------------------------------------------------------------------------
(* The initial states satisfy the invariant.                               *)
LEMMA MqInvInit == MqInit => MqInv
  <1> SUFFICES ASSUME MqInit PROVE MqInv
    OBVIOUS
  <1> USE ConstantsAssumption, MessageQueueAssumption
  <1>0. NoElement \in Element /\ 0 \in 0 .. Capacity - 1 /\ 0 \in 0 .. Capacity /\ 0 \in 0 .. MaxCalls
    BY DEF Element
  <1>i. Idle \in [d : Dir \cup {"none", "cancel"}, limit : Limit,
                  at : {"idle", "start", "wait", "slot", "pass"}]
    BY DEF Idle, Limit
  <1>1. MqTypeOK
    BY <1>0, <1>i DEF MqInit, MqTypeOK
  <1>2. ASSUME NEW t \in Thread PROVE CallsAt(t) /\ LocksAt(t)
    <2>1. /\ pc[t] = "run" /\ call[t] = Idle /\ ~ unblockInfo[t] /\ t # Nobody
          /\ \A l \in Lock \cup {TimeoutLock} : lock[l] = Nobody
      BY DEF MqInit, Init, Actor
    <2> QED BY <2>1 DEF CallsAt, LocksAt, Idle, Dir
  <1> QED BY <1>1, <1>2 DEF MqInv

(* What every step leaves alone of the threads that do not take it.        *)
Still(u) ==
  /\ pc'[u] = pc[u] /\ result'[u] = result[u] /\ call'[u] = call[u] /\ scan'[u] = scan[u]
  /\ info'[u].q = info[u].q /\ info'[u].timed = info[u].timed
  /\ \A l \in Lock \cup {TimeoutLock} : lock'[l] = u => lock[l] = u
  /\ unblockInfo'[u] => unblockInfo[u]
  /\ info'[u].timedOut => info[u].timedOut \/ (~ unblockInfo'[u] /\ pc[u] \in {"switch", "off"})

LEMMA StillHolds ==
  ASSUME NEW u, Still(u), CallsAt(u), LocksAt(u)
  PROVE  CallsAt(u)' /\ LocksAt(u)'
  <1>1. CallsAt(u)'
    BY DEF Still, CallsAt
  <1>2. LocksAt(u)'
    <2>1. \A l : MayHold(u, l)' <=> MayHold(u, l)
      BY DEF Still, MayHold
    <2> QED BY <2>1 DEF Still, LocksAt
  <1> QED BY <1>1, <1>2

-----------------------------------------------------------------------------
(* What a step leaves alone of a thread's part in the slots.               *)
Keeps(u) ==
  \A d \in Dir : (HasSlot(u, d)' <=> HasSlot(u, d)) /\ (Owes(u, d)' <=> Owes(u, d))

(* A thread that ends takes what it has with it.                           *)
Loses(u) == \A d \in Dir : (HasSlot(u, d)' => HasSlot(u, d)) /\ (Owes(u, d)' => Owes(u, d))

(* A thread that neither has a slot nor owes one.                          *)
Out(u) == \A d \in Dir : ~ HasSlot(u, d) /\ ~ Owes(u, d)

(* The scan of t claims v: what t owes, v has.                             *)
Passes(t, v) ==
  \E o \in Dir :
    /\ Owes(t, o) /\ HasSlot(v, o)' /\ Out(t)' /\ Out(v)
    /\ \A d \in Dir : /\ ~ HasSlot(t, d) /\ ~ Owes(v, d)'
                      /\ d # o => ~ Owes(t, d) /\ ~ HasSlot(v, d)'

LEMMA SameWait ==
  ASSUME NEW u, Still(u), unblockInfo'[u] <=> unblockInfo[u], info'[u].timedOut <=> info[u].timedOut,
         \A d \in Dir : u \in ToSet(queue'[QueueOf[d]]) <=> u \in ToSet(queue[QueueOf[d]])
  PROVE  Keeps(u)
  BY DEF Still, Keeps, HasSlot, Owes

(* What the invariants say about waiting and claimed threads.              *)
LEMMA WaitFacts ==
  ASSUME Inv, LinkedInv, MqInv
  PROVE  /\ \A u \in Thread : unblockInfo[u] => pc[u] \in {"switch", "off"}
         /\ \A u \in Thread : pc[u] \in {"timed", "check", "store", "switch", "off", "on"} =>
              call[u].at = "wait" /\ call[u].d \in Dir /\ info[u].q = QueueOf[call[u].d]
         /\ \A u \in Thread : pc[u] \in {"timed", "check", "store", "switch"} => lock[MqLock] = u
         /\ \A u \in Thread : unblockInfo[u] => u \in ToSet(queue[QueueOf[call[u].d]])
         /\ \A u \in Thread, d \in Dir : u \in ToSet(queue[QueueOf[d]]) =>
              pc[u] \in {"switch", "off"} /\ call[u].d = d
         /\ \A a \in Actor : pc[a] = "remove" =>
              /\ victim[a] \in Thread /\ victim[a] \in ToSet(queue[QueueOf[call[victim[a]].d]])
              /\ pc[victim[a]] \in {"switch", "off"} /\ ~ unblockInfo[victim[a]]
  <1>c. \A u \in Thread : CallsAt(u)
    BY DEF MqInv
  <1>1. \A u \in Thread : pc[u] \in {"timed", "check", "store", "switch", "off", "on"} =>
              call[u].at = "wait" /\ call[u].d \in Dir /\ info[u].q = QueueOf[call[u].d]
    BY <1>c DEF CallsAt
  <1>2. \A u \in Thread : pc[u] \in {"timed", "check", "store", "switch"} => lock[MqLock] = u
    <2> SUFFICES ASSUME NEW u \in Thread, pc[u] \in {"timed", "check", "store", "switch"} PROVE lock[MqLock] = u
      OBVIOUS
    <2>1. info[u].q # NoQueue /\ LockOf[info[u].q] = MqLock
      BY <1>1, QueueFacts
    <2> QED BY <2>1 DEF Inv, LocksInv
  <1>3. \A u \in Thread : unblockInfo[u] => pc[u] \in {"switch", "off"}
    BY DEF Inv, ClaimsInv, Waiting
  <1>4. \A u \in Thread : pc[u] \in {"switch", "off"} => info[u].q # NoQueue
    BY <1>1, QueueFacts
  <1>5. \A u \in Thread : unblockInfo[u] => u \in ToSet(queue[QueueOf[call[u].d]])
    BY <1>1, <1>3, <1>4 DEF LinkedInv, Linked
  <1>6. \A u \in Thread, d \in Dir : u \in ToSet(queue[QueueOf[d]]) =>
              pc[u] \in {"switch", "off"} /\ call[u].d = d
    BY <1>1, QueueFacts DEF Inv, ListsInv
  <1>7. ASSUME NEW a \in Actor, pc[a] = "remove"
        PROVE  /\ victim[a] \in Thread /\ victim[a] \in ToSet(queue[QueueOf[call[victim[a]].d]])
               /\ pc[victim[a]] \in {"switch", "off"} /\ ~ unblockInfo[victim[a]]
    <2>1. victim[a] \in Thread
      BY <1>7 DEF Inv, ClaimsInv
    <2>2. pc[victim[a]] \in {"switch", "off"} /\ ~ unblockInfo[victim[a]]
      BY <1>7, <2>1 DEF Inv, ClaimsInv, Claims, Unblocking, Waiting
    <2> QED BY <1>1, <1>4, <1>7, <2>1, <2>2 DEF LinkedInv, Linked
  <1> QED BY <1>1, <1>2, <1>3, <1>5, <1>6, <1>7

(* Releasing the locks of a wait takes them from their holder only.        *)
LEMMA UnlockedFacts ==
  ASSUME TypeOK, NEW t \in Thread, lock' = Unlocked(WaitLocks(t))
  PROVE  /\ \A u \in Actor, l \in Lock \cup {TimeoutLock} : lock'[l] = u => lock[l] = u
         /\ info[t].q # NoQueue => \A u \in Actor : lock'[LockOf[info[t].q]] # u
         /\ info[t].timed => \A u \in Actor : lock'[TimeoutLock] # u
  BY ConstantsAssumption DEF TypeOK, WaitInfo, Unlocked, WaitLocks, Actor

(* cancelEvent, by a canceller or by the clock: until then its victim is   *)
(* linked, and afterwards it has timed out.                                *)
LEMMA CancelMoves ==
  ASSUME Inv, LinkedInv, MqInv, NEW a \in Actor, CancelEvent(a), UNCHANGED qvars
  PROVE  /\ \A u \in Thread : u # a => Still(u)
         /\ \A u \in Thread : Keeps(u)
         /\ a \in Thread => CallsAt(a)' /\ LocksAt(a)'
  <1>0. TypeOK /\ UNCHANGED call /\ \A u \in Thread : CallsAt(u) /\ LocksAt(u)
    BY DEF Inv, qvars, MqInv
  <1>1. PICK v : v = victim[a]
    OBVIOUS
  <1>2. /\ v \in Thread /\ v \in ToSet(queue[QueueOf[call[v].d]])
        /\ pc[v] \in {"switch", "off"} /\ ~ unblockInfo[v] /\ v # a
    BY <1>1, WaitFacts DEF CancelEvent
  <1>3. PICK q \in Queue : q = QueueOf[call[v].d] /\ info[v].q = q
    BY <1>2, WaitFacts, QueueFacts
  <1>4. /\ pc[a] = "remove" /\ pc' = [pc EXCEPT ![a] = "wake"]
        /\ queue' = [queue EXCEPT ![q] = Unlink(queue[q], v)]
        /\ info' = [info EXCEPT ![v].timedOut = TRUE]
        /\ UNCHANGED <<unblockInfo, result, lock, scan>>
    BY <1>1, <1>3 DEF CancelEvent, Goto, unblockVars
  <1>5. /\ info'[v].timedOut /\ info'[v].q = info[v].q /\ info'[v].timed = info[v].timed
        /\ \A u \in Thread : u # v => info'[u] = info[u]
    BY <1>0, <1>2, <1>4 DEF TypeOK, WaitInfo
  <1>6. pc'[a] = "wake" /\ \A u \in Thread : u # a => pc'[u] = pc[u]
    BY <1>0, <1>4 DEF TypeOK, Actor
  <1>7. \A u \in Thread : u # a => Still(u)
    BY <1>0, <1>2, <1>4, <1>5, <1>6 DEF Still
  <1>8. ASSUME NEW u \in Thread, u # v, NEW d \in Dir
        PROVE  u \in ToSet(queue'[QueueOf[d]]) <=> u \in ToSet(queue[QueueOf[d]])
    <2>1. ToSet(Unlink(queue[q], v)) = ToSet(queue[q]) \ {v}
      BY <1>0, <1>2, <1>3, UnlinkList DEF TypeOK, Inv, ListsInv
    <2>2. queue'[QueueOf[d]] = IF QueueOf[d] = q THEN Unlink(queue[q], v) ELSE queue[QueueOf[d]]
      BY <1>0, <1>4, QueueFacts DEF TypeOK
    <2> QED BY <1>8, <2>1, <2>2
  <1>9. \A u \in Thread : u # v /\ u # a => Keeps(u)
    BY <1>4, <1>5, <1>7, <1>8, SameWait
  <1>10. Keeps(v)
    <2>1. call[v].at = "wait" /\ pc'[v] = pc[v] /\ call'[v] = call[v]
      BY <1>0, <1>2, <1>6, WaitFacts
    <2> QED BY <1>2, <1>5, <2>1 DEF Keeps, HasSlot, Owes
  <1>11. ASSUME a \in Thread PROVE Keeps(a) /\ CallsAt(a)' /\ LocksAt(a)'
    <2>1. call[a].at \in {"pass", "idle"}
      BY <1>0, <1>4, <1>11 DEF CallsAt
    <2>2. Keeps(a)
      BY <1>0, <1>4, <1>6, <2>1 DEF Keeps, HasSlot, Owes
    <2>3. info'[a] = info[a] /\ ~ unblockInfo[a]
      BY <1>2, <1>4, <1>5, <1>11, WaitFacts
    <2>4. CallsAt(a)'
      BY <1>0, <1>4, <1>6, <1>11, <2>1, <2>3 DEF CallsAt
    <2>5. LocksAt(a)'
      BY <1>0, <1>4, <1>6, <1>11, <2>1 DEF LocksAt, MayHold
    <2> QED BY <2>2, <2>4, <2>5
  <1> QED BY <1>7, <1>9, <1>10, <1>11

(* A step of the blocking core moves only the thread that takes it.  It    *)
(* leaves all slots where they are, or ends a cancelled thread, or passes  *)
(* what the thread owes to the waiter that its scan claims.                *)
LEMMA CoreMoves ==
  ASSUME Inv, LinkedInv, MqInv, NEW t \in Thread, Step(t), UNCHANGED qvars
  PROVE  /\ \A u \in Thread : u # t => Still(u)
         /\ CallsAt(t)' /\ LocksAt(t)'
         /\ \/ \A u \in Thread : Keeps(u)
            \/ state'[t] # "Running" /\ Loses(t) /\ \A u \in Thread : u # t => Keeps(u)
            \/ \E v \in Thread : /\ v # t /\ Passes(t, v)
                                 /\ \A u \in Thread : u # t /\ u # v => Keeps(u)
  <1>0. /\ TypeOK /\ UNCHANGED call /\ CallsAt(t) /\ LocksAt(t) /\ t \in Actor /\ t # Nobody
        /\ MqTypeOK
    BY ConstantsAssumption DEF Inv, qvars, MqInv, Actor
  <1>w. \A u \in Thread : u # t => u \in Actor /\ u # Nobody
    BY ConstantsAssumption DEF Actor
  (* The other threads, for the steps that touch none of them.               *)
  <1>f. ASSUME NEW l, pc' = [pc EXCEPT ![t] = l], UNCHANGED queue,
               \A u \in Thread : u # t => /\ result'[u] = result[u] /\ scan'[u] = scan[u]
                                          /\ info'[u] = info[u] /\ unblockInfo'[u] = unblockInfo[u],
               \A u \in Thread, k \in Lock \cup {TimeoutLock} : u # t /\ lock'[k] = u => lock[k] = u
        PROVE  pc'[t] = l /\ \A u \in Thread : u # t => Still(u) /\ Keeps(u)
    <2>1. pc'[t] = l /\ \A u \in Thread : u # t => pc'[u] = pc[u]
      BY <1>0, <1>f DEF TypeOK, Actor
    <2>2. \A u \in Thread : u # t => Still(u)
      BY <1>0, <1>f, <2>1 DEF Still
    <2>3. \A u \in Thread : u # t => Keeps(u)
      BY <1>f, <2>2, SameWait
    <2> QED BY <2>1, <2>2, <2>3
  <1>1. CASE TakeTimeoutLock(t)
    <2>1. /\ pc[t] = "timed" /\ pc' = [pc EXCEPT ![t] = "check"] /\ lock[TimeoutLock] = Nobody
          /\ lock' = [lock EXCEPT ![TimeoutLock] = t]
          /\ UNCHANGED <<result, info, unblockInfo, queue, scan>>
      BY <1>0, <1>1 DEF TakeTimeoutLock, Goto, CallsAt, waitVars, unblockVars
    <2>2. \A k \in Lock \cup {TimeoutLock} : lock'[k] = IF k = TimeoutLock THEN t ELSE lock[k]
      BY <1>0, <2>1 DEF TypeOK
    <2>3. pc'[t] = "check" /\ \A u \in Thread : u # t => Still(u) /\ Keeps(u)
      BY <1>f, <2>1, <2>2
    <2>4. info[t].timed /\ lock[MqLock] = t /\ call[t].at = "wait" /\ call[t].d \in Dir
      BY <2>1, WaitFacts DEF Inv, LocksInv
    <2>5. CallsAt(t)'
      BY <1>0, <2>1, <2>3 DEF CallsAt
    <2>6. LocksAt(t)'
      BY <1>0, <2>1, <2>2, <2>3, <2>4 DEF LocksAt, MayHold
    <2>7. Keeps(t)
      BY <1>0, <2>1, <2>3, <2>4 DEF Keeps, HasSlot, Owes
    <2> QED BY <2>3, <2>5, <2>6, <2>7
  <1>2. CASE BlockRefuse(t)
    <2>1. /\ pc[t] = "check" /\ pc' = [pc EXCEPT ![t] = "run"] /\ lock' = Unlocked(WaitLocks(t))
          /\ result' = [result EXCEPT ![t] = FALSE] /\ info' = [info EXCEPT ![t] = NoWait]
          /\ UNCHANGED <<unblockInfo, queue, scan>>
      BY <1>2 DEF BlockRefuse, Goto, unblockVars
    <2>2. /\ ~ result'[t] /\ ~ info'[t].timedOut
          /\ \A u \in Thread : u # t => result'[u] = result[u] /\ info'[u] = info[u]
      BY <1>0, <2>1 DEF TypeOK, NoWait
    <2>3. pc'[t] = "run" /\ \A u \in Thread : u # t => Still(u) /\ Keeps(u)
      <3>1. \A u \in Thread, k \in Lock \cup {TimeoutLock} : u # t /\ lock'[k] = u => lock[k] = u
        BY <1>0, <1>w, <2>1, UnlockedFacts
      <3> QED BY <1>f, <2>1, <2>2, <3>1
    <2>4. /\ call[t].at = "wait" /\ call[t].d \in Dir /\ info[t].q # NoQueue /\ LockOf[info[t].q] = MqLock
      BY <2>1, WaitFacts, QueueFacts
    <2>5. CallsAt(t)'
      BY <1>0, <2>1, <2>2, <2>3, <2>4 DEF CallsAt
    <2>6. LocksAt(t)'
      BY <1>0, <2>1, <2>3, <2>4, UnlockedFacts DEF LocksAt, MayHold, Dir
    <2>7. Keeps(t)
      BY <1>0, <2>1, <2>2, <2>3, <2>4 DEF Keeps, HasSlot, Owes
    <2> QED BY <2>3, <2>5, <2>6, <2>7
  <1>3. CASE BlockCheck(t)
    <2>1. /\ pc[t] = "check" /\ pc' = [pc EXCEPT ![t] = "store"]
          /\ UNCHANGED <<lock, result, info, unblockInfo, queue, scan>>
      BY <1>3 DEF BlockCheck, Goto, waitVars, unblockVars
    <2>2. pc'[t] = "store" /\ \A u \in Thread : u # t => Still(u) /\ Keeps(u)
      BY <1>f, <2>1
    <2>3. call[t].at = "wait"
      BY <2>1, WaitFacts
    <2>4. CallsAt(t)' /\ LocksAt(t)'
      BY <1>0, <2>1, <2>2 DEF CallsAt, LocksAt, MayHold
    <2>5. Keeps(t)
      BY <1>0, <2>1, <2>2, <2>3 DEF Keeps, HasSlot, Owes
    <2> QED BY <2>2, <2>4, <2>5
  <1>4. CASE BlockStore(t)
    <2>1. PICK q \in Queue : q = info[t].q /\ q = QueueOf[call[t].d] /\ q # NoQueue
      BY <1>4, WaitFacts, QueueFacts DEF BlockStore
    <2>2. /\ pc[t] = "store" /\ pc' = [pc EXCEPT ![t] = "switch"]
          /\ unblockInfo' = [unblockInfo EXCEPT ![t] = TRUE]
          /\ queue' = [queue EXCEPT ![q] = Append(queue[q], t)]
          /\ UNCHANGED <<lock, result, info, scan>>
      BY <1>4, <2>1 DEF BlockStore, Goto, unblockVars
    <2>3. pc'[t] = "switch" /\ \A u \in Thread : u # t => pc'[u] = pc[u]
      BY <1>0, <2>2 DEF TypeOK, Actor
    <2>4. unblockInfo'[t] /\ \A u \in Thread : u # t => unblockInfo'[u] = unblockInfo[u]
      BY <1>0, <2>2 DEF TypeOK
    <2>5. \A u \in Thread : u # t => Still(u)
      BY <1>0, <2>2, <2>3, <2>4 DEF Still
    <2>6. ASSUME NEW u \in Thread, u # t, NEW d \in Dir
          PROVE  u \in ToSet(queue'[QueueOf[d]]) <=> u \in ToSet(queue[QueueOf[d]])
      <3>1. ToSet(Append(queue[q], t)) = ToSet(queue[q]) \cup {t}
        BY <1>0, AppendList DEF TypeOK
      <3>2. queue'[QueueOf[d]] = IF QueueOf[d] = q THEN Append(queue[q], t) ELSE queue[QueueOf[d]]
        BY <1>0, <2>2, QueueFacts DEF TypeOK
      <3> QED BY <2>6, <3>1, <3>2
    <2>7. \A u \in Thread : u # t => Keeps(u)
      BY <2>2, <2>4, <2>5, <2>6, SameWait
    <2>8. call[t].at = "wait"
      BY <2>2, WaitFacts
    <2>9. CallsAt(t)'
      BY <1>0, <2>2, <2>3 DEF CallsAt
    <2>10. LocksAt(t)'
      BY <1>0, <2>2, <2>3 DEF LocksAt, MayHold
    <2>11. Keeps(t)
      BY <1>0, <2>2, <2>3, <2>4, <2>8 DEF Keeps, HasSlot, Owes
    <2> QED BY <2>5, <2>7, <2>9, <2>10, <2>11
  <1>5. CASE SwitchOut(t)
    <2>1. /\ pc[t] = "switch" /\ pc' = [pc EXCEPT ![t] = "off"] /\ lock' = Unlocked(WaitLocks(t))
          /\ UNCHANGED <<result, info, unblockInfo, queue, scan>>
      BY <1>5 DEF SwitchOut, Goto, waitVars, unblockVars
    <2>2. pc'[t] = "off" /\ \A u \in Thread : u # t => Still(u) /\ Keeps(u)
      <3>1. \A u \in Thread, k \in Lock \cup {TimeoutLock} : u # t /\ lock'[k] = u => lock[k] = u
        BY <1>0, <1>w, <2>1, UnlockedFacts
      <3> QED BY <1>f, <2>1, <3>1
    <2>3. /\ call[t].at = "wait" /\ call[t].d \in Dir /\ info[t].q # NoQueue /\ LockOf[info[t].q] = MqLock
      BY <2>1, WaitFacts, QueueFacts
    <2>4. CallsAt(t)'
      BY <1>0, <2>1, <2>2 DEF CallsAt
    <2>5. LocksAt(t)'
      BY <1>0, <2>1, <2>2, <2>3, UnlockedFacts DEF LocksAt, MayHold, Dir
    <2>6. Keeps(t)
      BY <1>0, <2>1, <2>2 DEF Keeps, HasSlot, Owes
    <2> QED BY <2>2, <2>4, <2>5, <2>6
  <1>6. CASE Dispatch(t)
    <2>1. /\ pc[t] = "off" /\ pc' = [pc EXCEPT ![t] = "on"]
          /\ UNCHANGED <<lock, result, info, unblockInfo, queue, scan>>
      BY <1>6 DEF Dispatch, Goto, waitVars, unblockVars
    <2>2. pc'[t] = "on" /\ \A u \in Thread : u # t => Still(u) /\ Keeps(u)
      BY <1>f, <2>1
    <2>3. CallsAt(t)' /\ LocksAt(t)'
      BY <1>0, <2>1, <2>2 DEF CallsAt, LocksAt, MayHold
    <2>4. Keeps(t)
      BY <1>0, <2>1, <2>2 DEF Keeps, HasSlot, Owes
    <2> QED BY <2>2, <2>3, <2>4
  <1>7. CASE SwitchIn(t)
    <2>1. /\ pc[t] = "on" /\ pc' = [pc EXCEPT ![t] = "run"]
          /\ result' = [result EXCEPT ![t] = ~ info[t].timedOut] /\ info' = [info EXCEPT ![t] = NoWait]
          /\ UNCHANGED <<lock, unblockInfo, queue, scan>>
      BY <1>7 DEF SwitchIn, Goto, unblockVars
    <2>2. /\ ~ info'[t].timedOut
          /\ \A u \in Thread : u # t => result'[u] = result[u] /\ info'[u] = info[u]
      BY <1>0, <2>1 DEF TypeOK, NoWait
    <2>3. result'[t] <=> ~ info[t].timedOut
      BY <1>0, <2>1 DEF TypeOK
    <2>4. pc'[t] = "run" /\ \A u \in Thread : u # t => Still(u) /\ Keeps(u)
      BY <1>f, <2>1, <2>2
    <2>5. /\ call[t].at = "wait" /\ call[t].d \in Dir /\ ~ unblockInfo[t]
          /\ \A d \in Dir : t \notin ToSet(queue[QueueOf[d]])
      BY <2>1, WaitFacts
    <2>6. CallsAt(t)'
      BY <1>0, <2>1, <2>2, <2>4, <2>5 DEF CallsAt
    <2>7. LocksAt(t)'
      BY <1>0, <2>1, <2>4, <2>5 DEF LocksAt, MayHold, Dir
    <2>8. Keeps(t)
      BY <1>0, <2>1, <2>3, <2>4, <2>5 DEF Keeps, HasSlot, Owes
    <2> QED BY <2>4, <2>6, <2>7, <2>8
  <1>8. CASE SwitchInCancelled(t) \/ Preempt(t)
    <2>1. /\ pc[t] \in {"on", "run", "sleep", "claim", "erase", "remove", "wake"}
          /\ pc' = [pc EXCEPT ![t] = "exit"] /\ state' = [state EXCEPT ![t] = "Finishing"]
          /\ UNCHANGED <<lock, result, info, unblockInfo, queue, scan>>
      BY <1>8 DEF SwitchInCancelled, Preempt, Goto, waitVars, unblockVars
    <2>2. pc'[t] = "exit" /\ \A u \in Thread : u # t => Still(u) /\ Keeps(u)
      BY <1>f, <2>1
    <2>3. state'[t] # "Running" /\ ~ unblockInfo[t]
      <3>1. state'[t] = "Finishing"
        BY <1>0, <2>1 DEF TypeOK
      <3>2. ~ unblockInfo[t]
        BY <2>1, WaitFacts
      <3> QED BY <3>1, <3>2
    <2>4. \A k \in Lock \cup {TimeoutLock} : lock[k] # t
      <3>1. CASE SwitchInCancelled(t)
        <4>1. pc[t] = "on" /\ call[t].d \in Dir
          BY <3>1, WaitFacts DEF SwitchInCancelled
        <4> QED BY <1>0, <4>1 DEF LocksAt, MayHold, Dir
      <3>2. CASE Preempt(t)
        BY <1>0, <3>2 DEF Preempt, HoldsNone, TypeOK
      <3> QED BY <1>8, <3>1, <3>2
    <2>5. CallsAt(t)'
      BY <1>0, <2>1, <2>2, <2>3 DEF CallsAt
    <2>6. LocksAt(t)'
      BY <2>1, <2>4 DEF LocksAt
    <2>7. Loses(t)
      BY <1>0, <2>2 DEF Loses, HasSlot, Owes
    <2> QED BY <2>2, <2>3, <2>5, <2>6, <2>7
  <1>9. CASE Exit(t)
    <2>1. PICK l \in {"gone", "leaked"} : pc' = [pc EXCEPT ![t] = l]
      BY <1>9 DEF Exit, Goto
    <2>2. pc[t] = "exit" /\ UNCHANGED <<lock, result, info, unblockInfo, queue, scan>>
      BY <1>9 DEF Exit, waitVars, unblockVars
    <2>3. pc'[t] = l /\ \A u \in Thread : u # t => Still(u) /\ Keeps(u)
      BY <1>f, <2>1, <2>2
    <2>4. CallsAt(t)' /\ LocksAt(t)'
      BY <1>0, <2>2, <2>3 DEF CallsAt, LocksAt, MayHold
    <2>5. Keeps(t)
      BY <1>0, <2>2, <2>3 DEF Keeps, HasSlot, Owes
    <2> QED BY <2>3, <2>4, <2>5
  <1>10. CASE ScanSkip(t)
    <2>1. /\ pc[t] = "scan" /\ scan' = [scan EXCEPT ![t].i = @ + 1]
          /\ UNCHANGED <<pc, lock, result, info, unblockInfo, queue>>
      BY <1>10 DEF ScanSkip, waitVars
    <2>2. scan'[t].q = scan[t].q /\ \A u \in Thread : u # t => scan'[u] = scan[u]
      BY <1>0, <2>1 DEF TypeOK, ScanPos
    <2>3. pc' = [pc EXCEPT ![t] = "scan"]
      BY <1>0, <2>1 DEF TypeOK
    <2>4. \A u \in Thread : u # t => Still(u) /\ Keeps(u)
      BY <1>f, <2>1, <2>2, <2>3
    <2>5. CallsAt(t)' /\ LocksAt(t)'
      BY <1>0, <2>1, <2>2 DEF CallsAt, LocksAt, MayHold
    <2>6. Keeps(t)
      BY <1>0, <2>1 DEF Keeps, HasSlot, Owes
    <2> QED BY <2>4, <2>5, <2>6
  <1>11. CASE ScanEnd(t)
    <2>1. /\ pc[t] = "scan" /\ pc' = [pc EXCEPT ![t] = "run"]
          /\ scan' = [scan EXCEPT ![t] = NoScan] /\ result' = [result EXCEPT ![t] = FALSE]
          /\ UNCHANGED <<lock, info, unblockInfo, queue>>
      BY <1>11 DEF ScanEnd, Goto, waitVars
    <2>2. ~ result'[t] /\ \A u \in Thread : u # t => scan'[u] = scan[u] /\ result'[u] = result[u]
      BY <1>0, <2>1 DEF TypeOK
    <2>3. pc'[t] = "run" /\ \A u \in Thread : u # t => Still(u) /\ Keeps(u)
      BY <1>f, <2>1, <2>2
    <2>4. call[t].at = "pass" /\ ~ unblockInfo[t]
      BY <1>0, <2>1, WaitFacts DEF CallsAt
    <2>5. CallsAt(t)'
      BY <1>0, <2>1, <2>3, <2>4 DEF CallsAt
    <2>6. LocksAt(t)'
      BY <1>0, <2>1, <2>2, <2>3, <2>4 DEF LocksAt, MayHold
    <2>7. Keeps(t)
      BY <1>0, <2>1, <2>2, <2>3, <2>4 DEF Keeps, HasSlot, Owes
    <2> QED BY <2>3, <2>5, <2>6, <2>7
  <1>12. CASE ScanClaim(t)
    <2>1. PICK v, q : v = queue[q][scan[t].i] /\ q = scan[t].q
      OBVIOUS
    <2>2. q \in Queue /\ v \in Thread /\ v \in ToSet(queue[q]) /\ pc[v] = "off" /\ info[v].q = q
      BY <1>12, <2>1, ScanTarget
    <2>3. /\ pc[t] = "scan" /\ pc' = [pc EXCEPT ![t] = "erase"] /\ scan' = [scan EXCEPT ![t] = NoScan]
          /\ unblockInfo[v] /\ unblockInfo' = [unblockInfo EXCEPT ![v] = FALSE]
          /\ queue' = [queue EXCEPT ![q] = Unlink(queue[q], v)]
          /\ lock' = [lock EXCEPT ![LockOf[q]] = Nobody]
          /\ UNCHANGED <<info, result>>
      BY <1>12, <2>1 DEF ScanClaim, Goto
    <2>4. /\ call[t].at = "pass" /\ call[t].d \in Dir /\ q = QueueOf[Other(call[t].d)]
          /\ call[v].at = "wait" /\ call[v].d \in Dir /\ q = QueueOf[call[v].d]
          /\ LockOf[q] = MqLock /\ v # t /\ ~ unblockInfo[t]
      <3>1. call[t].at = "pass" /\ call[t].d \in Dir /\ q = QueueOf[Other(call[t].d)]
        BY <1>0, <2>1, <2>3 DEF CallsAt
      <3>2. call[v].at = "wait" /\ call[v].d \in Dir /\ q = QueueOf[call[v].d]
        BY <2>2, WaitFacts
      <3>3. LockOf[q] = MqLock /\ v # t /\ ~ unblockInfo[t]
        BY <2>2, <2>3, <3>2, QueueFacts, WaitFacts
      <3> QED BY <3>1, <3>2, <3>3
    <2>5. PICK o \in Dir : o = call[v].d /\ o = Other(call[t].d)
      <3>1. Other(call[t].d) \in Dir /\ QueueOf[Other(call[t].d)] = QueueOf[call[v].d]
        BY <2>4, QueueFacts
      <3>2. Other(call[t].d) = call[v].d
        BY <2>4, <3>1, QueueFacts
      <3> QED BY <2>4, <3>2
    <2>6. pc'[t] = "erase" /\ \A u \in Thread : u # t => pc'[u] = pc[u] /\ scan'[u] = scan[u]
      BY <1>0, <2>3 DEF TypeOK, Actor
    <2>7. ~ unblockInfo'[v] /\ \A u \in Thread : u # v => unblockInfo'[u] = unblockInfo[u]
      BY <1>0, <2>2, <2>3 DEF TypeOK
    <2>8. \A k \in Lock \cup {TimeoutLock} : lock'[k] = IF k = MqLock THEN Nobody ELSE lock[k]
      BY <1>0, <2>3, <2>4 DEF TypeOK
    <2>9. \A u \in Thread : u # t => Still(u)
      BY <1>0, <1>w, <2>3, <2>6, <2>7, <2>8 DEF Still
    <2>10. ASSUME NEW u \in Thread, NEW d \in Dir
          PROVE  u \in ToSet(queue'[QueueOf[d]]) <=> u \in ToSet(queue[QueueOf[d]]) /\ ~ (u = v /\ d = o)
      <3>1. ToSet(Unlink(queue[q], v)) = ToSet(queue[q]) \ {v}
        BY <1>0, <2>2, UnlinkList DEF TypeOK, Inv, ListsInv
      <3>2. queue'[QueueOf[d]] = IF QueueOf[d] = q THEN Unlink(queue[q], v) ELSE queue[QueueOf[d]]
        BY <1>0, <2>3, QueueFacts DEF TypeOK
      <3>3. QueueOf[d] = q <=> d = o
        BY <2>4, <2>5, QueueFacts
      <3> QED BY <3>1, <3>2, <3>3
    <2>11. \A u \in Thread : u # t /\ u # v => Keeps(u)
      BY <2>3, <2>7, <2>9, <2>10, SameWait
    <2>12. CallsAt(t)'
      BY <1>0, <2>3, <2>4, <2>6, <2>7 DEF CallsAt
    <2>13. LocksAt(t)'
      BY <1>0, <2>3, <2>4, <2>8 DEF LocksAt, MayHold
    <2>14. Owes(t, o) /\ Out(t)' /\ \A d \in Dir : ~ HasSlot(t, d) /\ (d # o => ~ Owes(t, d))
      <3>1. Owes(t, o) /\ \A d \in Dir : ~ HasSlot(t, d) /\ (d # o => ~ Owes(t, d))
        BY <2>3, <2>4, <2>5, QueueFacts DEF Owes, HasSlot
      <3>2. Out(t)'
        BY <1>0, <2>4, <2>6 DEF Out, Owes, HasSlot
      <3> QED BY <3>1, <3>2
    <2>15. HasSlot(v, o)' /\ Out(v) /\ \A d \in Dir : ~ Owes(v, d)' /\ (d # o => ~ HasSlot(v, d)')
      <3>0. ~ info[v].timedOut
        BY <2>2, <2>3 DEF MqInv, CallsAt
      <3>1. Out(v)
        BY <2>2, <2>3, <2>4 DEF Out, Owes, HasSlot
      <3>2. HasSlot(v, o)'
        BY <1>0, <2>2, <2>3, <2>4, <2>5, <2>6, <2>7, <2>10, <3>0 DEF HasSlot
      <3>3. \A d \in Dir : ~ Owes(v, d)' /\ (d # o => ~ HasSlot(v, d)')
        BY <1>0, <2>4, <2>5 DEF HasSlot, Owes
      <3> QED BY <3>1, <3>2, <3>3
    <2>16. Passes(t, v)
      BY <2>14, <2>15 DEF Passes
    <2> QED BY <2>2, <2>4, <2>9, <2>11, <2>12, <2>13, <2>16
  <1>13. CASE CancelTimeout(t) \/ CancelNoEvent(t)
    <2>1. PICK l \in {"wake", "remove"} : pc' = [pc EXCEPT ![t] = l]
      BY <1>13 DEF CancelTimeout, CancelNoEvent, Goto
    <2>2. pc[t] \in {"erase", "remove"} /\ UNCHANGED <<lock, result, info, unblockInfo, queue, scan>>
      BY <1>13 DEF CancelTimeout, CancelNoEvent, waitVars, unblockVars
    <2>3. pc'[t] = l /\ \A u \in Thread : u # t => Still(u) /\ Keeps(u)
      BY <1>f, <2>1, <2>2
    <2>4. call[t].at \in {"pass", "idle"}
      BY <1>0, <2>2 DEF CallsAt
    <2>5. CallsAt(t)'
      BY <1>0, <2>2, <2>3, <2>4 DEF CallsAt
    <2>6. LocksAt(t)'
      BY <1>0, <2>2, <2>3 DEF LocksAt, MayHold
    <2>7. Keeps(t)
      BY <1>0, <2>2, <2>3, <2>4 DEF Keeps, HasSlot, Owes
    <2> QED BY <2>3, <2>5, <2>6, <2>7
  <1>14. CASE CancelEvent(t)
    BY <1>0, <1>14, CancelMoves
  <1>15. CASE Wake(t)
    <2>1. /\ pc[t] = "wake" /\ pc' = [pc EXCEPT ![t] = "run"] /\ result' = [result EXCEPT ![t] = TRUE]
          /\ UNCHANGED <<lock, info, unblockInfo, queue, scan>>
      BY <1>15 DEF Wake, Goto, waitVars
    <2>2. result'[t] /\ \A u \in Thread : u # t => result'[u] = result[u]
      BY <1>0, <2>1 DEF TypeOK
    <2>3. pc'[t] = "run" /\ \A u \in Thread : u # t => Still(u) /\ Keeps(u)
      BY <1>f, <2>1, <2>2
    <2>4. call[t].at \in {"pass", "idle"}
      BY <1>0, <2>1 DEF CallsAt
    <2>5. CallsAt(t)'
      BY <1>0, <2>1, <2>3 DEF CallsAt
    <2>6. LocksAt(t)'
      BY <1>0, <2>1, <2>3 DEF LocksAt, MayHold
    <2>7. Keeps(t)
      BY <1>0, <2>1, <2>2, <2>3, <2>4 DEF Keeps, HasSlot, Owes
    <2> QED BY <2>3, <2>5, <2>6, <2>7
  <1>16. CASE CancelClaim(t)
    <2>1. PICK v : v = victim[t]
      OBVIOUS
    <2>2. /\ pc[t] = "claim" /\ pc' = [pc EXCEPT ![t] = "erase"] /\ unblockInfo[v]
          /\ unblockInfo' = [unblockInfo EXCEPT ![v] = FALSE]
          /\ UNCHANGED <<lock, result, info, queue, scan>>
      BY <1>16, <2>1 DEF CancelClaim, Goto, unblockVars
    <2>3. /\ v \in Thread /\ pc[v] \in {"switch", "off"} /\ call[v].at = "wait" /\ v # t
          /\ v \in ToSet(queue[QueueOf[call[v].d]])
      <3>1. v \in Thread
        BY <1>0, <2>1, <2>2 DEF Inv, ClaimsInv
      <3> QED BY <2>2, <3>1, WaitFacts
    <2>4. pc'[t] = "erase" /\ \A u \in Thread : u # t => pc'[u] = pc[u]
      BY <1>0, <2>2 DEF TypeOK, Actor
    <2>5. ~ unblockInfo'[v] /\ \A u \in Thread : u # v => unblockInfo'[u] = unblockInfo[u]
      BY <1>0, <2>2, <2>3 DEF TypeOK
    <2>6. \A u \in Thread : u # t => Still(u)
      BY <1>0, <2>2, <2>4, <2>5 DEF Still
    <2>7. \A u \in Thread : u # t /\ u # v => Keeps(u)
      BY <2>2, <2>5, <2>6, SameWait
    <2>8. Keeps(v)
      BY <1>0, <2>2, <2>3, <2>4 DEF Keeps, HasSlot, Owes
    <2>9. call[t].at = "idle" /\ ~ unblockInfo[t]
      BY <1>0, <2>2, WaitFacts DEF CallsAt, Dir
    <2>10. CallsAt(t)'
      BY <1>0, <2>2, <2>3, <2>4, <2>5, <2>9 DEF CallsAt
    <2>11. LocksAt(t)'
      BY <1>0, <2>2, <2>4 DEF LocksAt, MayHold
    <2>12. Keeps(t)
      BY <1>0, <2>9 DEF Keeps, HasSlot, Owes
    <2> QED BY <2>6, <2>7, <2>8, <2>10, <2>11, <2>12
  <1>17. CASE CancelMiss(t)
    <2>1. /\ pc[t] = "claim" /\ pc' = [pc EXCEPT ![t] = "run"]
          /\ UNCHANGED <<lock, result, info, unblockInfo, queue, scan>>
      BY <1>17 DEF CancelMiss, Goto, waitVars
    <2>2. pc'[t] = "run" /\ \A u \in Thread : u # t => Still(u) /\ Keeps(u)
      BY <1>f, <2>1
    <2>3. call[t].at = "idle"
      BY <1>0, <2>1 DEF CallsAt, Dir
    <2>4. CallsAt(t)'
      BY <1>0, <2>1, <2>2 DEF CallsAt
    <2>5. LocksAt(t)'
      BY <1>0, <2>1, <2>2 DEF LocksAt, MayHold
    <2>6. Keeps(t)
      BY <1>0, <2>3 DEF Keeps, HasSlot, Owes
    <2> QED BY <2>2, <2>4, <2>5, <2>6
  <1> QED
    BY <1>1, <1>2, <1>3, <1>4, <1>5, <1>6, <1>7, <1>8, <1>9, <1>10, <1>11, <1>12, <1>13, <1>14, <1>15,
       <1>16, <1>17 DEF Step

(* A deadline that expires moves no slot.                                  *)
LEMMA ClockMoves ==
  ASSUME Inv, LinkedInv, MqInv, ClockStep, UNCHANGED qvars
  PROVE  \A u \in Thread : Still(u) /\ Keeps(u)
  <1>0. TypeOK /\ UNCHANGED call /\ Clock \in Actor /\ \A u \in Thread : u # Clock
    BY ConstantsAssumption DEF Inv, qvars, Actor
  <1>f. ASSUME NEW l, pc' = [pc EXCEPT ![Clock] = l],
               UNCHANGED <<result, scan, info, unblockInfo, queue>>,
               \A u \in Thread, k \in Lock \cup {TimeoutLock} : lock'[k] = u => lock[k] = u
        PROVE  \A u \in Thread : Still(u) /\ Keeps(u)
    <2>1. \A u \in Thread : pc'[u] = pc[u]
      BY <1>0, <1>f DEF TypeOK, Actor
    <2>2. \A u \in Thread : Still(u)
      BY <1>0, <1>f, <2>1 DEF Still
    <2> QED BY <1>f, <2>2, SameWait
  <1>1. CASE ExpiryBegin
    BY <1>0, <1>1, <1>f DEF ExpiryBegin, Goto, TypeOK, waitVars, unblockVars
  <1>2. ASSUME NEW v \in Thread, ExpiryCollect(v) PROVE \A u \in Thread : Still(u) /\ Keeps(u)
    <2>1. /\ unblockInfo[v] /\ unblockInfo' = [unblockInfo EXCEPT ![v] = FALSE]
          /\ UNCHANGED <<pc, lock, result, info, queue, scan>>
      BY <1>2 DEF ExpiryCollect, Expirable
    <2>2. ~ unblockInfo'[v] /\ \A u \in Thread : u # v => unblockInfo'[u] = unblockInfo[u]
      BY <1>0, <2>1 DEF TypeOK
    <2>3. \A u \in Thread : Still(u)
      BY <1>0, <2>1, <2>2 DEF Still
    <2>4. \A u \in Thread : u # v => Keeps(u)
      BY <2>1, <2>2, <2>3, SameWait
    <2>5. /\ pc[v] \in {"switch", "off"} /\ call[v].at = "wait" /\ v \in ToSet(queue[QueueOf[call[v].d]])
      BY <2>1, WaitFacts
    <2>6. Keeps(v)
      BY <1>0, <2>1, <2>5 DEF Keeps, HasSlot, Owes
    <2> QED BY <2>3, <2>4, <2>6
  <1>3. CASE ExpiryCollected
    <2>1. \A u \in Thread, k \in Lock \cup {TimeoutLock} : lock'[k] = u => lock[k] = u
      BY <1>0, <1>3, ConstantsAssumption DEF ExpiryCollected, TypeOK
    <2> QED BY <1>3, <1>f, <2>1 DEF ExpiryCollected, Goto, waitVars, unblockVars
  <1>4. ASSUME NEW v \in Thread, ExpiryFire(v) PROVE \A u \in Thread : Still(u) /\ Keeps(u)
    BY <1>4, <1>f DEF ExpiryFire, Goto, waitVars
  <1>5. CASE CancelEvent(Clock)
    BY <1>0, <1>5, CancelMoves
  <1>6. CASE CancelNoEvent(Clock)
    BY <1>6, <1>f DEF CancelNoEvent, Goto, waitVars, unblockVars
  <1>7. CASE ExpiryWake
    BY <1>7, <1>f DEF ExpiryWake, Goto, waitVars
  <1>8. CASE ExpiryEnd
    BY <1>8, <1>f DEF ExpiryEnd, Goto, waitVars, unblockVars
  <1> QED
    BY <1>1, <1>2, <1>3, <1>4, <1>5, <1>6, <1>7, <1>8 DEF ClockStep

-----------------------------------------------------------------------------
(* What a caller's step does to the slots: it takes one, moves its message *)
(* and owes one to the other side, or adds one that nobody waits for.      *)
Takes(t, d) ==
  /\ slots[d] > 0 /\ slots' = [slots EXCEPT ![d] = @ - 1] /\ count' = count
  /\ Out(t) /\ HasSlot(t, d)' /\ ~ HasSlot(t, Other(d))' /\ \A e \in Dir : ~ Owes(t, e)'

Moves(t, d) ==
  /\ slots' = slots /\ count' = IF d = "send" THEN count + 1 ELSE count - 1
  /\ HasSlot(t, d) /\ ~ HasSlot(t, Other(d)) /\ \A e \in Dir : ~ Owes(t, e)
  /\ Owes(t, Other(d))' /\ ~ Owes(t, d)' /\ \A e \in Dir : ~ HasSlot(t, e)'

Adds(t, d) ==
  /\ slots' = [slots EXCEPT ![Other(d)] = @ + 1] /\ count' = count
  /\ Owes(t, Other(d)) /\ ~ Owes(t, d) /\ (\A e \in Dir : ~ HasSlot(t, e)) /\ Out(t)'

(* The stage of one thread's call changes; or the call ends.               *)
LEMMA StageFacts ==
  ASSUME MqTypeOK, NEW t \in Thread
  PROVE  /\ \A stage : Reach(t, stage) => call'[t].at = stage /\ call'[t].d = call[t].d
         /\ Leave(t) => call'[t].at = "idle" /\ call'[t].d \notin Dir /\ call'[t].d # "cancel"
         /\ (Leave(t) \/ \E stage : Reach(t, stage)) => \A u \in Thread : u # t => call'[u] = call[u]
  BY DEF MqTypeOK, Reach, Leave, Idle, Dir

LEMMA CallerMoves ==
  ASSUME Inv, LinkedInv, MqInv, NEW t \in Thread, NEW d \in Dir,
         \/ TakeSlot(t, d) \/ BlockFor(t, d) \/ Interrupted(t, d) \/ Granted(t, d)
         \/ Transfer(t, d) \/ Passed(t, d) \/ NotPassed(t, d)
  PROVE  /\ \A u \in Thread : u # t => Still(u) /\ Keeps(u)
         /\ CallsAt(t)' /\ LocksAt(t)'
         /\ \/ Keeps(t) /\ UNCHANGED <<slots, count>>
            \/ Takes(t, d) \/ Moves(t, d) \/ Adds(t, d)
  <1>0. /\ TypeOK /\ MqTypeOK /\ CallsAt(t) /\ LocksAt(t) /\ t \in Actor /\ t # Nobody
        /\ d # "cancel" /\ d # "none" /\ Other(d) \in Dir /\ Other(d) # d
    BY ConstantsAssumption, QueueFacts DEF Inv, MqInv, Actor, Dir
  <1>u. ASSUME pc[t] = "run" PROVE ~ unblockInfo[t]
    BY <1>u, WaitFacts
  <1>f. ASSUME UNCHANGED <<unblockInfo, queue>>,
               \A u \in Thread : u # t => /\ pc'[u] = pc[u] /\ result'[u] = result[u] /\ scan'[u] = scan[u]
                                          /\ info'[u] = info[u] /\ call'[u] = call[u],
               \A u \in Thread, k \in Lock \cup {TimeoutLock} : u # t /\ lock'[k] = u => lock[k] = u
        PROVE  \A u \in Thread : u # t => Still(u) /\ Keeps(u)
    <2>1. \A u \in Thread : u # t => Still(u)
      BY <1>f DEF Still
    <2> QED BY <1>f, <2>1, SameWait
  <1>1. CASE TakeSlot(t, d)
    <2>1. /\ call[t].d = d /\ call[t].at = "start" /\ slots[d] > 0
          /\ slots' = [slots EXCEPT ![d] = @ - 1] /\ Reach(t, "slot")
          /\ UNCHANGED <<count, pc, result, scan, info, unblockInfo, queue, lock>>
      BY <1>1 DEF TakeSlot, bufVars, vars, waitVars, unblockVars
    <2>2. call'[t].at = "slot" /\ call'[t].d = d /\ \A u \in Thread : u # t => call'[u] = call[u]
      BY <1>0, <2>1, StageFacts
    <2>3. \A u \in Thread : u # t => Still(u) /\ Keeps(u)
      BY <1>f, <2>1, <2>2
    <2>4. CallsAt(t)'
      BY <1>0, <2>1, <2>2 DEF CallsAt
    <2>5. LocksAt(t)'
      BY <1>0, <2>1, <2>2 DEF LocksAt, MayHold
    <2>6. Takes(t, d)
      <3>1. Out(t)
        BY <2>1 DEF Out, HasSlot, Owes
      <3>2. HasSlot(t, d)' /\ ~ HasSlot(t, Other(d))' /\ \A e \in Dir : ~ Owes(t, e)'
        BY <1>0, <2>2 DEF HasSlot, Owes
      <3> QED BY <2>1, <3>1, <3>2 DEF Takes
    <2> QED BY <2>3, <2>4, <2>5, <2>6
  <1>2. ASSUME NEW timed \in BOOLEAN, Block(t, QueueOf[d], timed), Reach(t, "wait"),
               call[t].d = d, call[t].at = "start"
        PROVE  /\ \A u \in Thread : u # t => Still(u) /\ Keeps(u)
               /\ CallsAt(t)' /\ LocksAt(t)' /\ Keeps(t)
    <2>1. PICK l \in {"timed", "check"} : pc' = [pc EXCEPT ![t] = l]
      BY <1>2 DEF Block, Goto
    <2>2. /\ pc[t] = "run"
          /\ info' = [info EXCEPT ![t] = [q |-> QueueOf[d], timed |-> timed, timedOut |-> FALSE]]
          /\ UNCHANGED <<result, scan, unblockInfo, queue, lock>>
      BY <1>2 DEF Block, unblockVars
    <2>3. pc'[t] = l /\ \A u \in Thread : u # t => pc'[u] = pc[u]
      BY <1>0, <2>1 DEF TypeOK, Actor
    <2>4. /\ info'[t].q = QueueOf[d] /\ ~ info'[t].timedOut
          /\ \A u \in Thread : u # t => info'[u] = info[u]
      BY <1>0, <2>2 DEF TypeOK
    <2>5. call'[t].at = "wait" /\ call'[t].d = d /\ \A u \in Thread : u # t => call'[u] = call[u]
      BY <1>0, <1>2, StageFacts
    <2>6. \A u \in Thread : u # t => Still(u) /\ Keeps(u)
      BY <1>f, <2>2, <2>3, <2>4, <2>5
    <2>7. CallsAt(t)'
      BY <1>0, <2>3, <2>4, <2>5 DEF CallsAt
    <2>8. LocksAt(t)'
      BY <1>0, <1>2, <2>2, <2>3, <2>5 DEF LocksAt, MayHold
    <2>9. Keeps(t)
      BY <1>2, <2>3, <2>5 DEF Keeps, HasSlot, Owes
    <2> QED BY <2>6, <2>7, <2>8, <2>9
  <1>3. ASSUME BlockNot(t, QueueOf[d]), Leave(t), call[t].d = d, call[t].at = "start"
        PROVE  /\ \A u \in Thread : u # t => Still(u) /\ Keeps(u)
               /\ CallsAt(t)' /\ LocksAt(t)' /\ Keeps(t)
    <2>1. /\ pc[t] = "run" /\ result' = [result EXCEPT ![t] = FALSE]
          /\ lock' = [lock EXCEPT ![MqLock] = Nobody]
          /\ UNCHANGED <<pc, scan, info, unblockInfo, queue>>
      BY <1>3, QueueFacts DEF BlockNot, waitVars, unblockVars
    <2>2. \A u \in Thread : u # t => result'[u] = result[u]
      BY <1>0, <2>1 DEF TypeOK
    <2>3. \A k \in Lock \cup {TimeoutLock} : lock'[k] = IF k = MqLock THEN Nobody ELSE lock[k]
      BY <1>0, <2>1 DEF TypeOK
    <2>4. /\ call'[t].at = "idle" /\ call'[t].d \notin Dir
          /\ \A u \in Thread : u # t => call'[u] = call[u]
      BY <1>0, <1>3, StageFacts
    <2>5. \A u \in Thread : u # t => Still(u) /\ Keeps(u)
      BY <1>f, <2>1, <2>2, <2>3, <2>4, ConstantsAssumption
    <2>6. CallsAt(t)'
      BY <1>u, <2>1, <2>4 DEF CallsAt
    <2>7. LocksAt(t)'
      BY <1>0, <1>3, <2>1, <2>3 DEF LocksAt, MayHold
    <2>8. Keeps(t)
      BY <1>3, <2>4 DEF Keeps, HasSlot, Owes
    <2> QED BY <2>5, <2>6, <2>7, <2>8
  <1>4. CASE BlockFor(t, d)
    <2>1. UNCHANGED <<slots, count>> /\ call[t].d = d /\ call[t].at = "start"
      BY <1>4 DEF BlockFor, bufVars
    <2>2. \/ \E timed \in BOOLEAN : Block(t, QueueOf[d], timed) /\ Reach(t, "wait")
          \/ BlockNot(t, QueueOf[d]) /\ Leave(t)
      BY <1>4 DEF BlockFor
    <2> QED BY <1>2, <1>3, <2>1, <2>2
  <1>5. CASE Interrupted(t, d) \/ Passed(t, d)
    <2>1. /\ call[t].d = d /\ pc[t] = "run"
          /\ (call[t].at = "wait" /\ ~ result[t]) \/ (call[t].at = "pass" /\ result[t])
      BY <1>5 DEF Interrupted, Passed
    <2>2. Leave(t) /\ UNCHANGED <<slots, count, pc, result, scan, info, unblockInfo, queue, lock>>
      BY <1>5 DEF Interrupted, Passed, bufVars, vars, waitVars, unblockVars
    <2>3. /\ call'[t].at = "idle" /\ call'[t].d \notin Dir
          /\ \A u \in Thread : u # t => call'[u] = call[u]
      BY <1>0, <2>2, StageFacts
    <2>4. \A u \in Thread : u # t => Still(u) /\ Keeps(u)
      BY <1>f, <2>2, <2>3
    <2>5. CallsAt(t)'
      BY <1>u, <2>1, <2>2, <2>3 DEF CallsAt
    <2>6. LocksAt(t)'
      BY <1>0, <2>1, <2>2 DEF LocksAt, MayHold
    <2>7. Keeps(t)
      BY <2>1, <2>3 DEF Keeps, HasSlot, Owes
    <2> QED BY <2>2, <2>4, <2>5, <2>6, <2>7
  <1>6. CASE Granted(t, d)
    <2>1. /\ call[t].d = d /\ call[t].at = "wait" /\ pc[t] = "run" /\ result[t]
          /\ Reach(t, "slot") /\ lock' = [lock EXCEPT ![MqLock] = t]
          /\ UNCHANGED <<slots, count, pc, result, scan, info, unblockInfo, queue>>
      BY <1>6 DEF Granted, Acquire, bufVars, waitVars, unblockVars
    <2>2. \A k \in Lock \cup {TimeoutLock} : lock'[k] = IF k = MqLock THEN t ELSE lock[k]
      BY <1>0, <2>1 DEF TypeOK
    <2>3. call'[t].at = "slot" /\ call'[t].d = d /\ \A u \in Thread : u # t => call'[u] = call[u]
      BY <1>0, <2>1, StageFacts
    <2>4. \A u \in Thread : u # t => Still(u) /\ Keeps(u)
      BY <1>f, <2>1, <2>2, <2>3
    <2>5. CallsAt(t)'
      BY <1>0, <2>1, <2>3 DEF CallsAt
    <2>6. LocksAt(t)'
      BY <1>0, <2>1, <2>2, <2>3 DEF LocksAt, MayHold
    <2>7. Keeps(t)
      BY <2>1, <2>3 DEF Keeps, HasSlot, Owes
    <2> QED BY <2>1, <2>4, <2>5, <2>6, <2>7
  <1>7. CASE Transfer(t, d)
    <2>1. /\ call[t].d = d /\ call[t].at = "slot" /\ Reach(t, "pass") /\ slots' = slots
          /\ count' = IF d = "send" THEN count + 1 ELSE count - 1
      BY <1>7 DEF Transfer, Push, Pop
    <2>2. /\ pc[t] = "run" /\ pc' = [pc EXCEPT ![t] = "scan"]
          /\ scan' = [scan EXCEPT ![t] = [q |-> QueueOf[Other(d)], i |-> 1]]
          /\ UNCHANGED <<result, info, unblockInfo, queue, lock>>
      BY <1>7 DEF Transfer, Resume, Goto, waitVars
    <2>3. pc'[t] = "scan" /\ \A u \in Thread : u # t => pc'[u] = pc[u]
      BY <1>0, <2>2 DEF TypeOK, Actor
    <2>4. scan'[t].q = QueueOf[Other(d)] /\ \A u \in Thread : u # t => scan'[u] = scan[u]
      BY <1>0, <2>2 DEF TypeOK
    <2>5. call'[t].at = "pass" /\ call'[t].d = d /\ \A u \in Thread : u # t => call'[u] = call[u]
      BY <1>0, <2>1, StageFacts
    <2>6. \A u \in Thread : u # t => Still(u) /\ Keeps(u)
      BY <1>f, <2>2, <2>3, <2>4, <2>5
    <2>7. CallsAt(t)'
      BY <1>u, <2>2, <2>3, <2>4, <2>5 DEF CallsAt
    <2>8. LocksAt(t)'
      BY <1>0, <2>1, <2>2, <2>3, <2>5 DEF LocksAt, MayHold
    <2>9. Moves(t, d)
      <3>1. HasSlot(t, d) /\ ~ HasSlot(t, Other(d)) /\ \A e \in Dir : ~ Owes(t, e)
        BY <1>0, <2>1 DEF HasSlot, Owes
      <3>2. Owes(t, Other(d))' /\ ~ Owes(t, d)' /\ \A e \in Dir : ~ HasSlot(t, e)'
        BY <2>3, <2>5, QueueFacts DEF HasSlot, Owes
      <3> QED BY <2>1, <3>1, <3>2 DEF Moves
    <2> QED BY <2>6, <2>7, <2>8, <2>9
  <1>8. CASE NotPassed(t, d)
    <2>1. /\ call[t].d = d /\ call[t].at = "pass" /\ ~ result[t] /\ pc[t] = "run" /\ Leave(t)
          /\ slots' = [slots EXCEPT ![Other(d)] = @ + 1]
          /\ lock' = [lock EXCEPT ![MqLock] = Nobody]
          /\ UNCHANGED <<count, pc, result, scan, info, unblockInfo, queue>>
      BY <1>8 DEF NotPassed, Release, bufVars, waitVars, unblockVars
    <2>2. \A k \in Lock \cup {TimeoutLock} : lock'[k] = IF k = MqLock THEN Nobody ELSE lock[k]
      BY <1>0, <2>1 DEF TypeOK
    <2>3. /\ call'[t].at = "idle" /\ call'[t].d \notin Dir
          /\ \A u \in Thread : u # t => call'[u] = call[u]
      BY <1>0, <2>1, StageFacts
    <2>4. \A u \in Thread : u # t => Still(u) /\ Keeps(u)
      BY <1>f, <2>1, <2>2, <2>3, ConstantsAssumption
    <2>5. CallsAt(t)'
      BY <1>u, <2>1, <2>3 DEF CallsAt
    <2>6. LocksAt(t)'
      BY <1>0, <2>1, <2>2 DEF LocksAt, MayHold
    <2>7. Adds(t, d)
      <3>1. Owes(t, Other(d)) /\ ~ Owes(t, d) /\ (\A e \in Dir : ~ HasSlot(t, e))
        BY <2>1, QueueFacts DEF HasSlot, Owes
      <3>2. Out(t)'
        BY <2>3 DEF Out, HasSlot, Owes
      <3> QED BY <2>1, <3>1, <3>2 DEF Adds
    <2> QED BY <2>4, <2>5, <2>6, <2>7
  <1> QED BY <1>1, <1>4, <1>5, <1>6, <1>7, <1>8

(* A call begins, and the steps of a thread that cancels others.           *)
LEMMA OthersMove ==
  ASSUME Inv, LinkedInv, MqInv, NEW t \in Thread,
         \/ \E d \in Dir, limit \in Limit : Enter(t, d, limit)
         \/ CancelBegin(t) \/ CancelOne(t) \/ CancelEnd(t)
  PROVE  /\ \A u \in Thread : u # t => Still(u)
         /\ CallsAt(t)' /\ LocksAt(t)'
         /\ UNCHANGED <<slots, count>> /\ \A u \in Thread : Keeps(u)
  <1>0. /\ TypeOK /\ MqTypeOK /\ CallsAt(t) /\ LocksAt(t) /\ t \in Actor /\ t # Nobody
    BY ConstantsAssumption DEF Inv, MqInv, Actor
  <1>f. ASSUME UNCHANGED <<unblockInfo, queue, result, scan, info>>,
               \A u \in Thread : u # t => pc'[u] = pc[u] /\ call'[u] = call[u],
               \A u \in Thread, k \in Lock \cup {TimeoutLock} : u # t /\ lock'[k] = u => lock[k] = u
        PROVE  \A u \in Thread : u # t => Still(u) /\ Keeps(u)
    <2>1. \A u \in Thread : u # t => Still(u)
      BY <1>f DEF Still
    <2> QED BY <1>f, <2>1, SameWait
  <1>i. Idle.at = "idle" /\ Idle.d = "none" /\ "none" \notin Dir /\ "cancel" \notin Dir
    BY DEF Idle, Dir
  <1>1. ASSUME NEW d \in Dir, NEW limit \in Limit, Enter(t, d, limit)
        PROVE  /\ \A u \in Thread : u # t => Still(u) /\ Keeps(u)
               /\ CallsAt(t)' /\ LocksAt(t)' /\ UNCHANGED <<slots, count>> /\ Keeps(t)
    <2>1. /\ call[t] = Idle /\ HoldsNone(t) /\ pc[t] = "run" /\ lock' = [lock EXCEPT ![MqLock] = t]
          /\ call' = [call EXCEPT ![t] = [d |-> d, limit |-> limit, at |-> "start"]]
          /\ UNCHANGED <<slots, count, pc, unblockInfo, queue, result, scan, info>>
      BY <1>1 DEF Enter, Acquire, bufVars, waitVars, unblockVars
    <2>2. \A k \in Lock \cup {TimeoutLock} : lock[k] # t /\ lock'[k] = IF k = MqLock THEN t ELSE lock[k]
      BY <1>0, <2>1 DEF TypeOK, HoldsNone
    <2>3. call'[t].at = "start" /\ call'[t].d = d /\ \A u \in Thread : u # t => call'[u] = call[u]
      BY <1>0, <2>1 DEF MqTypeOK
    <2>4. \A u \in Thread : u # t => Still(u) /\ Keeps(u)
      BY <1>f, <2>1, <2>2, <2>3
    <2>5. CallsAt(t)'
      BY <1>0, <2>1, <2>3 DEF CallsAt
    <2>6. LocksAt(t)'
      BY <2>1, <2>2, <2>3 DEF LocksAt, MayHold
    <2>7. Keeps(t)
      BY <1>i, <2>1, <2>3 DEF Keeps, HasSlot, Owes
    <2> QED BY <2>1, <2>4, <2>5, <2>6, <2>7
  <1>2. CASE CancelBegin(t)
    <2>1. /\ call[t] = Idle /\ HoldsNone(t) /\ pc[t] = "run" /\ lock' = [lock EXCEPT ![ThreadLock] = t]
          /\ call' = [call EXCEPT ![t].d = "cancel"]
          /\ UNCHANGED <<slots, count, pc, unblockInfo, queue, result, scan, info>>
      BY <1>2 DEF CancelBegin, Acquire, bufVars, waitVars, unblockVars
    <2>2. \A k \in Lock \cup {TimeoutLock} : lock[k] # t /\ lock'[k] = IF k = ThreadLock THEN t ELSE lock[k]
      BY <1>0, <2>1, QueueFacts DEF TypeOK, HoldsNone
    <2>3. call'[t].at = "idle" /\ call'[t].d = "cancel" /\ \A u \in Thread : u # t => call'[u] = call[u]
      BY <1>0, <1>i, <2>1 DEF MqTypeOK
    <2>4. \A u \in Thread : u # t => Still(u) /\ Keeps(u)
      BY <1>f, <2>1, <2>2, <2>3
    <2>5. CallsAt(t)'
      BY <1>0, <1>i, <2>1, <2>3 DEF CallsAt
    <2>6. LocksAt(t)'
      BY <2>1, <2>2, <2>3 DEF LocksAt, MayHold
    <2>7. Keeps(t)
      BY <1>i, <2>1, <2>3 DEF Keeps, HasSlot, Owes
    <2> QED BY <2>1, <2>4, <2>5, <2>6, <2>7
  <1>3. CASE CancelOne(t)
    <2>1. /\ call[t].d = "cancel" /\ pc[t] = "run" /\ pc' = [pc EXCEPT ![t] = "claim"]
          /\ UNCHANGED <<slots, count, call, lock, unblockInfo, queue, result, scan, info>>
      BY <1>3 DEF CancelOne, Cancel, Goto, qvars, bufVars, waitVars
    <2>2. pc'[t] = "claim" /\ \A u \in Thread : u # t => pc'[u] = pc[u]
      BY <1>0, <2>1 DEF TypeOK, Actor
    <2>3. \A u \in Thread : u # t => Still(u) /\ Keeps(u)
      BY <1>f, <2>1, <2>2
    <2>4. call[t].at = "idle"
      BY <1>0, <1>i, <2>1 DEF CallsAt
    <2>5. CallsAt(t)'
      BY <1>0, <2>1, <2>2, WaitFacts DEF CallsAt
    <2>6. LocksAt(t)'
      BY <1>0, <2>1, <2>2, <2>4 DEF LocksAt, MayHold
    <2>7. Keeps(t)
      BY <2>1, <2>4 DEF Keeps, HasSlot, Owes
    <2> QED BY <2>1, <2>3, <2>5, <2>6, <2>7
  <1>4. CASE CancelEnd(t)
    <2>1. /\ call[t].d = "cancel" /\ pc[t] = "run" /\ lock' = [lock EXCEPT ![ThreadLock] = Nobody] /\ Leave(t)
          /\ UNCHANGED <<slots, count, pc, unblockInfo, queue, result, scan, info>>
      BY <1>4 DEF CancelEnd, Release, bufVars, waitVars, unblockVars
    <2>2. \A k \in Lock \cup {TimeoutLock} : lock'[k] = IF k = ThreadLock THEN Nobody ELSE lock[k]
      BY <1>0, <2>1, QueueFacts DEF TypeOK
    <2>3. call'[t].at = "idle" /\ call'[t].d \notin Dir /\ \A u \in Thread : u # t => call'[u] = call[u]
      BY <1>0, <2>1, StageFacts
    <2>4. \A u \in Thread : u # t => Still(u) /\ Keeps(u)
      BY <1>f, <2>1, <2>2, <2>3, ConstantsAssumption
    <2>5. call[t].at = "idle"
      BY <1>0, <1>i, <2>1 DEF CallsAt
    <2>6. CallsAt(t)'
      BY <2>1, <2>3, WaitFacts DEF CallsAt
    <2>7. LocksAt(t)'
      BY <1>0, <2>1, <2>2, <2>5 DEF LocksAt, MayHold
    <2>8. Keeps(t)
      BY <2>3, <2>5 DEF Keeps, HasSlot, Owes
    <2> QED BY <2>1, <2>4, <2>6, <2>7, <2>8
  <1> QED BY <1>1, <1>2, <1>3, <1>4

-----------------------------------------------------------------------------
(* Indices stay in the ring, and no counter goes below zero or above its   *)
(* bound: RingBuffer's assertions and the guards of the slots.             *)
LEMMA MqTypeStep ==
  ASSUME MqTypeOK, [MqNext]_allVars
  PROVE  MqTypeOK'
  <1> USE MessageQueueAssumption
  <1>0. NoElement \in Element
    BY DEF Element
  <1>1. CASE UNCHANGED qvars
    BY <1>1 DEF MqTypeOK, qvars, bufVars
  <1>r. ASSUME NEW t \in Thread, Leave(t) \/ \E stage \in {"wait", "slot", "pass"} : Reach(t, stage)
        PROVE  call' \in [Thread -> [d : Dir \cup {"none", "cancel"}, limit : Limit,
                          at : {"idle", "start", "wait", "slot", "pass"}]]
    <2>1. CASE Leave(t)
      BY <2>1 DEF MqTypeOK, Leave, Idle, Limit
    <2>2. ASSUME NEW stage \in {"wait", "slot", "pass"}, Reach(t, stage)
          PROVE  call' \in [Thread -> [d : Dir \cup {"none", "cancel"}, limit : Limit,
                            at : {"idle", "start", "wait", "slot", "pass"}]]
      <3>1. \A c \in [d : Dir \cup {"none", "cancel"}, limit : Limit,
                      at : {"idle", "start", "wait", "slot", "pass"}] :
              [c EXCEPT !.at = stage] \in [d : Dir \cup {"none", "cancel"}, limit : Limit,
                                          at : {"idle", "start", "wait", "slot", "pass"}]
        OBVIOUS
      <3>2. call' = [call EXCEPT ![t] = [call[t] EXCEPT !.at = stage]]
        BY <2>2 DEF Reach
      <3> QED BY <3>1, <3>2 DEF MqTypeOK
    <2> QED BY <1>r, <2>1, <2>2
  <1>2. ASSUME NEW t \in Thread, NEW d \in Dir,
               \/ TakeSlot(t, d) \/ BlockFor(t, d) \/ Interrupted(t, d) \/ Granted(t, d)
               \/ Passed(t, d) \/ NotPassed(t, d)
        PROVE  MqTypeOK'
    <2>1. Leave(t) \/ \E stage \in {"wait", "slot", "pass"} : Reach(t, stage)
      BY <1>2 DEF TakeSlot, BlockFor, Interrupted, Granted, Passed, NotPassed
    <2>2. slots' \in [Dir -> Nat]
      <3>1. CASE TakeSlot(t, d)
        <4>1. slots[d] \in Nat /\ slots[d] > 0 /\ slots' = [slots EXCEPT ![d] = @ - 1]
          BY <3>1 DEF MqTypeOK, TakeSlot
        <4>2. slots[d] - 1 \in Nat
          BY <4>1
        <4> QED BY <4>1, <4>2 DEF MqTypeOK
      <3>2. CASE NotPassed(t, d)
        BY <3>2, QueueFacts DEF MqTypeOK, NotPassed
      <3>3. CASE slots' = slots
        BY <3>3 DEF MqTypeOK
      <3> QED BY <1>2, <3>1, <3>2, <3>3 DEF BlockFor, Interrupted, Granted, Passed
    <2>3. UNCHANGED <<next, count, array, elem, calls>>
      BY <1>2 DEF TakeSlot, BlockFor, Interrupted, Granted, Passed, NotPassed, bufVars
    <2> QED BY <1>r, <2>1, <2>2, <2>3 DEF MqTypeOK
  <1>3. ASSUME NEW t \in Thread, NEW d \in Dir, Transfer(t, d) PROVE MqTypeOK'
    <2>1. Reach(t, "pass") /\ UNCHANGED <<slots, calls>>
      BY <1>3 DEF Transfer
    <2>2. CASE Push(t)
      <3>1. count' \in 0 .. Capacity
        BY <2>2 DEF Push, MqTypeOK
      <3>2. array' \in [0 .. Capacity - 1 -> Element]
        BY <2>2 DEF Push, MqTypeOK
      <3> QED BY <1>r, <2>1, <2>2, <3>1, <3>2 DEF Push, MqTypeOK
    <2>3. CASE Pop(t)
      <3>1. count' \in 0 .. Capacity
        BY <2>3 DEF Pop, MqTypeOK
      <3>2. next' \in 0 .. Capacity - 1
        BY <2>3 DEF Pop, MqTypeOK
      <3>3. elem' \in [Thread -> Element]
        BY <2>3 DEF Pop, MqTypeOK
      <3> QED BY <1>r, <2>1, <2>3, <3>1, <3>2, <3>3 DEF Pop, MqTypeOK
    <2> QED BY <1>3, <2>2, <2>3 DEF Transfer
  <1>4. ASSUME NEW t \in Thread, NEW d \in Dir, NEW limit \in Limit, Enter(t, d, limit) PROVE MqTypeOK'
    <2>1. calls[t] < MaxCalls /\ calls' = [calls EXCEPT ![t] = @ + 1]
      BY <1>4 DEF Enter
    <2>2. calls' \in [Thread -> 0 .. MaxCalls] /\ calls'[t] \in 1 .. MaxCalls
      BY <2>1 DEF MqTypeOK
    <2>3. elem' \in [Thread -> Element]
      <3>1. <<t, calls'[t]>> \in Element
        BY <2>2 DEF Element
      <3> QED BY <1>4, <3>1 DEF Enter, MqTypeOK
    <2>4. call' \in [Thread -> [d : Dir \cup {"none", "cancel"}, limit : Limit,
                          at : {"idle", "start", "wait", "slot", "pass"}]]
      BY <1>4 DEF Enter, MqTypeOK
    <2> QED BY <1>4, <2>2, <2>3, <2>4 DEF Enter, MqTypeOK, bufVars
  <1>5. ASSUME NEW t \in Thread, CancelBegin(t) PROVE MqTypeOK'
    <2>1. calls[t] < MaxCalls /\ calls' = [calls EXCEPT ![t] = @ + 1]
      BY <1>5 DEF CancelBegin
    <2>2. calls' \in [Thread -> 0 .. MaxCalls]
      BY <2>1 DEF MqTypeOK
    <2>3. call' \in [Thread -> [d : Dir \cup {"none", "cancel"}, limit : Limit,
                          at : {"idle", "start", "wait", "slot", "pass"}]]
      BY <1>5 DEF CancelBegin, MqTypeOK
    <2> QED BY <1>5, <2>2, <2>3 DEF CancelBegin, MqTypeOK, bufVars
  <1>6. ASSUME NEW t \in Thread, CancelEnd(t) PROVE MqTypeOK'
    BY <1>6, <1>r DEF CancelEnd, MqTypeOK, bufVars
  <1> QED
    BY <1>1, <1>2, <1>3, <1>4, <1>5, <1>6 DEF MqNext, CoreStep, ThreadStep, CancelOne, allVars

(* The invariants of the core and of the queue are kept together: the      *)
(* queue's own tells what locks a caller holds, which the core relies on.  *)
LEMMA InvStep ==
  ASSUME Inv, LinkedInv, MqInv, [MqNext]_allVars
  PROVE  Inv' /\ LinkedInv' /\ MqInv'
  <1>1. [Next]_vars
    BY StepOfCore DEF Inv
  <1>2. TypeOK' /\ LocksInv' /\ ListsInv' /\ ClaimsInv' /\ ProgressInv'
    BY <1>1, TypeStep, LocksStep, ListsStep, ClaimsStep, ProgressStep
  <1>3. LinkedInv'
    BY <1>1, LinkedStep
  <1>4. MqTypeOK'
    BY MqTypeStep DEF MqInv
  <1>s. ASSUME NEW u \in Thread, Still(u) PROVE CallsAt(u)' /\ LocksAt(u)'
    BY <1>s, StillHolds DEF MqInv
  <1>5. \A u \in Thread : CallsAt(u)' /\ LocksAt(u)'
    <2>1. CASE UNCHANGED allVars
      <3>1. \A u \in Thread : Still(u)
        BY <2>1 DEF Still, allVars, vars, waitVars, unblockVars, qvars
      <3> QED BY <1>s, <3>1
    <2>2. CASE ClockStep /\ UNCHANGED qvars
      BY <1>s, <2>2, ClockMoves
    <2>3. ASSUME NEW t \in Thread, CoreStep(t) PROVE \A u \in Thread : CallsAt(u)' /\ LocksAt(u)'
      BY <1>s, <2>3, CoreMoves DEF CoreStep
    <2>4. ASSUME NEW t \in Thread, ThreadStep(t) PROVE \A u \in Thread : CallsAt(u)' /\ LocksAt(u)'
      BY <1>s, <2>4, CallerMoves DEF ThreadStep
    <2>5. ASSUME NEW t \in Thread,
                 \/ \E d \in Dir, limit \in Limit : Enter(t, d, limit)
                 \/ CancelBegin(t) \/ CancelOne(t) \/ CancelEnd(t)
          PROVE  \A u \in Thread : CallsAt(u)' /\ LocksAt(u)'
      BY <1>s, <2>5, OthersMove
    <2> QED BY <2>1, <2>2, <2>3, <2>4, <2>5 DEF MqNext
  <1> QED BY <1>2, <1>3, <1>4, <1>5 DEF Inv, MqInv

(* The invariant holds in every reachable state.                           *)
THEOREM MqInvariance == MqSpec => [](Inv /\ LinkedInv /\ MqInv)
  <1>1. MqInit => Inv /\ LinkedInv /\ MqInv
    BY InitInv, LinkedInit, MqInvInit DEF MqInit
  <1> QED BY <1>1, InvStep, PTL DEF MqSpec

(* The message queue runs on the blocking core as the core is specified,   *)
(* although a granted caller takes the lock a second time: the core's      *)
(* theorems hold in every state of every use of a message queue.           *)
THEOREM MqRunsOnCore == MqSpec => Spec
  <1>1. MqInit => Init
    BY DEF MqInit
  <1>2. Inv /\ MqInv /\ [MqNext]_allVars => [Next]_vars
    BY StepOfCore DEF Inv
  <1> QED BY <1>1, <1>2, MqInvariance, PTL DEF MqSpec, Spec

-----------------------------------------------------------------------------
(***************************************************************************)
(* Counting the slots.                                                     *)
(***************************************************************************)
Having(d) == {t \in Thread : HasSlot(t, d)}
Owing(d) == {t \in Thread : Owes(t, d)}

(* Finite sets of threads, one thread more or less.                        *)
LEMMA Counts ==
  ASSUME NEW S \in SUBSET Thread
  PROVE  /\ Cardinality(S) \in Nat
         /\ \A v \in Thread : v \notin S => Cardinality(S \cup {v}) = Cardinality(S) + 1
         /\ \A v \in S : Cardinality(S \ {v}) = Cardinality(S) - 1
         /\ \A T \in SUBSET S : Cardinality(T) \in Nat /\ Cardinality(T) <= Cardinality(S)
  <1>1. IsFiniteSet(S)
    BY MessageQueueAssumption, FS_Subset
  <1>2. Cardinality(S) \in Nat
    BY <1>1, FS_CardinalityType
  <1>3. \A v \in Thread : v \notin S => Cardinality(S \cup {v}) = Cardinality(S) + 1
    BY <1>1, FS_AddElement
  <1>4. \A v \in S : Cardinality(S \ {v}) = Cardinality(S) - 1
    BY <1>1, FS_RemoveElement
  <1>5. \A T \in SUBSET S : Cardinality(T) \in Nat /\ Cardinality(T) <= Cardinality(S)
    BY <1>1, FS_Subset, FS_CardinalityType
  <1> QED BY <1>2, <1>3, <1>4, <1>5

(* A step after which slots and room have changed alike keeps the balance. *)
LEMMA Balanced ==
  ASSUME SlotsBalance, MqTypeOK, MqTypeOK',
         \A u \in Thread : state'[u] = "Running" => state[u] = "Running",
         NEW r \in Int, NEW w \in Int, Slots("recv") \in Int, Slots("send") \in Int,
         Slots("recv")' = Slots("recv") + r, count' = count + r,
         Slots("send")' = Slots("send") + w, w = - r
  PROVE  SlotsBalance'
  <1>1. count \in Nat /\ count' \in Nat /\ Capacity \in Nat
    BY MessageQueueAssumption DEF MqTypeOK
  <1> QED BY <1>1 DEF SlotsBalance

(* A step that ends a thread may take slots away.                          *)
LEMMA Lost ==
  ASSUME SlotsBalance, MqTypeOK, MqTypeOK', NEW t \in Thread, state'[t] # "Running",
         Slots("recv") \in Int, Slots("send") \in Int, Slots("recv")' \in Int, Slots("send")' \in Int,
         Slots("recv")' <= Slots("recv"), Slots("send")' <= Slots("send"), count' = count
  PROVE  SlotsBalance'
  <1>1. count \in Nat /\ count' \in Nat /\ Capacity \in Nat
    BY MessageQueueAssumption DEF MqTypeOK
  <1> QED BY <1>1 DEF SlotsBalance

(* Nobody's state goes back to Running.                                    *)
LEMMA StateFacts ==
  ASSUME TypeOK, [MqNext]_allVars, NEW u \in Thread, state'[u] = "Running"
  PROVE  state[u] = "Running"
  <1>1. CASE state' = state
    BY <1>1
  <1>2. ASSUME NEW v \in Thread, NEW x \in {"Cancelled", "Finishing"}, state' = [state EXCEPT ![v] = x]
        PROVE  state[u] = "Running"
    BY <1>2 DEF TypeOK
  <1>3. ASSUME NEW t \in Thread, Step(t)
        PROVE  \/ state' = state
               \/ \E v \in Thread, x \in {"Cancelled", "Finishing"} : state' = [state EXCEPT ![v] = x]
    BY <1>3 DEF Step, TakeTimeoutLock, BlockRefuse, BlockCheck, BlockStore, SwitchOut, Dispatch, SwitchIn,
                SwitchInCancelled, ScanSkip, ScanClaim, ScanEnd, CancelTimeout, CancelEvent, CancelNoEvent,
                Wake, CancelClaim, CancelMiss, Preempt, Exit
  <1>4. ASSUME ClockStep PROVE state' = state
    BY <1>4 DEF ClockStep, ExpiryBegin, ExpiryCollect, ExpiryCollected, ExpiryFire, CancelEvent,
                CancelNoEvent, ExpiryWake, ExpiryEnd
  <1>5. ASSUME NEW t \in Thread,
               ThreadStep(t) \/ (\E d \in Dir, limit \in Limit : Enter(t, d, limit)) \/ CancelBegin(t) \/ CancelEnd(t)
        PROVE  state' = state
    BY <1>5 DEF ThreadStep, TakeSlot, BlockFor, Interrupted, Granted, Transfer, Passed, NotPassed, Enter,
                CancelBegin, CancelEnd, Block, BlockNot, Resume, Acquire, Release, vars
  <1>6. ASSUME NEW t \in Thread, CancelOne(t)
        PROVE  \E v \in Thread, x \in {"Cancelled", "Finishing"} : state' = [state EXCEPT ![v] = x]
    BY <1>6 DEF CancelOne, Cancel
  <1>7. CASE UNCHANGED allVars
    BY <1>7 DEF allVars, vars
  <1> QED
    BY <1>1, <1>2, <1>3, <1>4, <1>5, <1>6, <1>7 DEF MqNext, CoreStep

(* Every step keeps the balance.                                           *)
LEMMA SlotsStep ==
  ASSUME Inv, LinkedInv, MqInv, MqInv', SlotsBalance, [MqNext]_allVars
  PROVE  SlotsBalance'
  <1>0. /\ MqTypeOK /\ MqTypeOK' /\ TypeOK /\ "recv" \in Dir /\ "send" \in Dir
        /\ Other("recv") = "send" /\ Other("send") = "recv"
    BY DEF Inv, MqInv, Dir, Other
  <1>r. \A u \in Thread : state'[u] = "Running" => state[u] = "Running"
    BY <1>0, StateFacts
  <1>c. \A d \in Dir : /\ slots[d] \in Nat /\ slots'[d] \in Nat
                       /\ Cardinality(Having(d)) \in Nat /\ Cardinality(Having(d)') \in Nat
                       /\ Cardinality(Owing(d)) \in Nat /\ Cardinality(Owing(d)') \in Nat
    <2>1. \A d \in Dir : Cardinality(Having(d)) \in Nat /\ Cardinality(Owing(d)) \in Nat
      BY Counts DEF Having, Owing
    <2>2. \A d \in Dir : Cardinality(Having(d)') \in Nat /\ Cardinality(Owing(d)') \in Nat
      BY Counts DEF Having, Owing
    <2> QED BY <1>0, <2>1, <2>2 DEF MqTypeOK
  <1>d. \A d \in Dir : /\ Slots(d) = slots[d] + Cardinality(Having(d)) + Cardinality(Owing(d))
                       /\ Slots(d)' = slots'[d] + Cardinality(Having(d)') + Cardinality(Owing(d)')
    BY DEF Slots, Having, Owing
  <1>n. \A d \in Dir : Slots(d) \in Int /\ Slots(d)' \in Int
    BY <1>c, <1>d
  (* The total of one direction changes by x.                                *)
  <1>b. ASSUME NEW r \in Int, Slots("recv")' = Slots("recv") + r, count' = count + r,
               Slots("send")' = Slots("send") - r
        PROVE  SlotsBalance'
    BY <1>0, <1>b, <1>n, <1>r, Balanced
  <1>k. ASSUME NEW d \in Dir, \A u \in Thread : Keeps(u)
        PROVE  Having(d)' = Having(d) /\ Owing(d)' = Owing(d)
    BY <1>k DEF Keeps, Having, Owing
  <1>1. ASSUME \A u \in Thread : Keeps(u), UNCHANGED <<slots, count>> PROVE SlotsBalance'
    <2>1. \A d \in Dir : Slots(d)' = Slots(d)
      BY <1>1, <1>d, <1>k
    <2>2. count' = count + 0 /\ Slots("recv")' = Slots("recv") + 0 /\ Slots("send")' = Slots("send") - 0
      BY <1>0, <1>1, <1>n, <2>1 DEF MqTypeOK
    <2> QED BY <1>b, <2>2
  (* A cancelled thread takes its slot with it.                              *)
  <1>2. ASSUME NEW t \in Thread, Loses(t), state'[t] # "Running", \A u \in Thread : u # t => Keeps(u),
               UNCHANGED <<slots, count>>
        PROVE  SlotsBalance'
    <2>1. ASSUME NEW d \in Dir PROVE Slots(d)' <= Slots(d)
      <3>1. Having(d)' \subseteq Having(d) /\ Owing(d)' \subseteq Owing(d)
        BY <1>2 DEF Keeps, Loses, Having, Owing
      <3>2. Having(d) \in SUBSET Thread /\ Owing(d) \in SUBSET Thread
        BY DEF Having, Owing
      <3>3. Cardinality(Having(d)') <= Cardinality(Having(d)) /\ Cardinality(Owing(d)') <= Cardinality(Owing(d))
        BY <3>1, <3>2, Counts
      <3> QED BY <1>2, <1>c, <1>d, <3>3
    <2> QED BY <1>0, <1>2, <1>n, <2>1, Lost
  (* The scan passes a slot on.                                              *)
  <1>3. ASSUME NEW t \in Thread, NEW v \in Thread, v # t, Passes(t, v),
               \A u \in Thread : u # t /\ u # v => Keeps(u), UNCHANGED <<slots, count>>
        PROVE  SlotsBalance'
    <2>1. PICK o \in Dir :
            /\ Owes(t, o) /\ HasSlot(v, o)' /\ Out(t)' /\ Out(v)
            /\ \A d \in Dir : /\ ~ HasSlot(t, d) /\ ~ Owes(v, d)'
                              /\ d # o => ~ Owes(t, d) /\ ~ HasSlot(v, d)'
      BY <1>3 DEF Passes
    <2>2. Having(o)' = Having(o) \cup {v} /\ v \notin Having(o)
      BY <1>3, <2>1 DEF Keeps, Out, Having
    <2>3. Owing(o)' = Owing(o) \ {t} /\ t \in Owing(o)
      BY <1>3, <2>1 DEF Keeps, Out, Owing
    <2>4. \A d \in Dir : d # o => Having(d)' = Having(d) /\ Owing(d)' = Owing(d)
      BY <1>3, <2>1 DEF Keeps, Out, Having, Owing
    <2>5. /\ Cardinality(Having(o)') = Cardinality(Having(o)) + 1
          /\ Cardinality(Owing(o)') = Cardinality(Owing(o)) - 1
      <3>1. Having(o) \in SUBSET Thread /\ Owing(o) \in SUBSET Thread
        BY DEF Having, Owing
      <3> QED BY <2>2, <2>3, <3>1, Counts
    <2>6. \A d \in Dir : Slots(d)' = Slots(d)
      BY <1>3, <1>c, <1>d, <2>4, <2>5
    <2>7. count' = count + 0 /\ Slots("recv")' = Slots("recv") + 0 /\ Slots("send")' = Slots("send") - 0
      BY <1>0, <1>3, <1>n, <2>6 DEF MqTypeOK
    <2> QED BY <1>b, <2>7
  <1>4. ASSUME NEW t \in Thread, NEW d \in Dir, Takes(t, d), \A u \in Thread : u # t => Keeps(u)
        PROVE  SlotsBalance'
    <2>0. Other(d) \in Dir /\ Other(d) # d /\ \A e \in Dir : e # d => e = Other(d)
      BY QueueFacts
    <2>1. Having(d)' = Having(d) \cup {t} /\ t \notin Having(d)
      BY <1>4 DEF Takes, Keeps, Out, Having
    <2>2. Having(Other(d))' = Having(Other(d))
      BY <1>4, <2>0 DEF Takes, Keeps, Out, Having
    <2>3. \A e \in Dir : Owing(e)' = Owing(e)
      BY <1>4 DEF Takes, Keeps, Out, Owing
    <2>4. Cardinality(Having(d)') = Cardinality(Having(d)) + 1
      <3>1. Having(d) \in SUBSET Thread
        BY DEF Having
      <3> QED BY <2>1, <3>1, Counts
    <2>5. slots'[d] = slots[d] - 1 /\ slots'[Other(d)] = slots[Other(d)] /\ count' = count
      BY <1>0, <1>4, <2>0 DEF Takes, MqTypeOK
    <2>6. \A e \in Dir : Slots(e)' = Slots(e)
      <3>1. Slots(d)' = Slots(d)
        BY <1>c, <1>d, <2>3, <2>4, <2>5
      <3>2. Slots(Other(d))' = Slots(Other(d))
        BY <1>d, <2>0, <2>2, <2>3, <2>5
      <3> QED BY <2>0, <3>1, <3>2
    <2>7. count' = count + 0 /\ Slots("recv")' = Slots("recv") + 0 /\ Slots("send")' = Slots("send") - 0
      BY <1>0, <1>n, <2>5, <2>6 DEF MqTypeOK
    <2> QED BY <1>b, <2>7
  <1>5. ASSUME NEW t \in Thread, NEW d \in Dir, Moves(t, d), \A u \in Thread : u # t => Keeps(u)
        PROVE  SlotsBalance'
    <2>0. Other(d) \in Dir /\ Other(d) # d
      BY QueueFacts
    <2>1. Having(d)' = Having(d) \ {t} /\ t \in Having(d) /\ Having(Other(d))' = Having(Other(d))
      BY <1>5, <2>0 DEF Moves, Keeps, Having
    <2>2. /\ Owing(Other(d))' = Owing(Other(d)) \cup {t} /\ t \notin Owing(Other(d))
          /\ Owing(d)' = Owing(d)
      BY <1>5, <2>0 DEF Moves, Keeps, Owing
    <2>3. /\ Cardinality(Having(d)') = Cardinality(Having(d)) - 1
          /\ Cardinality(Owing(Other(d))') = Cardinality(Owing(Other(d))) + 1
      <3>1. Having(d) \in SUBSET Thread /\ Owing(Other(d)) \in SUBSET Thread
        BY DEF Having, Owing
      <3> QED BY <2>1, <2>2, <3>1, Counts
    <2>4. slots' = slots /\ count' = IF d = "send" THEN count + 1 ELSE count - 1
      BY <1>5 DEF Moves
    <2>5. Slots(d)' = Slots(d) - 1
      BY <1>c, <1>d, <2>2, <2>3, <2>4
    <2>6. Slots(Other(d))' = Slots(Other(d)) + 1
      BY <1>c, <1>d, <2>0, <2>1, <2>3, <2>4
    <2>7. CASE d = "send"
      <3>1. Slots("recv")' = Slots("recv") + 1 /\ Slots("send")' = Slots("send") - 1 /\ count' = count + 1
        BY <1>0, <2>4, <2>5, <2>6, <2>7
      <3> QED BY <1>b, <3>1
    <2>8. CASE d = "recv"
      <3>1. /\ Slots("recv")' = Slots("recv") + (-1) /\ Slots("send")' = Slots("send") - (-1)
            /\ count' = count + (-1)
        BY <1>0, <1>n, <2>4, <2>5, <2>6, <2>8 DEF MqTypeOK
      <3> QED BY <1>b, <3>1
    <2> QED BY <2>7, <2>8 DEF Dir
  <1>6. ASSUME NEW t \in Thread, NEW d \in Dir, Adds(t, d), \A u \in Thread : u # t => Keeps(u)
        PROVE  SlotsBalance'
    <2>0. Other(d) \in Dir /\ Other(d) # d /\ \A e \in Dir : e # d => e = Other(d)
      BY QueueFacts
    <2>1. \A e \in Dir : Having(e)' = Having(e)
      BY <1>6 DEF Adds, Keeps, Out, Having
    <2>2. /\ Owing(Other(d))' = Owing(Other(d)) \ {t} /\ t \in Owing(Other(d))
          /\ Owing(d)' = Owing(d)
      BY <1>6, <2>0 DEF Adds, Keeps, Out, Owing
    <2>3. Cardinality(Owing(Other(d))') = Cardinality(Owing(Other(d))) - 1
      <3>1. Owing(Other(d)) \in SUBSET Thread
        BY DEF Owing
      <3> QED BY <2>2, <3>1, Counts
    <2>4. slots'[Other(d)] = slots[Other(d)] + 1 /\ slots'[d] = slots[d] /\ count' = count
      BY <1>0, <1>6, <2>0 DEF Adds, MqTypeOK
    <2>5. Slots(d)' = Slots(d)
      BY <1>d, <2>1, <2>2, <2>4
    <2>6. Slots(Other(d))' = Slots(Other(d))
      <3>1. /\ slots[Other(d)] \in Nat /\ Cardinality(Having(Other(d))) \in Nat
            /\ Cardinality(Owing(Other(d))) \in Nat
        BY <1>c, <2>0
      <3>2. /\ Slots(Other(d)) = slots[Other(d)] + Cardinality(Having(Other(d))) + Cardinality(Owing(Other(d)))
            /\ Slots(Other(d))' = (slots[Other(d)] + 1) + Cardinality(Having(Other(d))) + (Cardinality(Owing(Other(d))) - 1)
        BY <1>d, <2>0, <2>1, <2>3, <2>4
      <3> QED BY <3>1, <3>2
    <2>7. \A e \in Dir : Slots(e)' = Slots(e)
      BY <2>0, <2>5, <2>6
    <2>8. count' = count + 0 /\ Slots("recv")' = Slots("recv") + 0 /\ Slots("send")' = Slots("send") - 0
      BY <1>0, <1>n, <2>4, <2>7 DEF MqTypeOK
    <2> QED BY <1>b, <2>8
  <1>7. CASE UNCHANGED allVars
    <2>1. \A u \in Thread : Keeps(u)
      BY <1>7 DEF Keeps, HasSlot, Owes, allVars, qvars, vars, waitVars
    <2> QED BY <1>1, <1>7, <2>1 DEF allVars, qvars, bufVars
  <1>8. CASE ClockStep /\ UNCHANGED qvars
    BY <1>1, <1>8, ClockMoves DEF qvars, bufVars
  <1>9. ASSUME NEW t \in Thread, CoreStep(t) PROVE SlotsBalance'
    <2>1. Step(t) /\ UNCHANGED qvars /\ UNCHANGED <<slots, count>>
      BY <1>9 DEF CoreStep, qvars, bufVars
    <2>2. \/ \A u \in Thread : Keeps(u)
          \/ state'[t] # "Running" /\ Loses(t) /\ \A u \in Thread : u # t => Keeps(u)
          \/ \E v \in Thread : /\ v # t /\ Passes(t, v)
                               /\ \A u \in Thread : u # t /\ u # v => Keeps(u)
      BY <2>1, CoreMoves
    <2> QED BY <1>1, <1>2, <1>3, <2>1, <2>2
  <1>10. ASSUME NEW t \in Thread, ThreadStep(t) PROVE SlotsBalance'
    <2>1. PICK d \in Dir :
            /\ \A u \in Thread : u # t => Keeps(u)
            /\ \/ Keeps(t) /\ UNCHANGED <<slots, count>>
               \/ Takes(t, d) \/ Moves(t, d) \/ Adds(t, d)
      BY <1>10, CallerMoves DEF ThreadStep
    <2> QED BY <1>1, <1>4, <1>5, <1>6, <2>1
  <1>11. ASSUME NEW t \in Thread,
                 \/ \E d \in Dir, limit \in Limit : Enter(t, d, limit)
                 \/ CancelBegin(t) \/ CancelOne(t) \/ CancelEnd(t)
         PROVE  SlotsBalance'
    BY <1>1, <1>11, OthersMove
  <1> QED BY <1>7, <1>8, <1>9, <1>10, <1>11 DEF MqNext

(* Slots are neither lost nor duplicated, for any number of threads and    *)
(* any capacity: push always finds room and pop an element.                *)
THEOREM MqSlotsBalance == MqSpec => []SlotsBalance
  <1>1. MqInit => SlotsBalance
    <2> SUFFICES ASSUME MqInit PROVE SlotsBalance
      OBVIOUS
    <2>1. \A t \in Thread : call[t].at = "idle"
      BY DEF MqInit, Idle
    <2>2. \A d \in Dir : {t \in Thread : HasSlot(t, d)} = {} /\ {t \in Thread : Owes(t, d)} = {}
      BY <2>1 DEF HasSlot, Owes
    <2>3. Cardinality({}) = 0
      BY FS_EmptySet
    <2>4. Slots("recv") = 0 /\ Slots("send") = Capacity
      <3>1. "recv" \in Dir /\ "send" \in Dir /\ Capacity \in Nat
        BY MessageQueueAssumption DEF Dir
      <3>2. slots["recv"] = 0 /\ slots["send"] = Capacity
        BY <3>1 DEF MqInit
      <3>3. \A d \in Dir : Slots(d) = slots[d] + 0 + 0
        BY <2>2, <2>3 DEF Slots
      <3> QED BY <3>1, <3>2, <3>3
    <2> QED BY <2>4, MessageQueueAssumption DEF MqInit, SlotsBalance
  <1>2. Inv /\ LinkedInv /\ MqInv /\ MqInv' /\ SlotsBalance /\ [MqNext]_allVars => SlotsBalance'
    BY SlotsStep
  <1> QED BY <1>1, <1>2, MqInvariance, PTL DEF MqSpec

-----------------------------------------------------------------------------
(***************************************************************************)
(* The refinement: which calls may return without an effect.               *)
(***************************************************************************)
LEMMA GiveUpStep ==
  ASSUME Inv, LinkedInv, MqInv, GiveUpInv, [MqNext]_allVars
  PROVE  GiveUpInv'
  <1>0. TypeOK /\ MqTypeOK
    BY DEF Inv, MqInv
  <1>c. \A t \in Thread : /\ pc[t] \in {"timed", "check", "store", "switch", "off", "on"} => call[t].at = "wait"
                          /\ pc[t] \in {"scan", "claim", "erase", "remove", "wake"} => call[t].at # "wait"
                          /\ pc[t] # "sleep"
                          /\ pc[t] \in {"timed", "check", "store"} \/ unblockInfo[t] => ~ info[t].timedOut
    <2> SUFFICES ASSUME NEW t \in Thread
                 PROVE  /\ pc[t] \in {"timed", "check", "store", "switch", "off", "on"} => call[t].at = "wait"
                        /\ pc[t] \in {"scan", "claim", "erase", "remove", "wake"} => call[t].at # "wait"
                        /\ pc[t] # "sleep"
                        /\ pc[t] \in {"timed", "check", "store"} \/ unblockInfo[t] => ~ info[t].timedOut
      OBVIOUS
    <2>1. CallsAt(t) /\ "cancel" \notin Dir
      BY DEF MqInv, Dir
    <2> QED BY <2>1 DEF CallsAt
  <1>p. /\ \A v \in fireList : info[v].timed
        /\ \A t \in Thread : pc[t] = "claim" => cause[t] = "cancel"
    BY DEF Inv, ProgressInv
  <1>v. /\ \A a \in Actor : pc[a] \in {"claim", "erase", "remove", "wake"} => victim[a] \in Thread
        /\ \A a \in Actor : pc[a] \in {"erase", "remove", "wake"} =>
             pc[victim[a]] \in {"switch", "off"} /\ ~ unblockInfo[victim[a]]
        /\ \A v \in Thread : unblockInfo[v] => pc[v] \in {"switch", "off"}
        /\ \A v \in fireList : v \in Thread /\ pc[v] \in {"switch", "off"}
    BY <1>0 DEF TypeOK, Inv, ClaimsInv, Claims, Unblocking, Waiting, Actor
  <1> USE <1>0, <1>c, <1>p, <1>v, ConstantsAssumption DEF Actor, GiveUpInv, Endless
  <1>1. CASE UNCHANGED allVars
    BY <1>1 DEF allVars, qvars, vars, waitVars, unblockVars
  <1>2. ASSUME NEW t \in Thread, Step(t), UNCHANGED qvars PROVE GiveUpInv'
    <2>0. UNCHANGED call
      BY <1>2 DEF qvars
    <2> USE <1>2, <2>0
    <2>1. CASE TakeTimeoutLock(t)
      BY <2>1 DEF TypeOK, TakeTimeoutLock, Goto, waitVars, unblockVars
    <2>2. CASE BlockRefuse(t)
      <3>1. /\ pc[Clock] = "remove" => victim[Clock] # t
            /\ \A u \in Thread : u # t => info'[u] = info[u]
        BY <2>2 DEF BlockRefuse, TypeOK
      <3>2. ~ unblockInfo[t]
        BY <2>2 DEF BlockRefuse
      <3>3. t \in Cancellable
        BY <2>2 DEF BlockRefuse
      <3> QED BY <2>2, <3>1, <3>2, <3>3 DEF TypeOK, BlockRefuse, Goto, unblockVars
    <2>3. CASE BlockCheck(t)
      BY <2>3 DEF TypeOK, BlockCheck, Goto, waitVars, unblockVars
    <2>4. CASE BlockStore(t)
      BY <2>4 DEF TypeOK, BlockStore, Goto, unblockVars
    <2>5. CASE SwitchOut(t)
      BY <2>5 DEF TypeOK, SwitchOut, Goto, waitVars, unblockVars
    <2>6. CASE Dispatch(t)
      BY <2>6 DEF TypeOK, Dispatch, Goto, waitVars, unblockVars
    <2>7. CASE SwitchIn(t)
      <3>1. /\ pc[Clock] = "remove" => victim[Clock] # t
            /\ \A u \in Thread : u # t => info'[u] = info[u]
        BY <2>7 DEF SwitchIn, TypeOK
      <3>2. ~ unblockInfo[t]
        BY <2>7 DEF SwitchIn
      <3>3. Endless(t) /\ ~ result'[t] => t \in Cancellable
        BY <2>7 DEF SwitchIn, TypeOK, WaitInfo
      <3>4. \A u \in Thread : u # t => result'[u] = result[u]
        BY <2>7 DEF SwitchIn, TypeOK
      <3> QED BY <2>7, <3>1, <3>2, <3>3, <3>4 DEF TypeOK, SwitchIn, Goto, unblockVars
    <2>8. CASE SwitchInCancelled(t)
      BY <2>8 DEF TypeOK, SwitchInCancelled, Goto, waitVars, unblockVars
    <2>9. CASE ScanSkip(t)
      BY <2>9 DEF TypeOK, ScanSkip, waitVars
    <2>10. CASE ScanClaim(t)
      <3>1. PICK v \in Thread : v = queue[scan[t].q][scan[t].i]
        BY <2>10, ScanTarget
      <3>2. /\ pc[t] = "scan" /\ pc' = [pc EXCEPT ![t] = "erase"]
            /\ cause' = [cause EXCEPT ![t] = "event"]
            /\ victim' = [victim EXCEPT ![t] = v]
            /\ UNCHANGED <<info, state, call, result>>
        BY <2>10, <3>1 DEF ScanClaim, Goto
      <3> QED BY <3>2 DEF TypeOK
    <2>11. CASE ScanEnd(t)
      BY <2>11 DEF TypeOK, ScanEnd, Goto, waitVars
    <2>12. CASE CancelTimeout(t)
      BY <2>12 DEF TypeOK, CancelTimeout, Goto, unblockVars
    <2>13. CASE CancelEvent(t)
      <3>1. victim[t] \in Thread /\ pc[t] = "remove" /\ pc[victim[t]] \in {"switch", "off"}
        BY <2>13 DEF CancelEvent
      <3>2. /\ \A u \in Thread : u # victim[t] => info'[u] = info[u]
            /\ info'[victim[t]].timed = info[victim[t]].timed
        BY <2>13, <3>1 DEF CancelEvent, TypeOK, WaitInfo
      <3>3. victim[t] \in Cancellable
        BY <3>1
      <3> QED BY <2>13, <3>1, <3>2, <3>3 DEF TypeOK, CancelEvent, Goto, unblockVars
    <2>14. CASE CancelNoEvent(t)
      BY <2>14 DEF TypeOK, CancelNoEvent, Goto, waitVars, unblockVars
    <2>15. CASE Wake(t)
      BY <2>15 DEF TypeOK, Wake, Goto, waitVars
    <2>16. CASE CancelClaim(t)
      BY <2>16 DEF TypeOK, CancelClaim, Goto, unblockVars
    <2>17. CASE CancelMiss(t)
      BY <2>17 DEF TypeOK, CancelMiss, Goto, waitVars
    <2>18. CASE Preempt(t)
      BY <2>18 DEF TypeOK, Preempt, Goto, waitVars, unblockVars
    <2>19. CASE Exit(t)
      BY <2>19 DEF TypeOK, Exit, Goto, waitVars, unblockVars
    <2> QED
      BY <1>2, <2>1, <2>2, <2>3, <2>4, <2>5, <2>6, <2>7, <2>8, <2>9, <2>10, <2>11, <2>12, <2>13, <2>14, <2>15, <2>16, <2>17, <2>18, <2>19 DEF Step
  <1>3. ASSUME ClockStep, UNCHANGED qvars PROVE GiveUpInv'
    <2>0. UNCHANGED call
      BY <1>3 DEF qvars
    <2> USE <1>3, <2>0
    <2>1. CASE ExpiryBegin
      BY <2>1 DEF TypeOK, ExpiryBegin, Goto, waitVars, unblockVars
    <2>2. ASSUME NEW v \in Thread, ExpiryCollect(v) PROVE GiveUpInv'
      BY <2>2 DEF TypeOK, ExpiryCollect, Expirable
    <2>3. CASE ExpiryCollected
      BY <2>3 DEF TypeOK, ExpiryCollected, Goto, waitVars, unblockVars
    <2>4. ASSUME NEW v \in Thread, ExpiryFire(v) PROVE GiveUpInv'
      BY <2>4 DEF TypeOK, ExpiryFire, Goto, waitVars
    <2>5. CASE CancelEvent(Clock)
      <3>1. victim[Clock] \in Thread /\ pc[Clock] = "remove" /\ pc[victim[Clock]] \in {"switch", "off"}
        BY <2>5 DEF CancelEvent
      <3>2. /\ \A u \in Thread : u # victim[Clock] => info'[u] = info[u]
            /\ info'[victim[Clock]].timed = info[victim[Clock]].timed
        BY <2>5, <3>1 DEF CancelEvent, TypeOK, WaitInfo
      <3>3. ~ Endless(victim[Clock])
        BY <3>1
      <3> QED BY <2>5, <3>1, <3>2, <3>3 DEF TypeOK, CancelEvent, Goto, unblockVars
    <2>6. CASE CancelNoEvent(Clock)
      BY <2>6 DEF TypeOK, CancelNoEvent, Goto, waitVars, unblockVars
    <2>7. CASE ExpiryWake
      BY <2>7 DEF TypeOK, ExpiryWake, Goto, waitVars
    <2>8. CASE ExpiryEnd
      BY <2>8 DEF TypeOK, ExpiryEnd, Goto, waitVars, unblockVars
    <2> QED
      BY <1>3, <2>1, <2>2, <2>3, <2>4, <2>5, <2>6, <2>7, <2>8 DEF ClockStep
  (* The steps of a caller change its own call and leave claims alone.       *)
  <1>f. ASSUME NEW t \in Thread, pc[t] = "run", UNCHANGED <<state, cause, victim>>,
               \A u \in Actor : u # t => pc'[u] = pc[u],
               \A u \in Thread : u # t => call'[u] = call[u] /\ info'[u] = info[u] /\ result'[u] = result[u],
               pc'[t] \in {"run", "timed", "check", "scan"},
               ~ (call'[t].at = "wait" /\ call'[t].limit = "none" /\ pc'[t] # "run" /\ info'[t].timed),
               ~ (call'[t].at = "wait" /\ pc'[t] = "run")
        PROVE  GiveUpInv'
    <2>1. pc[Clock] = "remove" => victim[Clock] # t
      BY <1>f
    <2> QED BY <1>f, <2>1
  <1>4. ASSUME NEW t \in Thread, NEW d \in Dir, BlockFor(t, d) PROVE GiveUpInv'
    <2>1. ASSUME NEW timed \in BOOLEAN, Block(t, QueueOf[d], timed), Reach(t, "wait"),
                 call[t].limit = IF timed THEN "some" ELSE "none"
          PROVE  GiveUpInv'
      <3>1. /\ pc[t] = "run" /\ info'[t].timed = timed
            /\ \A u \in Thread : u # t => info'[u] = info[u]
            /\ UNCHANGED <<state, cause, victim, result>>
        BY <2>1 DEF Block, TypeOK, unblockVars
      <3>2. pc'[t] \in {"timed", "check"} /\ \A u \in Actor : u # t => pc'[u] = pc[u]
        BY <2>1 DEF Block, Goto, TypeOK
      <3>3. call'[t].limit = call[t].limit /\ \A u \in Thread : u # t => call'[u] = call[u]
        BY <2>1 DEF Reach, MqTypeOK
      <3>4. call'[t].limit = "none" => ~ info'[t].timed
        BY <2>1, <3>1, <3>3
      <3> QED BY <1>f, <3>1, <3>2, <3>3, <3>4
    <2>2. CASE BlockNot(t, QueueOf[d]) /\ Leave(t)
      <3>1. /\ pc[t] = "run" /\ UNCHANGED <<state, cause, victim, pc, info>>
            /\ \A u \in Thread : u # t => result'[u] = result[u]
        BY <2>2 DEF BlockNot, TypeOK, waitVars, unblockVars
      <3>2. call'[t].at = "idle" /\ \A u \in Thread : u # t => call'[u] = call[u]
        BY <2>2, StageFacts
      <3> QED BY <1>f, <3>1, <3>2
    <2> QED BY <1>4, <2>1, <2>2 DEF BlockFor
  <1>5. ASSUME NEW t \in Thread, NEW d \in Dir, Transfer(t, d) PROVE GiveUpInv'
    <2>1. pc[t] = "run" /\ UNCHANGED <<state, cause, victim, info, result>> /\ Reach(t, "pass")
      BY <1>5 DEF Transfer, Resume, waitVars
    <2>2. pc'[t] = "scan" /\ \A u \in Actor : u # t => pc'[u] = pc[u]
      BY <1>5 DEF Transfer, Resume, Goto, TypeOK
    <2>3. call'[t].at = "pass" /\ \A u \in Thread : u # t => call'[u] = call[u]
      BY <2>1, StageFacts
    <2> QED BY <1>f, <2>1, <2>2, <2>3
  <1>6. ASSUME NEW t \in Thread, NEW d \in Dir,
               TakeSlot(t, d) \/ Interrupted(t, d) \/ Granted(t, d) \/ Passed(t, d) \/ NotPassed(t, d)
        PROVE  GiveUpInv'
    <2>1. UNCHANGED <<state, cause, victim, info, result, pc>> /\ (Leave(t) \/ Reach(t, "slot"))
      BY <1>6 DEF TakeSlot, Interrupted, Granted, Passed, NotPassed, Acquire, Release, vars, waitVars, unblockVars
    <2>2. call'[t].at # "wait" /\ \A u \in Thread : u # t => call'[u] = call[u]
      BY <2>1, StageFacts
    <2> QED BY <2>1, <2>2
  <1>7. ASSUME NEW t \in Thread, NEW d \in Dir, NEW limit \in Limit, Enter(t, d, limit) PROVE GiveUpInv'
    <2>1. UNCHANGED <<state, cause, victim, info, result, pc>>
      BY <1>7 DEF Enter, Acquire, waitVars, unblockVars
    <2>2. call'[t].at = "start" /\ \A u \in Thread : u # t => call'[u] = call[u]
      BY <1>7 DEF Enter, MqTypeOK
    <2> QED BY <2>1, <2>2
  <1>8. ASSUME NEW t \in Thread, CancelBegin(t) \/ CancelEnd(t) PROVE GiveUpInv'
    <2>1. UNCHANGED <<state, cause, victim, info, result, pc>>
      BY <1>8 DEF CancelBegin, CancelEnd, Acquire, Release, waitVars, unblockVars
    <2>2. call'[t].at # "wait" /\ \A u \in Thread : u # t => call'[u] = call[u]
      <3>1. CASE CancelBegin(t)
        BY <3>1 DEF CancelBegin, MqTypeOK, Idle
      <3>2. CASE CancelEnd(t)
        BY <3>2, StageFacts DEF CancelEnd
      <3> QED BY <1>8, <3>1, <3>2
    <2> QED BY <2>1, <2>2
  <1>9. ASSUME NEW t \in Thread, CancelOne(t) PROVE GiveUpInv'
    <2>1. PICK v \in Thread : Cancel(t, v)
      BY <1>9 DEF CancelOne
    <2>2. UNCHANGED call
      BY <1>9 DEF CancelOne, qvars
    <2> QED BY <2>1, <2>2 DEF Cancel, Goto, TypeOK, waitVars
  <1> QED
    BY <1>1, <1>2, <1>3, <1>4, <1>5, <1>6, <1>7, <1>8, <1>9 DEF MqNext, CoreStep, ThreadStep

(* A call without a time limit returns without an effect only in a thread  *)
(* that may be cancelled.                                                  *)
LEMMA GiveUpInvariance == MqSpec => []GiveUpInv
  <1>1. MqInit => GiveUpInv
    BY ConstantsAssumption DEF MqInit, Init, GiveUpInv, Endless, Idle, Actor
  <1>2. Inv /\ LinkedInv /\ MqInv /\ GiveUpInv /\ [MqNext]_allVars => GiveUpInv'
    BY GiveUpStep
  <1> QED BY <1>1, <1>2, MqInvariance, PTL DEF MqSpec

(* The ring of indices: at most one turn.                                  *)
LEMMA Wrap ==
  ASSUME NEW x \in Nat, x < 2 * Capacity
  PROVE  x % Capacity = IF x < Capacity THEN x ELSE x - Capacity
  <1>1. ASSUME NEW M \in Nat, M > 0, NEW y \in Nat, y < 2 * M
        PROVE  y % M = IF y < M THEN y ELSE y - M
    BY <1>1
  <1> QED BY <1>1, MessageQueueAssumption

(* What push and pop do to the messages in the buffer, in their order.     *)
LEMMA BufferIs ==
  ASSUME MqTypeOK
  PROVE  /\ absChan \in Seq(Element) /\ Len(absChan) = count
         /\ \A i \in 1 .. count : absChan[i] = array[(next + i - 1) % Capacity]
  <1> USE MessageQueueAssumption
  <1>1. ASSUME NEW i \in 1 .. count PROVE array[(next + i - 1) % Capacity] \in Element
    <2>1. next + i - 1 \in Nat /\ next + i - 1 < 2 * Capacity
      BY DEF MqTypeOK
    <2>2. (next + i - 1) % Capacity \in 0 .. Capacity - 1
      BY <2>1, Wrap
    <2> QED BY <2>2 DEF MqTypeOK
  <1>2. count \in Nat
    BY DEF MqTypeOK
  <1> QED BY <1>1, <1>2 DEF absChan

LEMMA PushAppends ==
  ASSUME MqTypeOK, MqTypeOK', NEW t \in Thread, Push(t)
  PROVE  absChan' = Append(absChan, elem[t]) /\ Len(absChan) < Capacity
  <1> USE MessageQueueAssumption
  <1>0. /\ next \in 0 .. Capacity - 1 /\ count \in 0 .. Capacity /\ count < Capacity
        /\ count' = count + 1 /\ next' = next
    BY DEF MqTypeOK, Push
  <1>1. PICK w \in 0 .. Capacity - 1 : w = (next + count) % Capacity
    <2>1. next + count \in Nat /\ next + count < 2 * Capacity
      BY <1>0
    <2> QED BY <1>0, <2>1, Wrap
  <1>2. array' = [array EXCEPT ![w] = elem[t]] /\ DOMAIN array = 0 .. Capacity - 1
    BY <1>1 DEF Push, MqTypeOK
  <1>3. ASSUME NEW i \in 1 .. count PROVE array'[(next + i - 1) % Capacity] = array[(next + i - 1) % Capacity]
    <2>1. next + i - 1 \in Nat /\ next + i - 1 < 2 * Capacity /\ next + count \in Nat /\ next + count < 2 * Capacity
      BY <1>0
    <2>2. PICK y \in 0 .. Capacity - 1 : y = (next + i - 1) % Capacity
      BY <1>0, <2>1, Wrap
    <2>3. y = IF next + i - 1 < Capacity THEN next + i - 1 ELSE next + i - 1 - Capacity
      BY <1>0, <2>1, <2>2, Wrap
    <2>4. w = IF next + count < Capacity THEN next + count ELSE next + count - Capacity
      BY <1>0, <1>1, <2>1, Wrap
    <2>5. y # w
      BY <1>0, <2>3, <2>4
    <2>6. array'[y] = array[y]
      BY <1>2, <2>5
    <2> QED BY <2>2, <2>6
  <1>4. array'[(next + (count + 1) - 1) % Capacity] = elem[t]
    <2>1. next + (count + 1) - 1 = next + count
      BY <1>0
    <2> QED BY <1>1, <1>2, <2>1
  <1>5. absChan' = [i \in 1 .. count + 1 |-> array'[(next + i - 1) % Capacity]]
    BY <1>0 DEF absChan
  <1>6. Append(absChan, elem[t]) = [i \in 1 .. count + 1 |-> IF i = count + 1 THEN elem[t] ELSE absChan[i]]
    BY BufferIs
  <1>7. ASSUME NEW i \in 1 .. count + 1
        PROVE  array'[(next + i - 1) % Capacity] = IF i = count + 1 THEN elem[t] ELSE absChan[i]
    <2>1. CASE i = count + 1
      BY <1>4, <2>1
    <2>2. CASE i # count + 1
      <3>1. i \in 1 .. count
        BY <1>0, <2>2
      <3> QED BY <1>3, <2>2, <3>1, BufferIs
    <2> QED BY <2>1, <2>2
  <1>8. Len(absChan) < Capacity
    BY <1>0, BufferIs
  <1> QED BY <1>5, <1>6, <1>7, <1>8

LEMMA PopTakesFront ==
  ASSUME MqTypeOK, NEW t \in Thread, Pop(t)
  PROVE  /\ absChan # <<>> /\ absChan' = Tail(absChan)
         /\ elem' = [elem EXCEPT ![t] = Head(absChan)]
  <1> USE MessageQueueAssumption
  <1>0. /\ next \in 0 .. Capacity - 1 /\ count \in 1 .. Capacity
        /\ count' = count - 1 /\ next' = (next + 1) % Capacity /\ array' = array
    BY DEF MqTypeOK, Pop
  <1>1. absChan # <<>> /\ Head(absChan) = absChan[1] /\ absChan[1] = array[(next + 1 - 1) % Capacity]
    BY <1>0, BufferIs
  <1>2. (next + 1 - 1) % Capacity = next
    <2>1. next + 1 - 1 = next /\ next \in Nat /\ next < 2 * Capacity /\ next < Capacity
      BY <1>0
    <2>2. next % Capacity = next
      BY <2>1, Wrap
    <2> QED BY <2>1, <2>2
  <1>3. elem' = [elem EXCEPT ![t] = Head(absChan)]
    BY <1>1, <1>2 DEF Pop
  <1>4. ASSUME NEW i \in 1 .. count - 1
        PROVE  (next' + i - 1) % Capacity = (next + (i + 1) - 1) % Capacity
    <2>1. PICK n : n = next'
      OBVIOUS
    <2>2. n = IF next + 1 < Capacity THEN next + 1 ELSE next + 1 - Capacity
      <3>1. next + 1 \in Nat /\ next + 1 < 2 * Capacity
        BY <1>0
      <3> QED BY <1>0, <2>1, <3>1, Wrap
    <2>3. n + i - 1 \in Nat /\ n + i - 1 < 2 * Capacity
      BY <1>0, <2>2
    <2>4. (n + i - 1) % Capacity = IF n + i - 1 < Capacity THEN n + i - 1 ELSE n + i - 1 - Capacity
      BY <1>0, <2>2, <2>3, Wrap
    <2>5. next + i \in Nat /\ next + i < 2 * Capacity /\ next + (i + 1) - 1 = next + i
      BY <1>0
    <2>6. (next + i) % Capacity = IF next + i < Capacity THEN next + i ELSE next + i - Capacity
      BY <1>0, <2>5, Wrap
    <2>7. (n + i - 1) % Capacity = (next + i) % Capacity
      BY <1>0, <2>2, <2>4, <2>6
    <2> QED BY <2>1, <2>5, <2>7
  <1>5. absChan' = [i \in 1 .. count - 1 |-> array[(next' + i - 1) % Capacity]]
    BY <1>0 DEF absChan
  <1>6. Tail(absChan) = [i \in 1 .. count - 1 |-> absChan[i + 1]]
    <2>1. absChan \in Seq(Element) /\ Len(absChan) = count
      BY BufferIs
    <2>2. /\ Tail(absChan) \in Seq(Element) /\ Len(Tail(absChan)) = count - 1
          /\ \A i \in 1 .. count - 1 : Tail(absChan)[i] = absChan[i + 1]
      BY <1>0, <1>1, <2>1
    <2>3. ASSUME NEW s \in Seq(Element), NEW n \in Nat, Len(s) = n PROVE s = [i \in 1 .. n |-> s[i]]
      BY <2>3
    <2>4. Tail(absChan) = [i \in 1 .. count - 1 |-> Tail(absChan)[i]]
      <3>1. count - 1 \in Nat
        BY <1>0
      <3> QED BY <2>2, <2>3, <3>1, Zenon
    <2> QED BY <2>2, <2>4
  <1>7. ASSUME NEW i \in 1 .. count - 1
        PROVE  array[(next' + i - 1) % Capacity] = absChan[i + 1]
    <2>1. i + 1 \in 1 .. count
      BY <1>0
    <2> QED BY <1>4, <2>1, BufferIs
  <1> QED BY <1>1, <1>3, <1>5, <1>6, <1>7

(* The abstract call, arm by arm.                                          *)
LEMMA AbsOfIs ==
  ASSUME NEW c
  PROVE  /\ c.at = "pass" => AbsOf(c) = "done"
         /\ c.at # "pass" =>
              /\ c.d = "send" => AbsOf(c) = IF c.limit = "none" THEN "send" ELSE "trySend"
              /\ c.d = "recv" => AbsOf(c) = IF c.limit = "none" THEN "recv" ELSE "tryRecv"
              /\ c.d \notin Dir => AbsOf(c) = "none"
  BY DEF AbsOf, Dir

(* The call of one thread changes.                                         *)
LEMMA OneCall ==
  ASSUME NEW t \in Thread, \A u \in Thread : u # t => call'[u] = call[u]
  PROVE  /\ absCall[t] = AbsOf(call[t])
         /\ absCall' = [absCall EXCEPT ![t] = AbsOf(call'[t])]
  BY DEF absCall

(* A step that keeps the buffer and what each call looks like to its       *)
(* caller is a stuttering step of the channel.                             *)
LEMMA Stuttering ==
  ASSUME UNCHANGED <<next, count, array, elem>>,
         \A u \in Thread : AbsOf(call'[u]) = AbsOf(call[u])
  PROVE  UNCHANGED Abs!chvars
  <1>1. absChan' = absChan
    BY DEF absChan
  <1>2. absCall' = absCall
    BY DEF absCall
  <1> QED BY <1>1, <1>2 DEF Abs!chvars

(* A call ends.                                                            *)
LEMMA Returning ==
  ASSUME MqInv, NEW t \in Thread, NEW d \in Dir, call[t].d = d, Leave(t),
         UNCHANGED <<next, count, array, elem>>,
         call[t].at = "pass" \/ call[t].limit # "none" \/ t \in Cancellable
  PROVE  Abs!ChNext
  <1>1. \/ AbsOf(call[t]) \in {"done", "trySend", "tryRecv"}
        \/ AbsOf(call[t]) \in {"send", "recv"} /\ t \in Cancellable
    BY AbsOfIs DEF Dir
  <1>2. call'[t].at = "idle" /\ call'[t].d \notin Dir /\ \A u \in Thread : u # t => call'[u] = call[u]
    BY StageFacts DEF MqInv
  <1>3. AbsOf(call'[t]) = "none"
    BY <1>2, AbsOfIs
  <1>4. absChan' = absChan
    BY DEF absChan
  <1>5. Abs!Return(t)
    BY <1>1, <1>2, <1>3, <1>4, OneCall DEF Abs!Return, Abs!Become
  <1> QED BY <1>5 DEF Abs!ChNext

(* The steps inside a call: only the transfer of the message and the       *)
(* return are visible.                                                     *)
LEMMA CallRefines ==
  ASSUME Inv, LinkedInv, MqInv, MqInv', GiveUpInv, NEW t \in Thread, NEW d \in Dir,
         \/ TakeSlot(t, d) \/ BlockFor(t, d) \/ Interrupted(t, d) \/ Granted(t, d)
         \/ Transfer(t, d) \/ Passed(t, d) \/ NotPassed(t, d)
  PROVE  [Abs!ChNext]_(Abs!chvars)
  <1>0. MqTypeOK /\ MqTypeOK'
    BY DEF MqInv
  <1>1. ASSUME NEW stage \in {"wait", "slot"}, Reach(t, stage), call[t].d = d, call[t].at # "pass",
               UNCHANGED <<next, count, array, elem>>
        PROVE  UNCHANGED Abs!chvars
    <2>1. /\ call'[t].d = d /\ call'[t].at # "pass"
          /\ \A u \in Thread : u # t => call'[u] = call[u]
      BY <1>0, <1>1, StageFacts
    <2>2. call'[t].limit = call[t].limit
      BY <1>0, <1>1 DEF Reach, MqTypeOK
    <2>3. AbsOf(call'[t]) = AbsOf(call[t])
      BY <1>1, <2>1, <2>2, AbsOfIs DEF Dir
    <2> QED BY <1>1, <2>1, <2>3, Stuttering
  <1>2. CASE TakeSlot(t, d)
    BY <1>1, <1>2 DEF TakeSlot, bufVars
  <1>3. CASE BlockFor(t, d)
    <2>1. CASE Reach(t, "wait")
      BY <1>1, <1>3, <2>1 DEF BlockFor, bufVars
    <2>2. CASE call[t].limit = "zero" /\ Leave(t)
      BY <1>3, <2>2, Returning DEF BlockFor, bufVars
    <2> QED BY <1>3, <2>1, <2>2 DEF BlockFor
  <1>4. CASE Interrupted(t, d)
    <2>1. call[t].limit = "none" => t \in Cancellable
      BY <1>4 DEF Interrupted, GiveUpInv, Endless
    <2> QED BY <1>4, <2>1, Returning DEF Interrupted, bufVars
  <1>5. CASE Granted(t, d)
    BY <1>1, <1>5 DEF Granted, bufVars
  <1>6. CASE Passed(t, d)
    BY <1>6, Returning DEF Passed, bufVars
  <1>7. CASE NotPassed(t, d)
    BY <1>7, Returning DEF NotPassed, bufVars
  <1>8. CASE Transfer(t, d)
    <2>1. call'[t].at = "pass" /\ \A u \in Thread : u # t => call'[u] = call[u]
      BY <1>0, <1>8, StageFacts DEF Transfer
    <2>2. absCall' = [absCall EXCEPT ![t] = "done"] /\ absCall[t] = AbsOf(call[t])
      BY <2>1, OneCall, AbsOfIs
    <2>3. CASE d = "send"
      <3>1. Push(t) /\ call[t].d = "send" /\ call[t].at # "pass"
        BY <1>8, <2>3 DEF Transfer
      <3>2. absCall[t] \in {"send", "trySend"}
        BY <2>2, <3>1, AbsOfIs
      <3>3. absChan' = Append(absChan, elem[t]) /\ Len(absChan) < Capacity /\ elem' = elem
        BY <1>0, <3>1, PushAppends DEF Push
      <3>4. Abs!Send(t)
        BY <2>2, <3>2, <3>3 DEF Abs!Send, Abs!Become, Abs!Sends
      <3> QED BY <3>4 DEF Abs!ChNext
    <2>4. CASE d = "recv"
      <3>1. Pop(t) /\ call[t].d = "recv" /\ call[t].at # "pass"
        BY <1>8, <2>4 DEF Transfer
      <3>2. absCall[t] \in {"recv", "tryRecv"}
        BY <2>2, <3>1, AbsOfIs
      <3>3. /\ absChan # <<>> /\ absChan' = Tail(absChan)
            /\ elem' = [elem EXCEPT ![t] = Head(absChan)]
        BY <1>0, <3>1, PopTakesFront
      <3>4. Abs!Recv(t)
        BY <2>2, <3>2, <3>3 DEF Abs!Recv, Abs!Become, Abs!Recvs
      <3> QED BY <3>4 DEF Abs!ChNext
    <2> QED BY <2>3, <2>4 DEF Dir
  <1> QED BY <1>2, <1>3, <1>4, <1>5, <1>6, <1>7, <1>8

(* A call begins.                                                          *)
LEMMA EnterRefines ==
  ASSUME MqInv, MqInv', NEW t \in Thread, NEW d \in Dir, NEW limit \in Limit, Enter(t, d, limit)
  PROVE  Abs!ChNext
  <1>0. MqTypeOK /\ MqTypeOK'
    BY DEF MqInv
  <1>1. /\ call[t] = Idle /\ call'[t].d = d /\ call'[t].at = "start"
        /\ \A u \in Thread : u # t => call'[u] = call[u]
    BY <1>0 DEF Enter, MqTypeOK
  <1>2. absCall[t] = "none" /\ absCall' = [absCall EXCEPT ![t] = AbsOf(call'[t])]
    BY <1>1, OneCall, AbsOfIs DEF Idle, Dir
  <1>3. absChan' = absChan
    BY DEF absChan, Enter, bufVars
  <1>4. CASE d = "send"
    <2>1. AbsOf(call'[t]) \in {"send", "trySend"}
      BY <1>1, <1>4, AbsOfIs
    <2>2. elem' = [elem EXCEPT ![t] = <<t, calls'[t]>>]
      BY <1>4 DEF Enter
    <2>3. elem'[t] = <<t, calls'[t]>> /\ elem'[t] \in Element
      BY <1>0, <2>2 DEF MqTypeOK
    <2>4. Abs!Begin(t)
      BY <1>2, <1>3, <2>1, <2>2, <2>3 DEF Abs!Begin, Abs!Become, Abs!Sends
    <2> QED BY <2>4 DEF Abs!ChNext
  <1>5. CASE d = "recv"
    <2>1. AbsOf(call'[t]) \in {"recv", "tryRecv"} /\ elem' = elem
      BY <1>1, <1>5, AbsOfIs DEF Enter
    <2>2. Abs!BeginRecv(t)
      BY <1>2, <1>3, <2>1 DEF Abs!BeginRecv, Abs!Become, Abs!Recvs
    <2> QED BY <2>2 DEF Abs!ChNext
  <1> QED BY <1>4, <1>5 DEF Dir

(* Cancelling other threads is no call of the channel.                     *)
LEMMA CancelRefines ==
  ASSUME MqInv, MqInv', NEW t \in Thread, CancelBegin(t) \/ CancelOne(t) \/ CancelEnd(t)
  PROVE  UNCHANGED Abs!chvars
  <1>0. MqTypeOK /\ MqTypeOK' /\ CallsAt(t)
    BY DEF MqInv
  <1>1. CASE CancelOne(t)
    BY <1>1, Stuttering DEF CancelOne, qvars, bufVars
  <1>2. CASE CancelBegin(t) \/ CancelEnd(t)
    <2>1. /\ call[t].d \notin Dir /\ call'[t].d \notin Dir /\ call'[t].at = "idle"
          /\ \A u \in Thread : u # t => call'[u] = call[u]
      <3>1. CASE CancelBegin(t)
        BY <1>0, <3>1 DEF CancelBegin, MqTypeOK, Idle, Dir
      <3>2. CASE CancelEnd(t)
        BY <1>0, <3>2, StageFacts DEF CancelEnd, Dir
      <3> QED BY <1>2, <3>1, <3>2
    <2>2. call[t].at = "idle"
      BY <1>0, <2>1 DEF CallsAt
    <2>3. AbsOf(call'[t]) = AbsOf(call[t])
      BY <2>1, <2>2, AbsOfIs
    <2> QED BY <1>2, <2>1, <2>3, Stuttering DEF CancelBegin, CancelEnd, bufVars
  <1> QED BY <1>1, <1>2

(* The message queue implements a bounded FIFO channel, for any number of  *)
(* threads and calls and any capacity: messages are received in the order  *)
(* they were sent, each once, however calls slip in between a waiter's     *)
(* wake-up and its second acquire; only a call with a time limit, or one   *)
(* of a thread that may be cancelled, returns without an effect.           *)
THEOREM ChannelCorrect == MqSpec => ImplementsChannel
  <1>1. MqInit => Abs!ChInit
    <2> SUFFICES ASSUME MqInit PROVE Abs!ChInit
      OBVIOUS
    <2>1. \A u \in Thread : call[u] = Idle
      BY DEF MqInit
    <2>2. absCall = [u \in Thread |-> "none"]
      BY <2>1, AbsOfIs DEF absCall, Idle, Dir
    <2>3. count = 0
      BY DEF MqInit
    <2>4. absChan = <<>>
      BY <2>3 DEF absChan
    <2>5. elem \in [Thread -> Element]
      BY DEF MqInit, Element
    <2> QED BY <2>2, <2>4, <2>5 DEF Abs!ChInit
  <1>2. Inv /\ LinkedInv /\ MqInv /\ MqInv' /\ GiveUpInv /\ [MqNext]_allVars => [Abs!ChNext]_(Abs!chvars)
    <2> SUFFICES ASSUME Inv, LinkedInv, MqInv, MqInv', GiveUpInv, [MqNext]_allVars
                 PROVE  [Abs!ChNext]_(Abs!chvars)
      OBVIOUS
    <2>1. CASE UNCHANGED qvars
      BY <2>1, Stuttering DEF qvars, bufVars
    <2>2. ASSUME NEW t \in Thread, ThreadStep(t) PROVE [Abs!ChNext]_(Abs!chvars)
      BY <2>2, CallRefines DEF ThreadStep
    <2>3. ASSUME NEW t \in Thread, NEW d \in Dir, NEW limit \in Limit, Enter(t, d, limit) PROVE Abs!ChNext
      BY <2>3, EnterRefines
    <2>4. ASSUME NEW t \in Thread, CancelBegin(t) \/ CancelOne(t) \/ CancelEnd(t)
          PROVE  UNCHANGED Abs!chvars
      BY <2>4, CancelRefines
    <2> QED BY <2>1, <2>2, <2>3, <2>4 DEF MqNext, CoreStep, allVars
  <1> QED BY <1>1, <1>2, MqInvariance, GiveUpInvariance, PTL DEF MqSpec, ImplementsChannel, Abs!Spec
=============================================================================
