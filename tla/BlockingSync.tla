---------------------------- MODULE BlockingSync ----------------------------
(***************************************************************************)
(* The blocking core of the KOS runtime: how a thread gives up the CPU to  *)
(* wait for an event, a deadline or both, and how exactly one of the       *)
(* event, the deadline and a cancellation ends the wait                    *)
(* (runtime/BlockingSync.h, runtime/Thread.h, runtime/Thread.cc).          *)
(*                                                                         *)
(* A thread that blocks builds an UnblockInfo object on its own stack,     *)
(* publishes a pointer to it in Thread::unblockInfo, links itself into a   *)
(* BlockingQueue and/or Timeout::queue, and switches to another thread.    *)
(* Whoever takes the pointer with an atomic exchange has won the right,    *)
(* and the duty, to unlink and resume the thread.  Steps are as fine as    *)
(* the spin locks, the exchange and the unlocked accesses to               *)
(* Thread::state make them.                                                *)
(*                                                                         *)
(* Clients (Semaphore, Mutex, MessageQueue) call block and resume with the *)
(* lock of the queue held; here the client is arbitrary.                   *)
(***************************************************************************)
EXTENDS Naturals, Sequences, SequencesExt, FiniteSets

CONSTANTS
  Thread,        \* the kernel threads
  Clock,         \* the RTC interrupt handler, which runs Timeout::checkExpiry
  Lock,          \* the BasicLocks that clients use
  ThreadLock,    \* Process::threadLock, held by the caller of Thread::cancel
  TimeoutLock,   \* Timeout::lock
  Queue,         \* the BlockingQueues
  LockOf,        \* LockOf[q] is the lock a client passes along with queue q
  Nobody,        \* no actor holds the lock / no victim
  NoQueue,       \* the wait has no event part (Timeout::sleep)
  Cancellable    \* the threads Thread::cancel may be called on

ASSUME ConstantsAssumption ==
  /\ Clock \notin Thread
  /\ Nobody \notin Thread \cup {Clock}
  /\ TimeoutLock \notin Lock
  /\ ThreadLock \in Lock
  /\ NoQueue \notin Queue
  /\ LockOf \in [Queue -> Lock]
  /\ Cancellable \subseteq Thread

Actor == Thread \cup {Clock}

VARIABLES
  pc,           \* where each actor is
  state,        \* Thread::state
  unblockInfo,  \* Thread::unblockInfo # nullptr
  info,         \* the UnblockInfo object on the stack of a waiting thread
  result,       \* what block() or resume() last returned to the thread
  lock,         \* the holder of each spin lock
  queue,        \* IntrusiveList<Thread> of each BlockingQueue
  timeouts,     \* the threads that have an entry in Timeout::queue
  victim,       \* the thread an actor is unblocking or cancelling
  cause,        \* why it does so
  scan,         \* the position of BlockingQueue::resume's iteration
  fireList,     \* checkExpiry's list of threads still to be resumed
  ready         \* how often the thread is linked into a ready queue

waitVars == <<unblockInfo, info, queue, timeouts>>
unblockVars == <<victim, cause, scan, fireList>>
vars == <<pc, state, result, lock, ready, waitVars, unblockVars>>

NoScan == [q |-> NoQueue, i |-> 0]
NoWait == [q |-> NoQueue, timed |-> FALSE, timedOut |-> FALSE]

ThreadPC == {"run", "sleep", "timed", "check", "store", "switch", "off", "on",
             "scan", "claim", "erase", "remove", "wake", "exit", "gone", "leaked"}
ClockPC == {"idle", "collect", "fire", "remove", "wake"}
ThreadState == {"Running", "Cancelled", "Finishing"}
Cause == {"none", "event", "timeout", "cancel"}
WaitInfo == [q : Queue \cup {NoQueue}, timed : BOOLEAN, timedOut : BOOLEAN]
ScanPos == [q : Queue \cup {NoQueue}, i : Nat]

TypeOK ==
  /\ pc \in [Actor -> ThreadPC \cup ClockPC]
  /\ \A t \in Thread : pc[t] \in ThreadPC
  /\ pc[Clock] \in ClockPC
  /\ state \in [Thread -> ThreadState]
  /\ unblockInfo \in [Thread -> BOOLEAN]
  /\ info \in [Thread -> WaitInfo]
  /\ result \in [Thread -> BOOLEAN]
  /\ lock \in [Lock \cup {TimeoutLock} -> Actor \cup {Nobody}]
  /\ queue \in [Queue -> Seq(Thread)]
  /\ timeouts \in SUBSET Thread
  /\ victim \in [Actor -> Thread \cup {Nobody}]
  /\ cause \in [Actor -> Cause]
  /\ scan \in [Thread -> ScanPos]
  /\ fireList \in SUBSET Thread
  /\ ready \in [Thread -> Nat]

Init ==
  /\ pc = [a \in Actor |-> IF a = Clock THEN "idle" ELSE "run"]
  /\ state = [t \in Thread |-> "Running"]
  /\ unblockInfo = [t \in Thread |-> FALSE]
  /\ info = [t \in Thread |-> NoWait]
  /\ result = [t \in Thread |-> TRUE]
  /\ lock = [l \in Lock \cup {TimeoutLock} |-> Nobody]
  /\ queue = [q \in Queue |-> <<>>]
  /\ timeouts = {}
  /\ victim = [a \in Actor |-> Nobody]
  /\ cause = [a \in Actor |-> "none"]
  /\ scan = [t \in Thread |-> NoScan]
  /\ fireList = {}
  /\ ready = [t \in Thread |-> 0]

(* IntrusiveList::remove: a thread is linked at most once.                 *)
Unlink(s, v) ==
  IF v \in ToSet(s) THEN RemoveAt(s, CHOOSE i \in DOMAIN s : s[i] = v) ELSE s

Goto(a, label) == pc' = [pc EXCEPT ![a] = label]
Holds(a, l) == lock[l] = a
HoldsNone(a) == \A l \in DOMAIN lock : lock[l] # a

(***************************************************************************)
(* Mutants: plausible mistakes in the actions below.                       *)
(***************************************************************************)

(* Runs a thread that nobody has resumed.                                  *)
DispatchUnready(t) ==
  /\ pc[t] = "off"
  /\ ready' = [ready EXCEPT ![t] = @ - 1]
  /\ Goto(t, "on")
  /\ UNCHANGED <<state, result, lock, waitVars, unblockVars>>

(* Gives up after the first waiter, claimed or not.                        *)
ScanEndFirst(t) ==
  /\ pc[t] = "scan"
  /\ scan[t].i > 1 \/ scan[t].i > Len(queue[scan[t].q])
  /\ scan' = [scan EXCEPT ![t] = NoScan]
  /\ result' = [result EXCEPT ![t] = FALSE]
  /\ Goto(t, "run")
  /\ UNCHANGED <<state, lock, ready, waitVars, victim, cause, fireList>>

(* resume forgets ubi->cancelTimeout().                                    *)
CancelTimeoutForgotten(t) ==
  /\ pc[t] = "erase"
  /\ Goto(t, IF cause[t] = "event" THEN "wake" ELSE "remove")
  /\ UNCHANGED <<state, result, lock, ready, waitVars, unblockVars>>

(* cancelEvent sets timedOut but leaves the thread linked in the queue.    *)
CancelEventLinked(a) ==
  /\ pc[a] = "remove"
  /\ info[victim[a]].q # NoQueue
  /\ info' = [info EXCEPT ![victim[a]].timedOut = TRUE]
  /\ Goto(a, "wake")
  /\ UNCHANGED <<state, result, lock, ready, unblockInfo, queue, timeouts, unblockVars>>

(* cancelEvent unlinks the thread but does not set timedOut.               *)
CancelEventSilent(a) ==
  LET v == victim[a]
      q == info[v].q
  IN
  /\ pc[a] = "remove"
  /\ q # NoQueue
  /\ lock[LockOf[q]] = Nobody
  /\ queue' = [queue EXCEPT ![q] = Unlink(@, v)]
  /\ Goto(a, "wake")
  /\ UNCHANGED <<state, result, lock, ready, unblockInfo, info, timeouts, unblockVars>>

(* The claimed thread is never put into a ready queue.                     *)
WakeNot(t) ==
  /\ pc[t] = "wake"
  /\ victim' = [victim EXCEPT ![t] = Nobody]
  /\ cause' = [cause EXCEPT ![t] = "none"]
  /\ result' = [result EXCEPT ![t] = TRUE]
  /\ Goto(t, "run")
  /\ UNCHANGED <<state, lock, ready, waitVars, scan, fireList>>

(* checkExpiry loads unblockInfo instead of exchanging it with nullptr.    *)
ExpiryCollectLoad(v) ==
  /\ pc[Clock] = "collect"
  /\ v \in timeouts
  /\ unblockInfo[v]
  /\ timeouts' = timeouts \ {v}
  /\ fireList' = fireList \cup {v}
  /\ UNCHANGED <<pc, state, result, lock, ready, unblockInfo, info, queue, victim, cause, scan>>

(* cancel loads unblockInfo instead of exchanging it with nullptr.         *)
CancelClaimLoad(t) ==
  /\ pc[t] = "claim"
  /\ unblockInfo[victim[t]]
  /\ Goto(t, "erase")
  /\ UNCHANGED <<state, result, lock, ready, waitVars, unblockVars>>

-----------------------------------------------------------------------------
(***************************************************************************)
(* Spin locks, abstractly: SpinLock gives mutual exclusion and keeps the   *)
(* CPU of the holder from taking interrupts.                               *)
(***************************************************************************)
Acquire(t, l) ==
  /\ pc[t] = "run"
  /\ lock[l] = Nobody
  /\ lock' = [lock EXCEPT ![l] = t]
  /\ UNCHANGED <<pc, state, result, ready, waitVars, unblockVars>>

Release(t, l) ==
  /\ pc[t] = "run"
  /\ Holds(t, l)
  /\ lock' = [lock EXCEPT ![l] = Nobody]
  /\ UNCHANGED <<pc, state, result, ready, waitVars, unblockVars>>

-----------------------------------------------------------------------------
(***************************************************************************)
(* Blocking.                                                               *)
(***************************************************************************)

(* BlockingQueue::block with the lock held: EventInfo::suspend when there  *)
(* is no time limit, TimeoutEventInfo::suspend when there is one.          *)
Block(t, q, timed) ==
  /\ pc[t] = "run"
  /\ Holds(t, LockOf[q])
  /\ info' = [info EXCEPT ![t] = [q |-> q, timed |-> timed, timedOut |-> FALSE]]
  /\ Goto(t, IF timed THEN "timed" ELSE "check")
  /\ UNCHANGED <<state, result, lock, ready, unblockInfo, queue, timeouts, unblockVars>>

(* BlockingQueue::block with a time limit of zero does not block.          *)
BlockNot(t, q) ==
  /\ pc[t] = "run"
  /\ Holds(t, LockOf[q])
  /\ lock' = [lock EXCEPT ![LockOf[q]] = Nobody]
  /\ result' = [result EXCEPT ![t] = FALSE]
  /\ UNCHANGED <<pc, state, ready, waitVars, unblockVars>>

(* Timeout::sleep: TimeoutInfo::suspend.                                   *)
Sleep(t) ==
  /\ pc[t] = "run"
  /\ HoldsNone(t)
  /\ info' = [info EXCEPT ![t] = [q |-> NoQueue, timed |-> TRUE, timedOut |-> FALSE]]
  /\ Goto(t, "sleep")
  /\ UNCHANGED <<state, result, lock, ready, unblockInfo, queue, timeouts, unblockVars>>

(* Both timed forms take Timeout::lock before Thread::block.               *)
TakeTimeoutLock(t) ==
  /\ pc[t] \in {"sleep", "timed"}
  /\ lock[TimeoutLock] = Nobody
  /\ lock' = [lock EXCEPT ![TimeoutLock] = t]
  /\ Goto(t, "check")
  /\ UNCHANGED <<state, result, ready, waitVars, unblockVars>>

(* The locks that the suspend call of t holds and gives up.                *)
WaitLocks(t) == {l \in DOMAIN lock : \/ l = TimeoutLock /\ info[t].timed
                                     \/ info[t].q # NoQueue /\ l = LockOf[info[t].q]}
Unlocked(S) == [l \in DOMAIN lock |-> IF l \in S THEN Nobody ELSE lock[l]]

(* Thread::block reads the state without a lock that cancel would hold.    *)
BlockRefuse(t) ==
  /\ pc[t] = "check"
  /\ state[t] = "Cancelled"
  /\ lock' = Unlocked(WaitLocks(t))
  /\ info' = [info EXCEPT ![t] = NoWait]
  /\ result' = [result EXCEPT ![t] = FALSE]
  /\ Goto(t, "run")
  /\ UNCHANGED <<state, ready, unblockInfo, queue, timeouts, unblockVars>>

BlockCheck(t) ==
  /\ pc[t] = "check"
  /\ state[t] # "Cancelled"
  /\ Goto(t, "store")
  /\ UNCHANGED <<state, result, lock, ready, waitVars, unblockVars>>

(* Thread::block publishes the UnblockInfo; the thread is then linked into *)
(* the queues, whose locks it holds.                                       *)
BlockStore(t) ==
  /\ pc[t] = "store"
  /\ unblockInfo' = [unblockInfo EXCEPT ![t] = TRUE]
  /\ queue' = IF info[t].q = NoQueue THEN queue
              ELSE [queue EXCEPT ![info[t].q] = Append(@, t)]
  /\ timeouts' = IF info[t].timed THEN timeouts \cup {t} ELSE timeouts
  /\ Goto(t, "switch")
  /\ UNCHANGED <<state, result, lock, ready, info, unblockVars>>

(* Thread::switchThread picks the next thread and only then unlocks.       *)
SwitchOut(t) ==
  /\ pc[t] = "switch"
  /\ lock' = Unlocked(WaitLocks(t))
  /\ Goto(t, "off")
  /\ UNCHANGED <<state, result, ready, waitVars, unblockVars>>

(* The scheduler runs a thread that is in a ready queue.                   *)
Dispatch(t) ==
  /\ pc[t] = "off"
  /\ ready[t] > 0
  /\ ready' = [ready EXCEPT ![t] = @ - 1]
  /\ Goto(t, "on")
  /\ UNCHANGED <<state, result, lock, waitVars, unblockVars>>

(* The end of switchThread: suspend and then block return ...              *)
SwitchIn(t) ==
  /\ pc[t] = "on"
  /\ state[t] # "Cancelled"
  /\ result' = [result EXCEPT ![t] = ~ info[t].timedOut]
  /\ info' = [info EXCEPT ![t] = NoWait]
  /\ Goto(t, "run")
  /\ UNCHANGED <<state, lock, ready, unblockInfo, queue, timeouts, unblockVars>>

(* ... except in a cancelled thread.                                       *)
SwitchInCancelled(t) ==
  /\ pc[t] = "on"
  /\ state[t] = "Cancelled"
  /\ state' = [state EXCEPT ![t] = "Finishing"]
  /\ Goto(t, "exit")
  /\ UNCHANGED <<result, lock, ready, waitVars, unblockVars>>

-----------------------------------------------------------------------------
(***************************************************************************)
(* Unblocking by the event: BlockingQueue::resume with the lock held.      *)
(***************************************************************************)
Resume(t, q) ==
  /\ pc[t] = "run"
  /\ Holds(t, LockOf[q])
  /\ scan' = [scan EXCEPT ![t] = [q |-> q, i |-> 1]]
  /\ Goto(t, "scan")
  /\ UNCHANGED <<state, result, lock, ready, waitVars, victim, cause, fireList>>

(* Waiters another actor has already claimed are skipped, one per step.    *)
ScanSkip(t) ==
  LET q == scan[t].q
      i == scan[t].i
  IN
  /\ pc[t] = "scan"
  /\ i <= Len(queue[q])
  /\ ~ unblockInfo[queue[q][i]]
  /\ scan' = [scan EXCEPT ![t].i = @ + 1]
  /\ UNCHANGED <<pc, state, result, lock, ready, waitVars, victim, cause, fireList>>

(* The first one that can be claimed is unlinked and the lock released.    *)
ScanClaim(t) ==
  LET q == scan[t].q
      v == queue[scan[t].q][scan[t].i]
  IN
  /\ pc[t] = "scan"
  /\ scan[t].i <= Len(queue[q])
  /\ unblockInfo[v]
  /\ unblockInfo' = [unblockInfo EXCEPT ![v] = FALSE]
  /\ queue' = [queue EXCEPT ![q] = Unlink(@, v)]
  /\ lock' = [lock EXCEPT ![LockOf[q]] = Nobody]
  /\ victim' = [victim EXCEPT ![t] = v]
  /\ cause' = [cause EXCEPT ![t] = "event"]
  /\ scan' = [scan EXCEPT ![t] = NoScan]
  /\ Goto(t, "erase")
  /\ UNCHANGED <<state, result, ready, info, timeouts, fireList>>

(* No waiter is left to resume: the client goes on with the lock held.     *)
ScanEnd(t) ==
  /\ pc[t] = "scan"
  /\ scan[t].i > Len(queue[scan[t].q])
  /\ scan' = [scan EXCEPT ![t] = NoScan]
  /\ result' = [result EXCEPT ![t] = FALSE]
  /\ Goto(t, "run")
  /\ UNCHANGED <<state, lock, ready, waitVars, victim, cause, fireList>>

(* The virtual calls ubi->cancelTimeout(), ubi->cancelEvent(), t->resume() *)
CancelTimeout(t) ==
  LET v == victim[t] IN
  /\ pc[t] = "erase"
  /\ info[v].timed => lock[TimeoutLock] = Nobody
  /\ timeouts' = IF info[v].timed THEN timeouts \ {v} ELSE timeouts
  /\ Goto(t, IF cause[t] = "event" THEN "wake" ELSE "remove")
  /\ UNCHANGED <<state, result, lock, ready, unblockInfo, info, queue, unblockVars>>

CancelEvent(a) ==
  LET v == victim[a]
      q == info[v].q
  IN
  /\ pc[a] = "remove"
  /\ q # NoQueue
  /\ lock[LockOf[q]] = Nobody
  /\ info' = [info EXCEPT ![v].timedOut = TRUE]
  /\ queue' = [queue EXCEPT ![q] = Unlink(@, v)]
  /\ Goto(a, "wake")
  /\ UNCHANGED <<state, result, lock, ready, unblockInfo, timeouts, unblockVars>>

CancelNoEvent(a) ==
  /\ pc[a] = "remove"
  /\ info[victim[a]].q = NoQueue
  /\ Goto(a, "wake")
  /\ UNCHANGED <<state, result, lock, ready, waitVars, unblockVars>>

Wake(t) ==
  /\ pc[t] = "wake"
  /\ ready' = [ready EXCEPT ![victim[t]] = @ + 1]
  /\ victim' = [victim EXCEPT ![t] = Nobody]
  /\ cause' = [cause EXCEPT ![t] = "none"]
  /\ result' = [result EXCEPT ![t] = TRUE]
  /\ Goto(t, "run")
  /\ UNCHANGED <<state, lock, waitVars, scan, fireList>>

-----------------------------------------------------------------------------
(***************************************************************************)
(* Unblocking by the deadline: Timeout::checkExpiry.  Deadlines are        *)
(* arbitrary, so any set of entries may be found expired, in any order.    *)
(* Ticks that find nothing expired change nothing and are left out.        *)
(***************************************************************************)
Expirable == {v \in timeouts : unblockInfo[v]}

ExpiryBegin ==
  /\ pc[Clock] = "idle"
  /\ Expirable # {}
  /\ lock[TimeoutLock] = Nobody
  /\ lock' = [lock EXCEPT ![TimeoutLock] = Clock]
  /\ Goto(Clock, "collect")
  /\ UNCHANGED <<state, result, ready, waitVars, unblockVars>>

ExpiryCollect(v) ==
  /\ pc[Clock] = "collect"
  /\ v \in Expirable
  /\ unblockInfo' = [unblockInfo EXCEPT ![v] = FALSE]
  /\ timeouts' = timeouts \ {v}
  /\ fireList' = fireList \cup {v}
  /\ UNCHANGED <<pc, state, result, lock, ready, info, queue, victim, cause, scan>>

ExpiryCollected ==
  /\ pc[Clock] = "collect"
  /\ fireList # {} \/ Expirable = {}
  /\ lock' = [lock EXCEPT ![TimeoutLock] = Nobody]
  /\ Goto(Clock, "fire")
  /\ UNCHANGED <<state, result, ready, waitVars, unblockVars>>

ExpiryFire(v) ==
  /\ pc[Clock] = "fire"
  /\ v \in fireList
  /\ fireList' = fireList \ {v}
  /\ victim' = [victim EXCEPT ![Clock] = v]
  /\ cause' = [cause EXCEPT ![Clock] = "timeout"]
  /\ Goto(Clock, "remove")
  /\ UNCHANGED <<state, result, lock, ready, waitVars, scan>>

ExpiryWake ==
  /\ pc[Clock] = "wake"
  /\ ready' = [ready EXCEPT ![victim[Clock]] = @ + 1]
  /\ victim' = [victim EXCEPT ![Clock] = Nobody]
  /\ cause' = [cause EXCEPT ![Clock] = "none"]
  /\ Goto(Clock, "fire")
  /\ UNCHANGED <<state, result, lock, waitVars, scan, fireList>>

ExpiryEnd ==
  /\ pc[Clock] = "fire"
  /\ fireList = {}
  /\ Goto(Clock, "idle")
  /\ UNCHANGED <<state, result, lock, ready, waitVars, unblockVars>>

-----------------------------------------------------------------------------
(***************************************************************************)
(* Unblocking by Thread::cancel, and the end of a thread.                  *)
(***************************************************************************)
Cancel(t, v) ==
  /\ pc[t] = "run"
  /\ Holds(t, ThreadLock)
  /\ v # t
  /\ v \in Cancellable
  /\ pc[v] # "gone"
  /\ state' = [state EXCEPT ![v] = "Cancelled"]
  /\ victim' = [victim EXCEPT ![t] = v]
  /\ cause' = [cause EXCEPT ![t] = "cancel"]
  /\ Goto(t, "claim")
  /\ UNCHANGED <<result, lock, ready, waitVars, scan, fireList>>

CancelClaim(t) ==
  /\ pc[t] = "claim"
  /\ unblockInfo[victim[t]]
  /\ unblockInfo' = [unblockInfo EXCEPT ![victim[t]] = FALSE]
  /\ Goto(t, "erase")
  /\ UNCHANGED <<state, result, lock, ready, info, queue, timeouts, unblockVars>>

(* The victim does not wait, or somebody else is resuming it already.      *)
CancelMiss(t) ==
  /\ pc[t] = "claim"
  /\ ~ unblockInfo[victim[t]]
  /\ victim' = [victim EXCEPT ![t] = Nobody]
  /\ cause' = [cause EXCEPT ![t] = "none"]
  /\ Goto(t, "run")
  /\ UNCHANGED <<state, result, lock, ready, waitVars, scan, fireList>>

Terminate(t) ==
  /\ pc[t] = "run"
  /\ HoldsNone(t)
  /\ state' = [state EXCEPT ![t] = "Finishing"]
  /\ Goto(t, "exit")
  /\ UNCHANGED <<result, lock, ready, waitVars, unblockVars>>

(* Preemption, possible wherever no lock is held, ends a cancelled thread. *)
Preempt(t) ==
  /\ pc[t] \in {"run", "sleep", "claim", "erase", "remove", "wake"}
  /\ HoldsNone(t)
  /\ state[t] = "Cancelled"
  /\ state' = [state EXCEPT ![t] = "Finishing"]
  /\ Goto(t, "exit")
  /\ UNCHANGED <<result, lock, ready, waitVars, unblockVars>>

(* The thread leaves its process under threadLock and the next thread      *)
(* destroys it (Thread::postSuspend), unless its state was overwritten.    *)
Exit(t) ==
  /\ pc[t] = "exit"
  /\ lock[ThreadLock] = Nobody
  /\ Goto(t, IF state[t] = "Finishing" THEN "gone" ELSE "leaked")
  /\ UNCHANGED <<state, result, lock, ready, waitVars, unblockVars>>

-----------------------------------------------------------------------------
(* The steps every blocking or unblocking call takes once it has begun.    *)
Step(t) ==
  \/ TakeTimeoutLock(t) \/ BlockRefuse(t) \/ BlockCheck(t) \/ BlockStore(t)
  \/ SwitchOut(t) \/ Dispatch(t) \/ SwitchIn(t) \/ SwitchInCancelled(t)
  \/ ScanSkip(t) \/ ScanClaim(t) \/ ScanEnd(t)
  \/ CancelTimeout(t) \/ CancelEvent(t) \/ CancelNoEvent(t) \/ Wake(t)
  \/ CancelClaim(t) \/ CancelMiss(t)
  \/ Preempt(t) \/ Exit(t)

ClockStep ==
  \/ ExpiryBegin
  \/ \E v \in Thread : ExpiryCollect(v)
  \/ ExpiryCollected
  \/ \E v \in Thread : ExpiryFire(v)
  \/ CancelEvent(Clock)
  \/ CancelNoEvent(Clock)
  \/ ExpiryWake
  \/ ExpiryEnd

(* What a client may do: take one lock, then block, resume, cancel.        *)
Client(t) ==
  \/ \E l \in Lock : Acquire(t, l) /\ HoldsNone(t)
  \/ \E l \in Lock : Release(t, l)
  \/ \E q \in Queue : BlockNot(t, q) \/ Resume(t, q)
  \/ \E q \in Queue, timed \in BOOLEAN : Block(t, q, timed)
  \/ Sleep(t)
  \/ \E v \in Thread : Cancel(t, v)
  \/ Terminate(t)

Next == ClockStep \/ \E t \in Thread : Step(t) \/ Client(t)

Spec == Init /\ [][Next]_vars

-----------------------------------------------------------------------------
(***************************************************************************)
(* Properties.                                                             *)
(***************************************************************************)
Waiting(t) == pc[t] \in {"switch", "off"} /\ ready[t] = 0
Unblocking(a) == pc[a] \in {"erase", "remove", "wake"}
Claims(a, v) == (Unblocking(a) /\ victim[a] = v) \/ (a = Clock /\ v \in fireList)

(* No two actors both hold the UnblockInfo of the same thread: of an       *)
(* event, a timeout and a cancellation that race, one wins (Thread.h,      *)
(* getUnblockInfo).                                                        *)
OneWinner == \A v \in Thread, a, b \in Actor : Claims(a, v) /\ Claims(b, v) => a = b

(* The UnblockInfo lives on the stack of the thread that waits: as long as *)
(* it is published, or some actor still uses it for cancelTimeout,         *)
(* cancelEvent or resume, that thread has not been resumed.                *)
InfoAlive ==
  \A v \in Thread : (unblockInfo[v] \/ \E a \in Actor : Claims(a, v)) => Waiting(v)

(* A thread is put into a ready queue at most once per wait, and only when *)
(* it is off its stack and linked into no waiting list (the intrusive link *)
(* that BlockingQueue and ready queue share).                              *)
ResumedOnce ==
  \A t \in Thread : ready[t] # 0 =>
    /\ ready[t] = 1
    /\ pc[t] = "off"
    /\ t \notin timeouts
    /\ \A q \in Queue : t \notin ToSet(queue[q])

(* Lists hold waiting threads only, each once, and the actor that unlinks  *)
(* a thread (IntrusiveList::remove, multimap::erase with a saved iterator) *)
(* finds it linked.                                                        *)
Linked(v) == info[v].q # NoQueue => v \in ToSet(queue[info[v].q])
ListsSound ==
  /\ \A q \in Queue : /\ IsInjective(queue[q])
                      /\ \A v \in ToSet(queue[q]) : Waiting(v) /\ info[v].q = q
  /\ \A v \in timeouts : Waiting(v) /\ info[v].timed
  /\ \A a \in Actor : pc[a] = "erase" /\ info[victim[a]].timed => victim[a] \in timeouts
  /\ \A a \in Actor : pc[a] = "remove" => Linked(victim[a])

(* Thread::block asserts that no UnblockInfo is pending and that the       *)
(* thread is not finishing.                                                *)
BlockAsserts ==
  \A t \in Thread : pc[t] \in {"check", "store"} =>
    ~ unblockInfo[t] /\ state[t] # "Finishing"

-----------------------------------------------------------------------------
(***************************************************************************)
(* The inductive invariant from which the properties above follow.         *)
(***************************************************************************)

(* Locks are where the code says they are: a thread on its way out holds   *)
(* the locks it will give up in switchThread, a scanning thread the lock   *)
(* of the queue, checkExpiry Timeout::lock while it collects.              *)
LocksInv ==
  /\ \A t \in Thread :
       /\ pc[t] \in {"check", "store", "switch"} =>
            /\ info[t].timed => lock[TimeoutLock] = t
            /\ info[t].q # NoQueue => lock[LockOf[info[t].q]] = t
       /\ pc[t] = "timed" => /\ info[t].q # NoQueue
                             /\ lock[LockOf[info[t].q]] = t
       /\ pc[t] = "sleep" => info[t].q = NoQueue
       /\ pc[t] \in {"timed", "sleep"} => info[t].timed
       /\ pc[t] \in {"check", "store", "switch", "off"} =>
            info[t].timed \/ info[t].q # NoQueue
       /\ pc[t] = "scan" => /\ scan[t].q # NoQueue
                            /\ scan[t].i # 0
                            /\ lock[LockOf[scan[t].q]] = t
  /\ pc[Clock] = "collect" => lock[TimeoutLock] = Clock

(* Lists hold waiting threads, each at most once.                          *)
ListsInv ==
  /\ \A q \in Queue : IsInjective(queue[q])
  /\ \A q \in Queue, v \in Thread : v \in ToSet(queue[q]) =>
       pc[v] \in {"switch", "off"} /\ info[v].q = q
  /\ \A v \in Thread : v \in timeouts => pc[v] \in {"switch", "off"} /\ info[v].timed

(* The UnblockInfo is published or claimed only while its owner waits, and *)
(* it is claimed by one actor at a time.                                   *)
ClaimsInv ==
  /\ \A v \in Thread : unblockInfo[v] => Waiting(v)
  /\ \A a \in Actor, v \in Thread : Claims(a, v) => Waiting(v) /\ ~ unblockInfo[v]
  /\ \A a, b \in Actor, v \in Thread : Claims(a, v) /\ Claims(b, v) => a = b
  /\ \A v \in fireList : victim[Clock] = v => ~ Unblocking(Clock)
  /\ \A a \in Actor : pc[a] \in {"claim", "erase", "remove", "wake"} => victim[a] \in Thread

(* How far the actor that claimed a thread has come: each step has waited  *)
(* for a lock that the thread held until it was off its stack, and each    *)
(* has unlinked the thread from one list.                                  *)
ProgressInv ==
  /\ \A t \in Thread : pc[t] = "claim" => cause[t] = "cancel"
  /\ \A t \in Thread : pc[t] = "erase" /\ cause[t] = "event" =>
       pc[victim[t]] = "off" /\ \A q \in Queue : victim[t] \notin ToSet(queue[q])
  /\ \A a \in Actor : pc[a] = "remove" =>
       /\ victim[a] \notin timeouts
       /\ info[victim[a]].timed => pc[victim[a]] = "off"
  /\ \A a \in Actor : pc[a] = "wake" =>
       /\ victim[a] \notin timeouts
       /\ pc[victim[a]] = "off"
       /\ \A q \in Queue : victim[a] \notin ToSet(queue[q])
  /\ \A v \in fireList : pc[v] = "off" /\ v \notin timeouts /\ info[v].timed
  /\ ResumedOnce

Inv == TypeOK /\ LocksInv /\ ListsInv /\ ClaimsInv /\ ProgressInv

(* What is still linked: a published UnblockInfo in all the lists its      *)
(* owner waits in, a claimed one in the lists its claimant has not come to *)
(* yet.  A finishing thread is past every call of block.                   *)
LinkedInv ==
  /\ \A v \in Thread : unblockInfo[v] => Linked(v) /\ (info[v].timed => v \in timeouts)
  /\ \A a \in Actor : pc[a] = "erase" =>
       /\ info[victim[a]].timed => victim[a] \in timeouts
       /\ cause[a] # "event" => Linked(victim[a])
  /\ \A a \in Actor : pc[a] = "remove" => Linked(victim[a])
  /\ \A v \in fireList : Linked(v)
  /\ \A t \in Thread : state[t] = "Finishing" => pc[t] \in {"exit", "gone", "leaked"}

(* Queues and timeouts agree with what the threads on them wait for, and    *)
(* the assertions of block hold (BlockingSync.h, Thread.h block).          *)
QueuesSound == ListsSound /\ BlockAsserts

=============================================================================
