------------------------------- MODULE Mutex --------------------------------
(***************************************************************************)
(* Mutex and OwnerMutex of runtime/BlockingSync.h.  The release passes the *)
(* mutex on to a waiter it can still claim.  Two things make the code      *)
(* delicate:                                                               *)
(*   - acquire compares owner with the running thread without the lock,    *)
(*     while release uses owner itself as the iterator of                  *)
(*     BlockingQueue::resume, so that owner passes through every waiter    *)
(*     and the list's fence;                                               *)
(*   - resume reads its reference parameter, that is owner, once more      *)
(*     after it has released the lock (t->resume()).                       *)
(***************************************************************************)
EXTENDS BlockingSync

CONSTANTS
  Mtx,        \* the mutex's queue
  Fence,      \* the anchor of the intrusive list, as IntrusiveList::fence
  Recursive,  \* OwnerMutex rather than Mutex
  MaxCalls    \* bound: MaxCalls[t] is how often thread t calls acquire

ASSUME MutexAssumption ==
  /\ Mtx \in Queue
  /\ Fence \notin Thread \cup {Nobody}
  /\ Recursive \in BOOLEAN
  /\ MaxCalls \in [Thread -> Nat]

VARIABLES
  owner,      \* Mutex::owner
  counter,    \* OwnerMutex::counter
  call,       \* the call a thread is in; "held" between acquire and release
  calls       \* how many calls of acquire it has made

mvars == <<owner, counter, call, calls>>
allVars == <<vars, mvars>>

MtxLock == LockOf[Mtx]
AcquireCalls == {"acquire", "tryAcquire", "timedAcquire"}
WaitCalls == {"wait", "timedWait"}

MutexInit ==
  /\ Init
  /\ owner = Nobody
  /\ counter = 0
  /\ call = [t \in Thread |-> "none"]
  /\ calls = [t \in Thread |-> 0]

Become(t, c) == call' = [call EXCEPT ![t] = c]

(***************************************************************************)
(* Mutants.                                                                *)
(***************************************************************************)

(* release clears owner although the mutex has been passed on.             *)
ReleaseReturnClear(t) ==
  /\ call[t] = "passing"
  /\ pc[t] = "run"
  /\ result[t]
  /\ owner' = Nobody
  /\ Become(t, "none")
  /\ UNCHANGED <<vars, counter, calls>>

(* release passes a dummy to resume, as Semaphore::V does.                 *)
IterateDummy(t) == owner' = owner

-----------------------------------------------------------------------------
(* internalAcquire: owner is read without the lock ...                     *)
AcquireCheck(t, c) ==
  /\ pc[t] = "run"
  /\ call[t] = "none"
  /\ calls[t] < MaxCalls[t]
  /\ owner # t
  /\ Become(t, c)
  /\ calls' = [calls EXCEPT ![t] = @ + 1]
  /\ UNCHANGED <<vars, owner, counter>>

(* ... which is how OwnerMutex recognises a nested call.                   *)
AcquireNested(t) ==
  /\ Recursive
  /\ pc[t] = "run"
  /\ HoldsNone(t)
  /\ call[t] = "held"
  /\ calls[t] < MaxCalls[t]
  /\ owner = t
  /\ counter' = counter + 1
  /\ calls' = [calls EXCEPT ![t] = @ + 1]
  /\ UNCHANGED <<vars, owner, call>>

AcquireLock(t) ==
  /\ call[t] \in AcquireCalls
  /\ HoldsNone(t)
  /\ Acquire(t, MtxLock)
  /\ UNCHANGED mvars

AcquireFree(t) ==
  /\ call[t] \in AcquireCalls
  /\ Holds(t, MtxLock)
  /\ owner = Nobody
  /\ owner' = t
  /\ Release(t, MtxLock)
  /\ Become(t, "won")
  /\ UNCHANGED <<counter, calls>>

AcquireBlock(t) ==
  /\ call[t] \in AcquireCalls
  /\ Holds(t, MtxLock)
  /\ owner # Nobody
  /\ \/ call[t] = "acquire" /\ Block(t, Mtx, FALSE) /\ Become(t, "wait")
     \/ call[t] = "timedAcquire" /\ Block(t, Mtx, TRUE) /\ Become(t, "timedWait")
     \/ call[t] = "tryAcquire" /\ BlockNot(t, Mtx) /\ Become(t, "none")
  /\ UNCHANGED <<owner, counter, calls>>

AcquireFail(t) ==
  /\ call[t] \in WaitCalls
  /\ pc[t] = "run"
  /\ ~ result[t]
  /\ Become(t, "none")
  /\ UNCHANGED <<vars, owner, counter, calls>>

(* internalAcquire returned true; OwnerMutex counts without the lock.      *)
AcquireReturn(t) ==
  /\ \/ call[t] = "won"
     \/ call[t] \in WaitCalls /\ pc[t] = "run" /\ result[t]
  /\ counter' = IF Recursive THEN counter + 1 ELSE counter
  /\ Become(t, "held")
  /\ UNCHANGED <<vars, owner, calls>>

(* release, by a thread that owns the mutex.                               *)
ReleaseLock(t) ==
  /\ call[t] = "held"
  /\ HoldsNone(t)
  /\ Acquire(t, MtxLock)
  /\ UNCHANGED mvars

ReleaseNested(t) ==
  /\ Recursive
  /\ call[t] = "held"
  /\ Holds(t, MtxLock)
  /\ counter > 1
  /\ counter' = counter - 1
  /\ Release(t, MtxLock)
  /\ UNCHANGED <<owner, call, calls>>

(* The loop variable of BlockingQueue::resume is a reference to owner.     *)
Iterate(t) ==
  owner' = IF scan'[t].q # Mtx THEN owner
           ELSE IF scan'[t].i <= Len(queue[Mtx]) THEN queue[Mtx][scan'[t].i] ELSE Fence

ReleasePass(t) ==
  /\ call[t] = "held"
  /\ Recursive => counter = 1
  /\ counter' = 0
  /\ Resume(t, Mtx)
  /\ Iterate(t)
  /\ Become(t, "passing")
  /\ UNCHANGED calls

ReleaseFree(t) ==
  /\ call[t] = "passing"
  /\ ~ result[t]
  /\ owner' = Nobody
  /\ Release(t, MtxLock)
  /\ Become(t, "none")
  /\ UNCHANGED <<counter, calls>>

ReleaseReturn(t) ==
  /\ call[t] = "passing"
  /\ pc[t] = "run"
  /\ result[t]
  /\ Become(t, "none")
  /\ UNCHANGED <<vars, owner, counter, calls>>

CoreStep(t) == Step(t) /\ Iterate(t) /\ UNCHANGED <<counter, call, calls>>

ThreadStep(t) ==
  \/ AcquireLock(t) \/ AcquireFree(t) \/ AcquireBlock(t)
  \/ AcquireFail(t) \/ AcquireReturn(t)
  \/ ReleaseLock(t) \/ ReleaseNested(t)
  \/ ReleasePass(t) \/ ReleaseFree(t) \/ ReleaseReturn(t)

MutexNext ==
  \/ ClockStep /\ UNCHANGED mvars
  \/ \E t \in Thread : CoreStep(t) \/ ThreadStep(t) \/ AcquireNested(t)
  \/ \E t \in Thread, c \in AcquireCalls : AcquireCheck(t, c)

MutexSpec == MutexInit /\ [][MutexNext]_allVars

(* As for Semaphore: CPUs make progress, the RTC ticks, and a thread that  *)
(* owns the mutex releases it.                                             *)
MutexFairSpec ==
  /\ MutexSpec
  /\ \A t \in Thread : WF_allVars(ThreadStep(t) \/ CoreStep(t))
  /\ WF_allVars(ClockStep /\ UNCHANGED mvars)

-----------------------------------------------------------------------------
(* The mutex has been passed to a waiter that may not know it yet.         *)
Granted(t) ==
  /\ call[t] \in WaitCalls
  /\ \/ /\ pc[t] \in {"switch", "off", "on"}
        /\ ~ unblockInfo[t]
        /\ ~ info[t].timedOut
        /\ t \notin ToSet(queue[Mtx])
     \/ pc[t] = "run" /\ result[t]

Owns(t) == call[t] \in {"won", "held"} \/ Granted(t)

(* One thread at a time owns the mutex, from the moment release hands it   *)
(* over until its own release hands it on.                                 *)
MutualExclusion == \A t, u \in Thread : Owns(t) /\ Owns(u) => t = u

(* owner names the thread that owns the mutex, although release walks it   *)
(* through the waiters: release's assertion and OwnerMutex's test for a    *)
(* nested call see the truth, no running thread mistakes itself for the    *)
(* owner (internalAcquire's assertion), and the thread that resume reads   *)
(* from owner after the unlock is the one it has claimed.                  *)
OwnerTrue ==
  /\ \A t \in Thread : Owns(t) => owner = t
  /\ \A t \in Thread : owner = t /\ pc[t] \notin {"switch", "off", "on"} => Owns(t)
  /\ \A t \in Thread : call[t] = "passing" /\ pc[t] \in {"erase", "wake"} => owner = victim[t]

(* OwnerMutex::counter is touched without the lock.  It counts the calls   *)
(* of the present owner only: it is zero when the mutex changes hands and  *)
(* positive as long as the owner is inside.                                *)
CounterOfOwner ==
  Recursive =>
    /\ \A t \in Thread : call[t] = "won" \/ Granted(t) => counter = 0
    /\ \A t \in Thread : call[t] = "held" => counter \in 1 .. calls[t]
    /\ owner = Nobody => counter = 0

(* Nobody starves in the queue: every acquire returns, and so does every   *)
(* release; the time limit of a thread that waits does not keep the mutex  *)
(* from the others (BlockingSync.h internalAcquire, release).              *)
AcquireReturns ==
  \A t \in Thread : []<>(call[t] \in {"held", "none"})

(* The owner field and the unlocked recursion counter are those of the one *)
(* thread that has the mutex (BlockingSync.h internalAcquire, OwnerMutex). *)
OwnerSound == OwnerTrue /\ CounterOfOwner

-----------------------------------------------------------------------------
(***************************************************************************)
(* The inductive invariant: with those of the blocking core it gives       *)
(* MutualExclusion and OwnerSound.                                         *)
(***************************************************************************)

(* A releasing thread still has the mutex while it looks for a waiter and  *)
(* when it has found none.                                                 *)
Scanning(t) == pc[t] = "scan"
Ending(t) == call[t] = "passing" /\ pc[t] = "run" /\ ~ result[t]
Has(t) == Owns(t) \/ Scanning(t) \/ Ending(t)

(* Where the iterator of BlockingQueue::resume stands.                     *)
Cursor(t) == IF scan[t].i <= Len(queue[Mtx]) THEN queue[Mtx][scan[t].i] ELSE Fence

MutexTypeOK ==
  /\ owner \in Thread \cup {Nobody, Fence}
  /\ counter \in Nat
  /\ call \in [Thread -> AcquireCalls \cup WaitCalls \cup {"none", "won", "held", "passing"}]
  /\ calls \in [Thread -> Nat]

(* Where a thread is inside the blocking core tells which call it is in;   *)
(* nobody cancels, and nobody sleeps.                                      *)
CallsInv ==
  \A t \in Thread :
    /\ state[t] = "Running"
    /\ pc[t] \in {"run", "timed", "check", "store", "switch", "off", "on", "scan", "erase", "wake"}
    /\ pc[t] \in {"timed", "check", "store", "switch", "off", "on"} =>
         call[t] \in WaitCalls /\ info[t].q = Mtx
    /\ pc[t] \in {"scan", "erase", "wake"} => call[t] = "passing"
    /\ pc[t] = "erase" => cause[t] = "event"
    /\ IF pc[t] = "scan" THEN scan[t].q = Mtx ELSE scan[t].q # Mtx
    /\ pc[t] \in {"timed", "check", "store"} \/ unblockInfo[t] => ~ info[t].timedOut
    /\ call[t] # "none" => calls[t] > 0

(* One thread has the mutex.  owner names it, except during the scan, when *)
(* owner is the iterator, and when the scan has come to the end of the     *)
(* list.  Whoever has been claimed by a release has been given the mutex.  *)
OwnerInv ==
  /\ \A t, u \in Thread : Has(t) /\ Has(u) => t = u
  /\ \A t \in Thread : Owns(t) => owner = t
  /\ \A t \in Thread : Scanning(t) => owner = Cursor(t)
  /\ \A t \in Thread : Ending(t) => owner = Fence /\ lock[MtxLock] = t
  /\ owner \in Thread => Owns(owner) \/ \E u \in Thread : Scanning(u)
  /\ \A t \in Thread : pc[t] \in {"erase", "wake"} => Granted(victim[t])

(* The recursion count is that of the thread that holds the mutex.         *)
CounterInv ==
  Recursive =>
    /\ \A t \in Thread : Has(t) /\ call[t] # "held" => counter = 0
    /\ \A t \in Thread : call[t] = "held" => counter \in 1 .. calls[t]
    /\ owner = Nobody => counter = 0

MutexInv == MutexTypeOK /\ CallsInv /\ OwnerInv /\ CounterInv
=============================================================================
