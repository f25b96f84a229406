----------------------------- MODULE Semaphore ------------------------------
(***************************************************************************)
(* Semaphore of runtime/BlockingSync.h: a counter, a lock and a blocking   *)
(* queue.  V passes the token on to a waiter it can still claim (baton     *)
(* passing) and increments the counter only when there is none.            *)
(*                                                                         *)
(* Every step is a step of BlockingSync, conjoined with what the semaphore *)
(* code does before or after it.                                           *)
(***************************************************************************)
EXTENDS BlockingSync

CONSTANTS
  Sem,        \* the semaphore's queue
  Tokens,     \* initial value of the counter
  MaxCalls    \* bound: how many calls each thread makes

ASSUME SemaphoreAssumption ==
  /\ IsFiniteSet(Thread)
  /\ Sem \in Queue
  /\ Tokens \in Nat
  /\ MaxCalls \in Nat

VARIABLES
  counter,    \* Semaphore::counter
  call,       \* the call a thread is in
  calls       \* how many calls it has made

svars == <<counter, call, calls>>
allVars == <<vars, svars>>

SemLock == LockOf[Sem]
Calls == {"P", "tryP", "timedP", "V"}

SemInit ==
  /\ Init
  /\ counter = Tokens
  /\ call = [t \in Thread |-> "none"]
  /\ calls = [t \in Thread |-> 0]

Become(t, c) == call' = [call EXCEPT ![t] = c]

(* P, tryP(0), tryP(t) and V all start with lock.acquire().                *)
Enter(t, c) ==
  /\ call[t] = "none"
  /\ calls[t] < MaxCalls
  /\ HoldsNone(t)
  /\ Acquire(t, SemLock)
  /\ Become(t, c)
  /\ calls' = [calls EXCEPT ![t] = @ + 1]
  /\ UNCHANGED counter

(* internalP: take a token ...                                             *)
PTake(t) ==
  /\ call[t] \in {"P", "tryP", "timedP"}
  /\ Holds(t, SemLock)
  /\ ~ (counter < 1)
  /\ counter' = counter - 1
  /\ Release(t, SemLock)
  /\ Become(t, "none")
  /\ UNCHANGED calls

(* ... or bq.block(lock, timeout).                                         *)
PBlock(t) ==
  /\ call[t] \in {"P", "tryP", "timedP"}
  /\ Holds(t, SemLock)
  /\ counter < 1
  /\ \/ call[t] = "P" /\ Block(t, Sem, FALSE) /\ Become(t, "waitP")
     \/ call[t] = "timedP" /\ Block(t, Sem, TRUE) /\ Become(t, "waitTimedP")
     \/ call[t] = "tryP" /\ BlockNot(t, Sem) /\ Become(t, "none")
  /\ UNCHANGED <<counter, calls>>

(* block returned; its result is the result of P.                          *)
PReturn(t) ==
  /\ call[t] \in {"waitP", "waitTimedP"}
  /\ pc[t] = "run"
  /\ Become(t, "none")
  /\ UNCHANGED <<vars, counter, calls>>

VResume(t) ==
  /\ call[t] = "V"
  /\ Resume(t, Sem)
  /\ Become(t, "posting")
  /\ UNCHANGED <<counter, calls>>

(* bq.resume(lock) returned false: the baton is not passed.                *)
VIncrement(t) ==
  /\ call[t] = "posting"
  /\ ~ result[t]
  /\ Release(t, SemLock)
  /\ counter' = counter + 1
  /\ Become(t, "none")
  /\ UNCHANGED calls

VReturn(t) ==
  /\ call[t] = "posting"
  /\ pc[t] = "run"
  /\ result[t]
  /\ Become(t, "none")
  /\ UNCHANGED <<vars, counter, calls>>

(* Process::exit, as far as the semaphore's waiters are concerned: cancel  *)
(* other threads with threadLock held.                                     *)
CancelCall(t) ==
  \/ /\ call[t] = "none"
     /\ calls[t] < MaxCalls
     /\ Cancellable # {}
     /\ HoldsNone(t)
     /\ Acquire(t, ThreadLock)
     /\ Become(t, "cancel")
     /\ calls' = [calls EXCEPT ![t] = @ + 1]
     /\ UNCHANGED counter
  \/ /\ call[t] = "cancel"
     /\ \E v \in Thread : state[v] = "Running" /\ Cancel(t, v)
     /\ UNCHANGED svars
  \/ /\ call[t] = "cancel"
     /\ \A v \in Cancellable \ {t} : state[v] # "Running"
     /\ Release(t, ThreadLock)
     /\ Become(t, "none")
     /\ UNCHANGED <<counter, calls>>

CoreStep == (ClockStep \/ \E t \in Thread : Step(t)) /\ UNCHANGED svars

ThreadStep(t) ==
  \/ PTake(t) \/ PBlock(t) \/ PReturn(t)
  \/ VResume(t) \/ VIncrement(t) \/ VReturn(t)

SemNext ==
  \/ CoreStep
  \/ \E t \in Thread, c \in Calls : Enter(t, c)
  \/ \E t \in Thread : ThreadStep(t) \/ CancelCall(t)

SemSpec == SemInit /\ [][SemNext]_allVars

-----------------------------------------------------------------------------
(* A thread that a V has claimed, whether or not it has been resumed yet.  *)
Granted(t) ==
  /\ call[t] \in {"waitP", "waitTimedP"}
  /\ \/ /\ pc[t] \in {"switch", "off", "on"}
        /\ ~ unblockInfo[t]
        /\ ~ info[t].timedOut
        /\ t \notin ToSet(queue[Sem])
     \/ pc[t] = "run" /\ result[t]

GrantedThreads == {t \in Thread : Granted(t)}

(* The semaphore as its callers see it: a token that has been passed to a  *)
(* waiter is available to that waiter until its P returns; V has happened  *)
(* once it has claimed a waiter or incremented the counter.                *)
absTokens == counter + Cardinality(GrantedThreads)

(* p, c and r are pc, call and result of a thread.                         *)
AbsOf(p, c, r) ==
  IF p \in {"exit", "gone", "leaked"} THEN "dead"
  ELSE CASE c \in {"P", "waitP"} -> "P"
         [] c \in {"tryP", "timedP", "waitTimedP"} -> "tryP"
         [] c = "V" -> "V"
         [] c = "posting" ->
              IF p \in {"erase", "wake"} \/ (p = "run" /\ r) THEN "posted" ELSE "V"
         [] c \in {"none", "cancel"} -> "none"
AbsCall(t) == AbsOf(pc[t], call[t], result[t])
absCall == [t \in Thread |-> AbsCall(t)]

Abs == INSTANCE SemaphoreSpec WITH tokens <- absTokens, call <- absCall

(* P, tryP and V implement the abstract semaphore: no token is lost or     *)
(* duplicated by baton passing, by a timeout that races a V, or by waiters *)
(* that V skips; a P that returns false has taken nothing; a token is lost *)
(* only together with the cancelled thread it was passed to.               *)
ImplementsSemaphore == Abs!Spec

(* No lost wake-up: while the lock is free, tokens and waiters that could  *)
(* still be given one do not coexist.                                      *)
NoIdleToken ==
  lock[SemLock] = Nobody /\ counter > 0 =>
    \A t \in ToSet(queue[Sem]) : ~ unblockInfo[t]

-----------------------------------------------------------------------------
(***************************************************************************)
(* The inductive invariant: with those of the blocking core it gives       *)
(* NoIdleToken and the refinement.                                         *)
(***************************************************************************)
Waits == {"waitP", "waitTimedP"}
NoneToWake == \A u \in ToSet(queue[Sem]) : ~ unblockInfo[u]

SemTypeOK ==
  /\ counter \in Nat
  /\ call \in [Thread -> Calls \cup Waits \cup {"none", "posting", "cancel"}]
  /\ calls \in [Thread -> Nat]

(* Where a thread is inside the blocking core tells which call it is in.   *)
CallsInv ==
  \A t \in Thread :
    /\ pc[t] # "sleep"
    /\ pc[t] \in {"timed", "check", "store", "switch", "off", "on"} =>
         /\ call[t] \in Waits
         /\ info[t].q = Sem
         /\ call[t] = "waitP" => ~ info[t].timed
    /\ pc[t] = "scan" => call[t] = "posting" /\ scan[t].q = Sem
    /\ pc[t] \in {"claim", "remove"} => call[t] = "cancel"
    /\ pc[t] = "erase" => call[t] = IF cause[t] = "event" THEN "posting" ELSE "cancel"
    /\ pc[t] = "wake" => call[t] \in {"posting", "cancel"}

(* Tokens are put into the counter only when no waiter could take one, and *)
(* a waiter enters the queue only when there is none: the semaphore's lock *)
(* is held from the test to the entry, and from the scan to the increment. *)
TokensInv ==
  /\ counter > 0 => NoneToWake
  /\ \A t \in Thread :
       /\ pc[t] \in {"timed", "check", "store", "switch"} => counter = 0
       /\ pc[t] = "scan" => \A i \in 1 .. Len(queue[Sem]) :
                              i < scan[t].i => ~ unblockInfo[queue[Sem][i]]
       /\ call[t] = "posting" /\ pc[t] = "run" /\ ~ result[t] =>
            lock[SemLock] = t /\ NoneToWake

(* Who may find that its wait ended without a token: only a thread with a  *)
(* time limit or one that may be cancelled.                                *)
GiveUpInv ==
  /\ \A t \in Thread :
       /\ state[t] = "Cancelled" => t \in Cancellable
       /\ pc[t] \in {"claim", "remove"} \/ (pc[t] = "erase" /\ cause[t] # "event") =>
            victim[t] \in Cancellable
       /\ pc[t] \in {"timed", "check", "store"} \/ unblockInfo[t] => ~ info[t].timedOut
       /\ pc[t] \in {"switch", "off", "on"} /\ call[t] = "waitP" /\ info[t].timedOut =>
            t \in Cancellable
       /\ pc[t] = "run" /\ call[t] = "waitP" /\ ~ result[t] => t \in Cancellable
  /\ pc[Clock] = "remove" => info[victim[Clock]].timed

SemInv == SemTypeOK /\ CallsInv /\ TokensInv /\ GiveUpInv
=============================================================================
