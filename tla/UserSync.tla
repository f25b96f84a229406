------------------------------ MODULE UserSync ------------------------------
(***************************************************************************)
(* The locks of user programs: Benaphore of include/pthread.h, the pthread *)
(* mutex and condition of ulib/pthread.cc on top of it, and the semaphore  *)
(* system calls of kernel/syscalls.cc that it falls back to, for a program *)
(* whose lockers destroy the mutex when they have no use for it any more.  *)
(*                                                                         *)
(* A kernel semaphore is what SemaphoreSpec promises, in two steps: the    *)
(* table's lock is handed over to the semaphore's lock, then P or V runs.  *)
(* pthread_cond_wait keeps the mutex while it waits, so that the threads   *)
(* that signal take no mutex.                                              *)
(***************************************************************************)
EXTENDS Integers, Sequences, FiniteSets

CONSTANTS
  Locker,     \* threads that lock, try, wait and unlock
  Signaller,  \* threads that signal and broadcast
  MaxRound    \* bound: locks that each locker takes or tries

ASSUME UserAssumption ==
  MaxRound \in Nat /\ Locker \cap Signaller = {} /\ IsFiniteSet(Locker) /\ IsFiniteSet(Signaller)

User == Locker \cup Signaller
Ben == {"mutex", "cond"}

VARIABLES
  benCount,    \* Benaphore::counter
  sem,        \* the kernel semaphore kSem: valid, count, queue
  uat,        \* where a thread is
  on,         \* the benaphore that its call is about
  round,      \* locks tried by a locker
  bcast,      \* the signaller is in pthread_cond_broadcast
  stray       \* history: a V came between the two steps of a failing tryP

userVars == <<benCount, sem, uat, on, round, bcast, stray>>

(* pthread_mutex_init, pthread_cond_init: counters 1 and 0, and a kernel   *)
(* semaphore each.                                                         *)
UserInit ==
  /\ benCount = [b \in Ben |-> IF b = "mutex" THEN 1 ELSE 0]
  /\ sem = [b \in Ben |-> [valid |-> TRUE, count |-> 0, queue |-> <<>>]]
  /\ uat = [t \in User |-> "out"]
  /\ on = [t \in User |-> "mutex"]
  /\ round = [t \in Locker |-> 0]
  /\ bcast = [t \in Signaller |-> FALSE]
  /\ stray = FALSE

Move(t, l) == uat' = [uat EXCEPT ![t] = l]
Call(t, b) == on' = [on EXCEPT ![t] = b]

(* Where a call that has got through, or is over, leads.                   *)
Back(t) == IF t \in Locker THEN (IF on[t] = "mutex" /\ uat[t] \in {"inV", "semV"} THEN "out" ELSE "in")
           ELSE IF bcast[t] THEN "test" ELSE "out"

-----------------------------------------------------------------------------
(* Mutants.                                                                *)

VBelowZero(b) == benCount[b] + 1 >= 0

-----------------------------------------------------------------------------
(* Benaphore::P: pthread_mutex_lock, and pthread_cond_wait in the mutex.   *)
BenP(t, b) ==
  /\ benCount' = [benCount EXCEPT ![b] = @ - 1]
  /\ Move(t, IF benCount[b] >= 1 THEN "in" ELSE "semP")
  /\ Call(t, b)

MutexLock(t) ==
  /\ uat[t] = "out" /\ round[t] < MaxRound
  /\ round' = [round EXCEPT ![t] = @ + 1]
  /\ BenP(t, "mutex")
  /\ UNCHANGED <<sem, bcast, stray>>

CondWait(t) ==
  /\ uat[t] = "in"
  /\ BenP(t, "cond")
  /\ UNCHANGED <<sem, round, bcast, stray>>

(* Benaphore::tryP, in two steps when it fails: pthread_mutex_trylock.     *)
TryLock(t) ==
  /\ uat[t] = "out" /\ round[t] < MaxRound
  /\ round' = [round EXCEPT ![t] = @ + 1]
  /\ benCount' = [benCount EXCEPT !["mutex"] = @ - 1]
  /\ Move(t, IF benCount["mutex"] >= 1 THEN "in" ELSE "undo")
  /\ Call(t, "mutex")
  /\ UNCHANGED <<sem, bcast, stray>>

TryUndo(t) ==
  /\ uat[t] = "undo"
  /\ benCount' = [benCount EXCEPT !["mutex"] = @ + 1]
  /\ Move(t, "out")
  /\ UNCHANGED <<sem, on, round, bcast, stray>>

(* Benaphore::V: a post is due if somebody waits.                          *)
NoPost(b) == benCount[b] + 1 >= 1

BenV(t, b, home) ==
  /\ benCount' = [benCount EXCEPT ![b] = @ + 1]
  /\ Move(t, IF NoPost(b) THEN home ELSE "semV")
  /\ Call(t, b)
  /\ stray' = (stray \/ (b = "mutex" /\ \E u \in User : uat[u] = "undo"))

MutexUnlock(t) ==
  /\ uat[t] = "in"
  /\ BenV(t, "mutex", "out")
  /\ UNCHANGED <<sem, round, bcast>>

(* pthread_cond_signal and pthread_cond_broadcast test, then V.            *)
Signal(t, all) ==
  /\ uat[t] = "out"
  /\ bcast' = [bcast EXCEPT ![t] = all]
  /\ Move(t, "test")
  /\ UNCHANGED <<benCount, sem, on, round, stray>>

SignalTest(t) ==
  /\ uat[t] = "test"
  /\ Move(t, IF benCount["cond"] < 0 THEN "sig" ELSE "out")
  /\ UNCHANGED <<benCount, sem, on, round, bcast, stray>>

SignalV(t) ==
  /\ uat[t] = "sig"
  /\ BenV(t, "cond", IF bcast[t] THEN "test" ELSE "out")
  /\ UNCHANGED <<sem, round, bcast>>

-----------------------------------------------------------------------------
(* The system calls.                                                       *)

Locked(b) == \E u \in User : on[u] = b /\ uat[u] \in {"inP", "inV"}

(* semP, semV: under semStoreLock, an invalid handle is an error, which    *)
(* Benaphore ignores; else the lock of the semaphore is taken and          *)
(* semStoreLock released.                                                  *)
SemEnter(t) ==
  /\ uat[t] \in {"semP", "semV"}
  /\ IF sem[on[t]].valid
     THEN ~Locked(on[t]) /\ Move(t, IF uat[t] = "semP" THEN "inP" ELSE "inV")
     ELSE Move(t, Back(t))
  /\ UNCHANGED <<benCount, sem, on, round, bcast, stray>>

(* Semaphore::P: a token, or the queue.                                    *)
SemP(t) ==
  /\ uat[t] = "inP"
  /\ LET s == sem[on[t]] IN
       IF s.count >= 1
       THEN sem' = [sem EXCEPT ![on[t]].count = @ - 1] /\ Move(t, Back(t))
       ELSE sem' = [sem EXCEPT ![on[t]].queue = Append(@, t)] /\ Move(t, "blocked")
  /\ UNCHANGED <<benCount, on, round, bcast, stray>>

(* Semaphore::V: the first in the queue, or a token.                       *)
Posted(s) == IF s.queue # <<>> THEN [s EXCEPT !.queue = Tail(@)] ELSE [s EXCEPT !.count = @ + 1]

SemV(t) ==
  /\ uat[t] = "inV"
  /\ LET s == sem[on[t]] IN
       /\ sem' = [sem EXCEPT ![on[t]] = Posted(s)]
       /\ uat' = [u \in User |-> IF u = t THEN Back(t)
                                 ELSE IF s.queue # <<>> /\ Posted(s).queue # s.queue /\ u = Head(s.queue)
                                      THEN Back(u) ELSE uat[u]]
  /\ UNCHANGED <<benCount, on, round, bcast, stray>>

(* The other lockers have no use for the mutex: they have returned from    *)
(* their last call, or are in the unlock that ends it.                     *)
LastUser(t) == \A u \in Locker \ {t} : round[u] = MaxRound /\ uat[u] \in {"out", "semV", "inV"}

(* pthread_mutex_destroy, semDestroy: refused while a thread is queued.    *)
MutexDestroy(t) ==
  /\ uat[t] = "out" /\ round[t] = MaxRound /\ LastUser(t)
  /\ sem["mutex"].valid /\ sem["mutex"].queue = <<>>
  /\ sem' = [sem EXCEPT !["mutex"].valid = FALSE]
  /\ UNCHANGED <<benCount, uat, on, round, bcast, stray>>

UserStep(t) == TryUndo(t) \/ SignalTest(t) \/ SignalV(t) \/ SemEnter(t) \/ SemP(t) \/ SemV(t)

UserNext ==
  \/ \E t \in Locker : MutexLock(t) \/ TryLock(t) \/ CondWait(t) \/ MutexUnlock(t) \/ MutexDestroy(t)
  \/ \E t \in Signaller : \E all \in BOOLEAN : Signal(t, all)
  \/ \E t \in User : UserStep(t)

UserSpec == UserInit /\ [][UserNext]_userVars

-----------------------------------------------------------------------------
(* The thread in the mutex, which may wait on the condition; threads that  *)
(* have counted themselves as waiting, and the posts on their way to them; *)
(* failing tryPs.                                                          *)
Holders == {t \in Locker : uat[t] = "in" \/ on[t] = "cond"}
Waiters(b) == {t \in User : on[t] = b /\ uat[t] \in {"semP", "inP", "blocked"}}
Posters(b) == {t \in User : on[t] = b /\ uat[t] \in {"semV", "inV"}}
Undoers(b) == {t \in User : on[t] = b /\ uat[t] = "undo"}
Posts(b) == sem[b].count + Cardinality(Posters(b))

(* The mutex excludes, and no wakeup of mutex or condition is lost or      *)
(* invented: those who wait without a post are as many as the counter is    *)
(* below zero.  Only a V within a failing tryP (pthread.h lines 26-30) can *)
(* break it: the count that tryP is about to take back is taken for a      *)
(* waiter's, and the stray post lets two threads in later.                 *)
BenSound ==
  ~stray =>
    /\ Cardinality(Holders) <= 1
    /\ \A b \in Ben :
         LET c == benCount[b] + Cardinality(Undoers(b))
         IN  Cardinality(Waiters(b)) - Posts(b) = IF c < 0 THEN -c ELSE 0

(* The thread that was the last to hold the mutex may destroy it at once,  *)
(* though another thread's unlock may still be on its way through semV:    *)
(* no system call works on the semaphore afterwards (syscalls.cc lines     *)
(* 181-205).                                                               *)
SemAlive ==
  ~stray =>
    \A t \in User : uat[t] \in {"semP", "inP", "blocked", "semV", "inV"} => sem[on[t]].valid

(* The counter of a benaphore and the kernel semaphore behind it account for *)
(* everyone inside and waiting, and no call meets a semaphore that has been *)
(* destroyed (pthread.h, pthread.cc, syscalls.cc semDestroy).              *)
UserSyncSound == BenSound /\ SemAlive

-----------------------------------------------------------------------------
(***************************************************************************)
(* The inductive invariant.                                                *)
(***************************************************************************)
LockerAt == {"out", "in", "undo", "semP", "inP", "blocked", "semV", "inV"}
SignallerAt == {"out", "test", "sig", "semV", "inV"}

UserTypeOK ==
  /\ benCount \in [Ben -> Int]
  /\ sem \in [Ben -> [valid : BOOLEAN, count : Nat, queue : Seq(User)]] /\ sem["cond"].valid
  /\ uat \in [User -> LockerAt \cup SignallerAt] /\ on \in [User -> Ben]
  /\ round \in [Locker -> 0..MaxRound] /\ bcast \in [Signaller -> BOOLEAN] /\ stray \in BOOLEAN

(* A locker waits on the condition inside the mutex; signallers know only  *)
(* the condition.                                                          *)
UserPlaces ==
  /\ \A t \in Locker : /\ uat[t] \in LockerAt
                       /\ on[t] = "cond" => uat[t] \in {"in", "semP", "inP", "blocked"}
  /\ \A t \in Signaller : /\ uat[t] \in SignallerAt
                          /\ uat[t] \in {"semV", "inV"} => on[t] = "cond"

QueuesTrue ==
  \A b \in Ben :
    /\ \A t \in User : on[t] = b /\ uat[t] = "blocked" <=> \E i \in DOMAIN sem[b].queue : sem[b].queue[i] = t
    /\ \A i, j \in DOMAIN sem[b].queue : sem[b].queue[i] = sem[b].queue[j] => i = j

(* The mutex, or a post that is about to hand it to a waiter, is with one  *)
(* thread; without both nobody waits and nobody fails.                     *)
MutexCounted ==
  LET held == Cardinality(Holders)
      waiting == Cardinality(Waiters("mutex"))
      undoing == Cardinality(Undoers("mutex"))
  IN /\ held + Posts("mutex") <= 1 /\ Posts("mutex") <= waiting
     /\ held + Posts("mutex") = 0 => waiting = 0 /\ undoing = 0
     /\ benCount["mutex"] = 1 - held - waiting - undoing

CondCounted ==
  Cardinality(Waiters("cond")) - Posts("cond") = IF benCount["cond"] < 0 THEN -benCount["cond"] ELSE 0

(* The mutex is destroyed when no locker will come again.                  *)
DestroyedLast == ~sem["mutex"].valid => \A t \in Locker : uat[t] = "out" /\ round[t] = MaxRound

UserInv ==
  /\ UserTypeOK /\ UserPlaces /\ QueuesTrue
  /\ ~stray => MutexCounted /\ CondCounted /\ DestroyedLast

=============================================================================
