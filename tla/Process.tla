------------------------------- MODULE Process ------------------------------
(***************************************************************************)
(* The threads of a user process: creation, join, exit of a thread and of  *)
(* the process, and the destruction of the process with its last thread    *)
(* (kernel/Process.cc, runtime/JoinableThread.h).                          *)
(*                                                                         *)
(* threadLock protects the thread table and is at the same time the lock   *)
(* of every thread's join condition.  A thread that exits hands its result *)
(* to the joining thread through a pointer into the stack of whichever of  *)
(* the two comes first and waits.                                          *)
(***************************************************************************)
EXTENDS BlockingSync

CONSTANTS
  First,      \* the thread that exec creates
  JoinQueue,  \* JoinQueue[u] is the queue of JoinableThread::wait of u
  Exiters,    \* the threads that may call Process::exit
  MaxJoins    \* bound: how many joins each thread makes

ASSUME ProcessAssumption ==
  /\ First \in Thread
  /\ JoinQueue \in [Thread -> Queue]
  /\ \A t, u \in Thread : t # u => JoinQueue[t] # JoinQueue[u]
  /\ \A t \in Thread : LockOf[JoinQueue[t]] = ThreadLock
  /\ Exiters \subseteq Thread
  /\ MaxJoins \in Nat
  /\ IsFiniteSet(Thread)

VARIABLES
  threadStore,      \* the threads in the thread table
  activeThreads,
  existingThreads,
  joining,          \* JoinableThread::jState = Joining
  resultPtr,        \* JoinableThread::result: whose stack it points to
  got,              \* the result in the joiner's stack frame, named by its author
  call,             \* the call a thread is in
  target,           \* the thread it creates or joins
  toCancel,         \* what is left of exit's loop
  joins,            \* how many joins it has made
  deleted           \* delete this

tableVars == <<threadStore, activeThreads, existingThreads, deleted>>
joinVars == <<joining, resultPtr, got>>
callVars == <<call, target, toCancel, joins>>
pvars == <<tableVars, joinVars, callVars>>
allVars == <<vars, pvars>>

(* The calls of a running thread; "unborn" is a thread object not created, *)
(* "fresh" one that has been set up but not resumed for the first time.    *)
Stage == {"unborn", "fresh", "none", "created", "join", "joining", "signal",
          "exitThread", "posting", "posted", "exit", "exited", "die"}

ProcInit ==
  /\ Init
  /\ threadStore = {First}
  /\ activeThreads = 1
  /\ existingThreads = 1
  /\ joining = [t \in Thread |-> FALSE]
  /\ resultPtr = [t \in Thread |-> Nobody]
  /\ got = [t \in Thread |-> Nobody]
  /\ call = [t \in Thread |-> IF t = First THEN "none" ELSE "unborn"]
  /\ target = [t \in Thread |-> Nobody]
  /\ toCancel = [t \in Thread |-> {}]
  /\ joins = [t \in Thread |-> 0]
  /\ deleted = FALSE

Become(t, c) == call' = [call EXCEPT ![t] = c]
Waiters(u) == queue[JoinQueue[u]]

(***************************************************************************)
(* Mutants.                                                                *)
(***************************************************************************)

(* join does not mark the thread as being joined.                          *)
JoinWaitUnmarked(t) ==
  LET u == target[t] IN
  /\ call[t] = "join"
  /\ Holds(t, ThreadLock)
  /\ u \in threadStore
  /\ ~ joining[u]
  /\ Waiters(u) = <<>>
  /\ resultPtr' = [resultPtr EXCEPT ![u] = t]
  /\ Block(t, JoinQueue[u], FALSE)
  /\ Become(t, "joining")
  /\ UNCHANGED <<tableVars, joining, got, target, toCancel, joins>>

(* The process is deleted with the last active instead of existing thread. *)
DestroyActive(t) ==
  /\ pc[t] = "exit"
  /\ state[t] = "Finishing" => t \notin threadStore
  /\ Exit(t)
  /\ IF state[t] = "Finishing"
     THEN /\ existingThreads' = existingThreads - 1
          /\ deleted' = (activeThreads = 0)
     ELSE UNCHANGED <<existingThreads, deleted>>
  /\ UNCHANGED <<threadStore, activeThreads, joinVars, callVars>>

-----------------------------------------------------------------------------
(* createThread: setupThread, a short critical section, enters the thread  *)
(* into the table; then the thread is resumed.                             *)
SetupThread(t, u) ==
  /\ pc[t] = "run" /\ call[t] = "none" /\ call[u] = "unborn"
  /\ HoldsNone(t)
  /\ lock[ThreadLock] = Nobody
  /\ threadStore' = threadStore \cup {u}
  /\ existingThreads' = existingThreads + 1
  /\ activeThreads' = activeThreads + 1
  /\ call' = [call EXCEPT ![t] = "created", ![u] = "fresh"]
  /\ target' = [target EXCEPT ![t] = u]
  /\ UNCHANGED <<vars, deleted, joinVars, toCancel, joins>>

ResumeNew(t) ==
  /\ pc[t] = "run" /\ call[t] = "created"
  /\ call' = [call EXCEPT ![t] = "none", ![target[t]] = "none"]
  /\ UNCHANGED <<vars, tableVars, joinVars, target, toCancel, joins>>

(* joinThread.                                                             *)
JoinThread(t, u) ==
  /\ call[t] = "none"
  /\ t # u
  /\ call[u] # "unborn"
  /\ joins[t] < MaxJoins
  /\ HoldsNone(t)
  /\ Acquire(t, ThreadLock)
  /\ Become(t, "join")
  /\ target' = [target EXCEPT ![t] = u]
  /\ joins' = [joins EXCEPT ![t] = @ + 1]
  /\ UNCHANGED <<tableVars, joinVars, toCancel>>

(* ESRCH or EINVAL.                                                        *)
JoinRefused(t) ==
  /\ call[t] = "join"
  /\ target[t] \notin threadStore \/ joining[target[t]]
  /\ Release(t, ThreadLock)
  /\ Become(t, "none")
  /\ UNCHANGED <<tableVars, joinVars, target, toCancel, joins>>

(* JoinableThread::join: wait for the result ...                           *)
JoinWait(t) ==
  LET u == target[t] IN
  /\ call[t] = "join"
  /\ u \in threadStore
  /\ ~ joining[u]
  /\ Waiters(u) = <<>>
  /\ joining' = [joining EXCEPT ![u] = TRUE]
  /\ resultPtr' = [resultPtr EXCEPT ![u] = t]
  /\ Block(t, JoinQueue[u], FALSE)
  /\ Become(t, "joining")
  /\ UNCHANGED <<tableVars, got, target, toCancel, joins>>

(* ... or fetch it from the stack of the waiting thread and wake it up.    *)
JoinTake(t) ==
  LET u == target[t] IN
  /\ call[t] = "join"
  /\ u \in threadStore
  /\ ~ joining[u]
  /\ Waiters(u) # <<>>
  /\ joining' = [joining EXCEPT ![u] = TRUE]
  /\ got' = [got EXCEPT ![t] = resultPtr[u]]
  /\ Resume(t, JoinQueue[u])
  /\ Become(t, "signal")
  /\ UNCHANGED <<tableVars, resultPtr, target, toCancel, joins>>

Joined(t) ==
  /\ call[t] = "joining"
  /\ pc[t] = "run"
  /\ Become(t, "none")
  /\ UNCHANGED <<vars, tableVars, joinVars, target, toCancel, joins>>

(* exitThread; its user stack is released first (module AddressSpace).     *)
ExitThread(t) ==
  /\ call[t] = "none"
  /\ HoldsNone(t)
  /\ Acquire(t, ThreadLock)
  /\ activeThreads' = activeThreads - 1
  /\ Become(t, "exitThread")
  /\ UNCHANGED <<threadStore, existingThreads, deleted, joinVars, target, toCancel, joins>>

(* The last active thread has nobody to post its result to.                *)
PostNot(t) ==
  /\ call[t] = "exitThread"
  /\ activeThreads = 0
  /\ Release(t, ThreadLock)
  /\ Become(t, "die")
  /\ UNCHANGED <<tableVars, joinVars, target, toCancel, joins>>

(* JoinableThread::post: wait until the result has been fetched ...        *)
PostWait(t) ==
  /\ call[t] = "exitThread"
  /\ activeThreads > 0
  /\ Waiters(t) = <<>>
  /\ resultPtr' = [resultPtr EXCEPT ![t] = t]
  /\ Block(t, JoinQueue[t], FALSE)
  /\ Become(t, "posting")
  /\ UNCHANGED <<tableVars, joining, got, target, toCancel, joins>>

(* ... or store it in the stack of the joining thread and wake it up.      *)
PostGive(t) ==
  /\ call[t] = "exitThread"
  /\ activeThreads > 0
  /\ Waiters(t) # <<>>
  /\ got' = [got EXCEPT ![resultPtr[t]] = t]
  /\ Resume(t, JoinQueue[t])
  /\ Become(t, "posted")
  /\ UNCHANGED <<tableVars, joining, resultPtr, target, toCancel, joins>>

Posted(t) ==
  /\ call[t] = "posting"
  /\ pc[t] = "run"
  /\ Become(t, "die")
  /\ UNCHANGED <<vars, tableVars, joinVars, target, toCancel, joins>>

AfterSignal(t) == IF call[t] = "signal" THEN "none" ELSE "die"

(* BasicCondition::signal: resume has released the lock if it has found a  *)
(* waiter.                                                                 *)
Signalled(t) ==
  /\ call[t] \in {"signal", "posted"}
  /\ pc[t] = "run"
  /\ lock' = IF result[t] THEN lock ELSE [lock EXCEPT ![ThreadLock] = Nobody]
  /\ Become(t, AfterSignal(t))
  /\ UNCHANGED <<pc, state, result, ready, waitVars, unblockVars>>
  /\ UNCHANGED <<tableVars, joinVars, target, toCancel, joins>>

(* Process::exit cancels every other thread in the table, one by one.      *)
ExitProcess(t) ==
  /\ t \in Exiters
  /\ call[t] = "none"
  /\ HoldsNone(t)
  /\ Acquire(t, ThreadLock)
  /\ Become(t, "exit")
  /\ toCancel' = [toCancel EXCEPT ![t] = threadStore \ {t}]
  /\ UNCHANGED <<tableVars, joinVars, target, joins>>

ExitCancel(t, v) ==
  /\ call[t] = "exit"
  /\ v \in toCancel[t]
  /\ Cancel(t, v)
  /\ toCancel' = [toCancel EXCEPT ![t] = @ \ {v}]
  /\ UNCHANGED <<tableVars, joinVars, call, target, joins>>

ExitCancelled(t) ==
  /\ call[t] = "exit"
  /\ toCancel[t] = {}
  /\ Release(t, ThreadLock)
  /\ Become(t, "exited")
  /\ UNCHANGED <<tableVars, joinVars, target, toCancel, joins>>

Die(t) ==
  /\ call[t] \in {"die", "exited"}
  /\ Terminate(t)
  /\ UNCHANGED pvars

(* preThreadSwitch: a thread that finishes leaves the table.  When it was  *)
(* the last one the user memory is released (Paging::clear).  finishing()  *)
(* is read before threadLock is taken: a thread whose state Process::exit  *)
(* overwrites meanwhile leaves the table or does not.                      *)
LeaveTable(t) ==
  /\ pc[t] = "exit"
  /\ t \in threadStore
  /\ lock[ThreadLock] = Nobody
  /\ threadStore' = threadStore \ {t}
  /\ UNCHANGED <<vars, activeThreads, existingThreads, deleted, joinVars, callVars>>

(* postThreadDestroy, by the next thread on the CPU: the last existing     *)
(* thread takes the process with it.                                       *)
Destroy(t) ==
  /\ pc[t] = "exit"
  /\ state[t] = "Finishing" => t \notin threadStore
  /\ Exit(t)
  /\ IF state[t] = "Finishing"
     THEN /\ existingThreads' = existingThreads - 1
          /\ deleted' = (existingThreads = 1)
     ELSE UNCHANGED <<existingThreads, deleted>>
  /\ UNCHANGED <<threadStore, activeThreads, joinVars, callVars>>

CoreStep(t) ==
  /\ call[t] \notin {"unborn", "fresh"}
  /\ pc[t] # "exit"
  /\ Step(t)
  /\ UNCHANGED pvars

ThreadStep(t) ==
  \/ ResumeNew(t) \/ JoinRefused(t) \/ JoinWait(t) \/ JoinTake(t) \/ Joined(t)
  \/ PostNot(t) \/ PostWait(t) \/ PostGive(t) \/ Posted(t)
  \/ Signalled(t)
  \/ (\E v \in Thread : ExitCancel(t, v)) \/ ExitCancelled(t)
  \/ Die(t) \/ LeaveTable(t) \/ Destroy(t)

ProcNext ==
  \E t \in Thread :
    \/ CoreStep(t) \/ ThreadStep(t)
    \/ \E u \in Thread : SetupThread(t, u) \/ JoinThread(t, u)
    \/ ExitThread(t) \/ ExitProcess(t)

ProcSpec == ProcInit /\ [][ProcNext]_allVars

(* CPUs make progress, and every thread comes to its end.  No strong       *)
(* fairness is needed: the calls are finitely many.                        *)
ProcFairSpec ==
  /\ ProcSpec
  /\ \A t \in Thread :
       WF_allVars(CoreStep(t) \/ ThreadStep(t)) /\ WF_allVars(ExitThread(t))

-----------------------------------------------------------------------------
(* The stack frame that JoinableThread::result points to is alive whenever *)
(* the other side may use it: the queue holds exactly the thread whose     *)
(* frame it is, and that thread waits.  The other side's signal reaches    *)
(* it: nobody else can claim the waiter in between.                        *)
ResultAlive ==
  /\ \A u \in Thread :
       /\ Len(Waiters(u)) <= 1
       /\ \A w \in ToSet(Waiters(u)) : resultPtr[u] = w /\ Waiting(w)
  /\ \A t \in Thread : call[t] \in {"signal", "posted"} /\ pc[t] = "run" => result[t]

(* A successful join returns the result of the thread it named, and only   *)
(* one thread gets it.  A joiner that is being cancelled may be returned   *)
(* to without a result (join ignores what wait returns); it has only its   *)
(* way to the next preemption left.                                        *)
JoinCorrect ==
  \A t \in Thread : state[t] = "Running" =>
    /\ call[t] = "signal" => got[t] = target[t]
    /\ call[t] = "joining" /\ pc[t] \in {"on", "run"} => got[t] = target[t]
    /\ call[t] = "joining" => \A u \in Thread \ {t} :
         call[u] \in {"joining", "signal"} => target[u] # target[t]

(* The process is deleted together with its last thread, and not before:   *)
(* then nobody holds or will take threadLock, waits in one of its queues   *)
(* or is in its table.                                                     *)
DeletedLast ==
  deleted =>
    /\ threadStore = {} /\ existingThreads = 0
    /\ lock[ThreadLock] = Nobody
    /\ \A t \in Thread : pc[t] = "gone" \/ call[t] = "unborn"

(* existingThreads counts the thread objects not yet destroyed and         *)
(* activeThreads those that have not called exitThread, although each is   *)
(* updated in a different critical section of a thread's end.              *)
CountsTrue ==
  /\ existingThreads = Cardinality({t \in Thread : call[t] # "unborn" /\ pc[t] # "gone"})
  /\ activeThreads = Cardinality({t \in Thread :
       call[t] \notin {"unborn", "exitThread", "posting", "posted", "die"}})

(* A join returns once the thread it names has called exitThread, and a    *)
(* thread that exits while it is joined does not wait for another join.    *)
JoinReturns ==
  [](\A t \in Thread : call[t] # "exit") =>
    \A t \in Thread : \A u \in Thread \ {t} :
      (call[t] \in {"join", "joining"} /\ target[t] = u /\ call[u] \in {"exitThread", "posting"})
         ~> (pc[u] = "gone" /\ ~ (call[t] \in {"join", "joining"} /\ target[t] = u))

(* "detach all -> cancel all": once a thread has called Process::exit,     *)
(* every other thread gets cancelled and the caller terminates.            *)
ExitCancelsAll == \A t \in Thread : call[t] = "exit" ~> call[t] = "exited"

(* A join gets the result of the thread it names, through stack frames that *)
(* are still alive (JoinableThread.h post, join).                          *)
JoinSound == ResultAlive /\ JoinCorrect

(* The process goes with its last thread and not before, and its counts are *)
(* those of the threads there are (Process.cc exitThread, destroyThread).  *)
ProcessGone == DeletedLast /\ CountsTrue

-----------------------------------------------------------------------------
(***************************************************************************)
(* The inductive invariant, with those of the blocking core.               *)
(***************************************************************************)
ProcTypeOK ==
  /\ threadStore \in SUBSET Thread
  /\ activeThreads \in Int /\ existingThreads \in Int
  /\ joining \in [Thread -> BOOLEAN]
  /\ resultPtr \in [Thread -> Thread \cup {Nobody}]
  /\ got \in [Thread -> Thread \cup {Nobody}]
  /\ call \in [Thread -> Stage]
  /\ target \in [Thread -> Thread \cup {Nobody}]
  /\ toCancel \in [Thread -> SUBSET Thread]
  /\ joins \in [Thread -> 0 .. MaxJoins]
  /\ deleted \in BOOLEAN

(* The thread whose join queue t waits in or looks through.                *)
Peer(t) == IF call[t] \in {"posting", "posted"} THEN t ELSE target[t]
PeerQueue(t) == JoinQueue[Peer(t)]

(* Where a thread is inside the blocking core tells which call it is in.   *)
PlaceAt(t) ==
  /\ pc[t] \notin {"sleep", "timed"} /\ ~ info[t].timed
  /\ pc[t] \in {"check", "store", "switch", "off", "on"} =>
       call[t] \in {"joining", "posting"} /\ info[t].q = PeerQueue(t)
  /\ pc[t] = "scan" =>
       call[t] \in {"signal", "posted"} /\ scan[t].q = PeerQueue(t) /\ scan[t].i = 1
  /\ pc[t] \in {"erase", "wake"} =>
       \/ call[t] \in {"signal", "posted"} /\ cause[t] = "event"
       \/ pc[t] = "erase" /\ call[t] = "exit" /\ cause[t] = "cancel"
  /\ pc[t] \in {"claim", "remove"} => call[t] = "exit"
  /\ pc[t] = "claim" => state[victim[t]] # "Running"
  /\ call[t] \in {"unborn", "fresh"} => pc[t] = "run"
  /\ call[t] \in {"created", "join", "joining", "signal"} => target[t] \in Thread \ {t}
  /\ call[t] \in {"signal", "posted"} /\ pc[t] = "run" => result[t]

(* Who holds threadLock.                                                   *)
Busy(t) ==
  \/ pc[t] \in {"check", "store", "switch", "scan", "claim", "remove"}
  \/ pc[t] = "erase" /\ call[t] = "exit"
  \/ pc[t] = "run" /\ call[t] \in {"join", "exitThread", "exit"}
LockInv == lock[ThreadLock] # Clock /\ \A t \in Thread : lock[ThreadLock] = t <=> Busy(t)

(* A join queue is empty when its first waiter links itself; whoever finds *)
(* a waiter can claim it.                                                  *)
CancelledBy(a, w) == pc[a] \in {"erase", "remove"} /\ call[a] = "exit" /\ victim[a] = w
WaitersInv ==
  /\ \A t \in Thread : pc[t] \in {"check", "store"} =>
       queue[PeerQueue(t)] = <<>> /\ resultPtr[Peer(t)] = t
  /\ \A u, w \in Thread : w \in ToSet(Waiters(u)) =>
       resultPtr[u] = w /\ (unblockInfo[w] \/ \E a \in Thread : CancelledBy(a, w))
  /\ \A t \in Thread : pc[t] = "scan" => queue[PeerQueue(t)] # <<>>

(* One thread joins another, and has its result when it is resumed.        *)
Joiner(t) == call[t] \in {"joining", "signal"}
JoinInv ==
  /\ \A t \in Thread : Joiner(t) => joining[target[t]]
  /\ \A t, u \in Thread : Joiner(t) /\ Joiner(u) /\ target[t] = target[u] => t = u
  /\ \A t \in Thread : call[t] = "signal" => got[t] = target[t]
  /\ \A t \in Thread :
       call[t] = "joining" /\ state[t] = "Running" /\ pc[t] \in {"switch", "off", "on", "run"} =>
         unblockInfo[t] \/ got[t] = target[t]
  /\ \A t, w \in Thread :
       pc[t] = "scan" /\ w \in ToSet(queue[PeerQueue(t)]) /\ call[w] = "joining" => got[w] = target[w]

(* The thread table, and threads that are being created.                   *)
TableInv ==
  /\ \A t \in threadStore : call[t] # "unborn" /\ pc[t] # "gone"
  /\ \A t \in Thread : call[t] = "created" => call[target[t]] = "fresh"
  /\ \A t, u \in Thread : call[t] = "created" /\ call[u] = "created" /\ target[t] = target[u] => t = u
  /\ deleted => \A t \in Thread : pc[t] = "gone" \/ call[t] = "unborn"

ProcInv ==
  /\ ProcTypeOK /\ LockInv /\ WaitersInv /\ JoinInv /\ TableInv /\ CountsTrue
  /\ \A t \in Thread : PlaceAt(t)
=============================================================================
