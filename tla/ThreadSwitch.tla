---------------------------- MODULE ThreadSwitch ----------------------------
(***************************************************************************)
(* Context switches and ready queues on several CPUs (runtime/Thread.cc,   *)
(* runtime/Scheduler.h): the part that BlockingSync takes for granted when *)
(* it lets a resumed thread run.                                           *)
(*                                                                         *)
(* A suspending thread releases the locks of its wait while the CPU still  *)
(* runs on its stack.  From then on any CPU may resume it, that is, link   *)
(* it into a ready queue although its registers are not saved yet.  This   *)
(* is safe only because a resumed thread goes to the ready queue of the    *)
(* CPU it runs on, and that CPU has chosen its next thread before.         *)
(*                                                                         *)
(* Interrupts are disabled from the choice of the next thread to the end   *)
(* of the switch, so a CPU's steps are interleaved with other CPUs' only.  *)
(* Why a thread waits, and who is entitled to resume it, is BlockingSync's *)
(* matter: here every waiting thread may be resumed by every CPU.          *)
(***************************************************************************)
EXTENDS Naturals, Sequences, SequencesExt

CONSTANTS
  CPU,        \* the processors, each with its Scheduler
  Thread,     \* all thread objects
  IdleOf,     \* IdleOf[c] is the idle thread of CPU c
  MainOf,     \* MainOf[c] is the thread that CPU c boots into
  Peer,       \* BaseScheduler::peer, a ring over the CPUs
  Pinned,     \* the threads with Thread::affinity
  Prio,       \* Thread::priority
  Margin,     \* enqueueBalanced migrates beyond this difference (2 in the code)
  None        \* nullptr

(* Thread.h: topPriority 0, defPriority 1, idlePriority 2, maxPriority 3.  *)
idlePriority == 2
maxPriority == 3
Level == 0 .. maxPriority - 1

ASSUME ThreadSwitchAssumption ==
  /\ CPU # {}
  /\ IdleOf \in [CPU -> Thread]
  /\ MainOf \in [CPU -> Thread]
  /\ \A c, d \in CPU : c # d => IdleOf[c] # IdleOf[d] /\ MainOf[c] # MainOf[d]
  /\ \A c, d \in CPU : IdleOf[c] # MainOf[d]
  /\ \A c \in CPU : IdleOf[c] \in Pinned /\ MainOf[c] \in Pinned
  /\ Peer \in [CPU -> CPU]
  /\ Pinned \subseteq Thread
  /\ Prio \in [Thread -> Level]
  /\ \A t \in Thread : Prio[t] = idlePriority <=> \E c \in CPU : t = IdleOf[c]
  /\ Margin \in Nat
  /\ None \notin Thread

VARIABLES
  at,          \* where each CPU is in switchThread
  curr,        \* the thread whose stack the CPU uses
  nextThread,  \* switchThread's nextThread
  prevThread,  \* the parameter of postYield and postSuspend
  yield,       \* switchThread's parameter
  readyQueue,  \* the ready queues of each scheduler, one per priority
  scheduler,   \* Thread::scheduler
  status,      \* what a thread is doing
  saved        \* the thread's registers are on its stack, stackPointer is valid

switchVars == <<at, curr, nextThread, prevThread, yield>>
vars == <<switchVars, readyQueue, scheduler, status, saved>>

IdleThread == {IdleOf[c] : c \in CPU}
Home == [t \in Thread |->
  IF \E c \in CPU : t \in {IdleOf[c], MainOf[c]}
  THEN CHOOSE c \in CPU : t \in {IdleOf[c], MainOf[c]}
  ELSE CHOOSE c \in CPU : TRUE]

TypeOK ==
  /\ at \in [CPU -> {"run", "unlock", "switch", "post"}]
  /\ curr \in [CPU -> Thread]
  /\ nextThread \in [CPU -> Thread \cup {None}]
  /\ prevThread \in [CPU -> Thread \cup {None}]
  /\ yield \in [CPU -> BOOLEAN]
  /\ readyQueue \in [CPU -> [Level -> Seq(Thread)]]
  /\ scheduler \in [Thread -> CPU]
  /\ status \in [Thread -> {"new", "active", "waiting", "finishing", "dead"}]
  /\ saved \in [Thread -> BOOLEAN]

(* Processor::startup: each CPU runs its boot thread, its idle thread is   *)
(* ready; the other threads have not been started.                         *)
Init ==
  /\ at = [c \in CPU |-> "run"]
  /\ curr = MainOf
  /\ nextThread = [c \in CPU |-> None]
  /\ prevThread = [c \in CPU |-> None]
  /\ yield = [c \in CPU |-> FALSE]
  /\ readyQueue = [c \in CPU |-> [i \in Level |->
                     IF i = idlePriority THEN <<IdleOf[c]>> ELSE <<>>]]
  /\ scheduler = Home
  /\ status = [t \in Thread |-> IF \E c \in CPU : t \in {IdleOf[c], MainOf[c]}
                                THEN "active" ELSE "new"]
  /\ saved = [t \in Thread |-> \A c \in CPU : t # MainOf[c]]

Goto(c, label) == at' = [at EXCEPT ![c] = label]

(* BaseScheduler::enqueue and dequeue, atomic under the scheduler's lock.  *)
Enqueue(c, t) == readyQueue' = [readyQueue EXCEPT ![c][Prio[t]] = Append(@, t)]

ReadyAt(c, i, maxlevel) ==
  /\ i < maxlevel
  /\ readyQueue[c][i] # <<>>
  /\ \A j \in Level : j < i => readyQueue[c][j] = <<>>

(* A mutant of the next definition: takes the last thread, not the first.  *)
DequeueLast(c, i) ==
  /\ nextThread' = [nextThread EXCEPT ![c] = Last(readyQueue[c][i])]
  /\ readyQueue' = [readyQueue EXCEPT ![c][i] = Front(@)]

Dequeue(c, i) ==
  /\ nextThread' = [nextThread EXCEPT ![c] = Head(readyQueue[c][i])]
  /\ readyQueue' = [readyQueue EXCEPT ![c][i] = Tail(@)]

readyCount(c) == Len(readyQueue[c][0]) + Len(readyQueue[c][1]) + Len(readyQueue[c][2])

(***************************************************************************)
(* Mutants.                                                                *)
(***************************************************************************)

(* resume balances the load, as postYield does.                            *)
ResumeAnywhere(c, t) ==
  /\ at[c] = "run"
  /\ status[t] = "waiting"
  /\ status' = [status EXCEPT ![t] = "active"]
  /\ scheduler' = [scheduler EXCEPT ![t] = scheduler[curr[c]]]
  /\ Enqueue(scheduler[curr[c]], t)
  /\ UNCHANGED <<switchVars, saved>>

(* The yielding thread queues itself before it looks for the next one.     *)
YieldQueuesFirst(c, i) ==
  /\ at[c] = "run"
  /\ ReadyAt(c, i, idlePriority)
  /\ readyQueue' = [readyQueue EXCEPT ![c][i] = Tail(Append(@, curr[c]))]
  /\ nextThread' = [nextThread EXCEPT ![c] = Head(Append(readyQueue[c][i], curr[c]))]
  /\ yield' = [yield EXCEPT ![c] = TRUE]
  /\ Goto(c, "switch")
  /\ UNCHANGED <<curr, prevThread, scheduler, status, saved>>

(* A finishing thread is destroyed before the CPU has left its stack.      *)
TerminateDestroys(c, i) ==
  /\ at[c] = "run"
  /\ curr[c] \notin IdleThread
  /\ ReadyAt(scheduler[curr[c]], i, maxPriority)
  /\ Dequeue(scheduler[curr[c]], i)
  /\ status' = [status EXCEPT ![curr[c]] = "dead"]
  /\ yield' = [yield EXCEPT ![c] = FALSE]
  /\ Goto(c, "switch")
  /\ UNCHANGED <<curr, prevThread, scheduler, saved>>

-----------------------------------------------------------------------------
(* Thread::yield and preempt: switch only if a thread other than the idle  *)
(* thread is ready; otherwise nothing changes.                             *)
Yield(c, i) ==
  /\ at[c] = "run"
  /\ ReadyAt(scheduler[curr[c]], i, idlePriority)
  /\ Dequeue(scheduler[curr[c]], i)
  /\ yield' = [yield EXCEPT ![c] = TRUE]
  /\ Goto(c, "switch")
  /\ UNCHANGED <<curr, prevThread, scheduler, status, saved>>

(* Thread::suspend: the next thread is chosen with the locks of the wait   *)
(* still held.  The idle loop never suspends.                              *)
Suspend(c, i) ==
  /\ at[c] = "run"
  /\ curr[c] \notin IdleThread
  /\ ReadyAt(scheduler[curr[c]], i, maxPriority)
  /\ Dequeue(scheduler[curr[c]], i)
  /\ yield' = [yield EXCEPT ![c] = FALSE]
  /\ Goto(c, "unlock")
  /\ UNCHANGED <<curr, prevThread, scheduler, status, saved>>

(* unlock(a...): from now on the thread can be resumed.                    *)
Unlock(c) ==
  /\ at[c] = "unlock"
  /\ status' = [status EXCEPT ![curr[c]] = "waiting"]
  /\ Goto(c, "switch")
  /\ UNCHANGED <<curr, nextThread, prevThread, yield, readyQueue, scheduler, saved>>

(* Thread::terminate, also on behalf of a thread that finds itself         *)
(* cancelled at the end of switchThread: there are no locks to release.    *)
Terminate(c, i) ==
  /\ at[c] = "run"
  /\ curr[c] \notin IdleThread
  /\ ReadyAt(scheduler[curr[c]], i, maxPriority)
  /\ Dequeue(scheduler[curr[c]], i)
  /\ status' = [status EXCEPT ![curr[c]] = "finishing"]
  /\ yield' = [yield EXCEPT ![c] = FALSE]
  /\ Goto(c, "switch")
  /\ UNCHANGED <<curr, prevThread, scheduler, saved>>

(* preThreadSwitch and stackSwitch: save the registers on one stack and    *)
(* load them from the other.                                               *)
StackSwitch(c) ==
  /\ at[c] = "switch"
  /\ saved' = [saved EXCEPT ![curr[c]] = TRUE, ![nextThread[c]] = FALSE]
  /\ curr' = [curr EXCEPT ![c] = nextThread[c]]
  /\ prevThread' = [prevThread EXCEPT ![c] = curr[c]]
  /\ nextThread' = [nextThread EXCEPT ![c] = None]
  /\ Goto(c, "post")
  /\ UNCHANGED <<yield, readyQueue, scheduler, status>>

(* postYield, on the stack of the next thread: the previous one is ready   *)
(* again, on its own scheduler ...                                         *)
PostYieldStay(c) ==
  LET t == prevThread[c]
      s == scheduler[t]
  IN
  /\ at[c] = "post"
  /\ yield[c]
  /\ t \in Pinned \/ ~ (readyCount(Peer[s]) + Margin < readyCount(s))
  /\ Enqueue(s, t)
  /\ prevThread' = [prevThread EXCEPT ![c] = None]
  /\ Goto(c, "run")
  /\ UNCHANGED <<curr, nextThread, yield, scheduler, status, saved>>

(* ... or, if that is much longer, on the peer (enqueueBalanced).          *)
PostYieldMigrate(c) ==
  LET t == prevThread[c]
      s == scheduler[t]
  IN
  /\ at[c] = "post"
  /\ yield[c]
  /\ t \notin Pinned
  /\ readyCount(Peer[s]) + Margin < readyCount(s)
  /\ scheduler' = [scheduler EXCEPT ![t] = Peer[s]]
  /\ Enqueue(Peer[s], t)
  /\ prevThread' = [prevThread EXCEPT ![c] = None]
  /\ Goto(c, "run")
  /\ UNCHANGED <<curr, nextThread, yield, status, saved>>

(* postSuspend and postThreadSwitch: a finishing thread is destroyed.      *)
PostSuspend(c) ==
  LET t == prevThread[c] IN
  /\ at[c] = "post"
  /\ ~ yield[c]
  /\ status' = [status EXCEPT ![t] = IF @ = "finishing" THEN "dead" ELSE @]
  /\ prevThread' = [prevThread EXCEPT ![c] = None]
  /\ Goto(c, "run")
  /\ UNCHANGED <<curr, nextThread, yield, readyQueue, scheduler, saved>>

(* Thread::resume, by a thread or an interrupt handler on CPU c.           *)
Resume(c, t) ==
  /\ at[c] = "run"
  /\ status[t] = "waiting"
  /\ status' = [status EXCEPT ![t] = "active"]
  /\ Enqueue(scheduler[t], t)
  /\ UNCHANGED <<switchVars, scheduler, saved>>

(* Thread::start: setup, then resume.                                      *)
Start(c, t) ==
  /\ at[c] = "run"
  /\ status[t] = "new"
  /\ status' = [status EXCEPT ![t] = "active"]
  /\ scheduler' = IF t \in Pinned THEN scheduler
                  ELSE [scheduler EXCEPT ![t] = scheduler[curr[c]]]
  /\ Enqueue(scheduler'[t], t)
  /\ UNCHANGED <<switchVars, saved>>

SwitchStep(c) ==
  \/ Unlock(c) \/ StackSwitch(c)
  \/ PostYieldStay(c) \/ PostYieldMigrate(c) \/ PostSuspend(c)

Next ==
  \E c \in CPU :
    \/ SwitchStep(c)
    \/ \E i \in Level : Yield(c, i) \/ Suspend(c, i) \/ Terminate(c, i)
    \/ \E t \in Thread : Resume(c, t) \/ Start(c, t)

Spec == Init /\ [][Next]_vars

(* Interrupts are off during a switch, so it completes; the RTC handler    *)
(* sends PreemptIPI to all CPUs in turn, and the idle loop yields, so no   *)
(* CPU stays with one thread while another is ready.                       *)
FairSpec ==
  /\ Spec
  /\ \A c \in CPU : WF_vars(SwitchStep(c)) /\ WF_vars(\E i \in Level : Yield(c, i))

-----------------------------------------------------------------------------
Ready(c) == UNION {ToSet(readyQueue[c][i]) : i \in Level}

(* No stack is used by two CPUs.  A CPU never switches to a thread whose   *)
(* registers are not saved, in particular not to the thread that it is     *)
(* about to leave (the assertion in switchThread), although that thread    *)
(* may be in a ready queue by then.                                        *)
StackExclusive ==
  /\ \A c, d \in CPU : curr[c] = curr[d] => c = d
  /\ \A c \in CPU : at[c] = "switch" => saved[nextThread[c]]
  /\ \A c \in CPU : ~ saved[curr[c]]

(* A thread is in one ready queue at most, once, in that of its own        *)
(* scheduler and of its priority; it is there exactly if it is ready: not  *)
(* waiting, not chosen to run next, and not running except in the window   *)
(* in which it has been resumed before its CPU has left its stack.         *)
ReadyOnce ==
  /\ \A c \in CPU, i \in Level : IsInjective(readyQueue[c][i])
  /\ \A c \in CPU, i \in Level : \A t \in ToSet(readyQueue[c][i]) :
       /\ scheduler[t] = c /\ Prio[t] = i
       /\ status[t] = "active"
       /\ \A d \in CPU : nextThread[d] # t
       /\ \A d \in CPU : curr[d] = t => d = c /\ at[c] = "switch" /\ ~ yield[c]
  /\ \A t \in Thread : status[t] = "active" =>
       \/ \E c \in CPU : t \in {curr[c], nextThread[c]} \cup Ready(c)
       \/ \E c \in CPU : prevThread[c] = t /\ yield[c]

(* A thread that suspends or terminates always finds a next one (the       *)
(* assertion GENASSERT0(yield)), because the idle thread of the CPU is     *)
(* ready whenever another thread runs, and it runs on the scheduler of     *)
(* this very CPU.                                                          *)
IdleReady ==
  \A c \in CPU : at[c] = "run" =>
    /\ scheduler[curr[c]] = c
    /\ curr[c] # IdleOf[c] => IdleOf[c] \in Ready(c)

(* The memory of a destroyed thread, its stack included, is not used any   *)
(* more: no CPU runs on it and no scheduler links it.                      *)
NoUseAfterDestroy ==
  \A t \in Thread : status[t] = "dead" =>
    \A c \in CPU : t \notin {curr[c], nextThread[c], prevThread[c]} \cup Ready(c)

(* A ready thread gets a CPU eventually, unless it is an idle thread.      *)
ReadyRuns ==
  \A t \in Thread \ IdleThread :
    (\E c \in CPU : t \in Ready(c)) ~> (\E c \in CPU : curr[c] = t)

(* Every thread is where its state says, ready threads are queued once, and *)
(* a CPU that suspends finds at least its idle thread (Scheduler.h, Thread.cc *)
(* switchThread).                                                          *)
SwitchSound == TypeOK /\ ReadyOnce /\ IdleReady

-----------------------------------------------------------------------------
(***************************************************************************)
(* The inductive invariant.  Everything a CPU deals with belongs to its    *)
(* own scheduler: what it runs, what it has chosen, what it has just left  *)
(* and what it has linked.  Two CPUs have therefore nothing in common, and *)
(* the rest can be said CPU by CPU and thread by thread.                   *)
(***************************************************************************)

(* The thread that a CPU runs on has not been given up yet.                *)
Keeping(c) == at[c] # "switch" \/ yield[c]

Own(c, t) == t \in Thread => scheduler[t] = c /\ status[t] \notin {"new", "dead"}

CpuInv(c) ==
  /\ nextThread[c] \in Thread <=> at[c] \in {"unlock", "switch"}
  /\ prevThread[c] \in Thread <=> at[c] = "post"
  /\ at[c] = "unlock" => ~ yield[c] /\ curr[c] \notin IdleThread
  /\ curr[c] # nextThread[c] /\ curr[c] # prevThread[c]
  /\ Own(c, curr[c]) /\ Own(c, nextThread[c]) /\ Own(c, prevThread[c])
  /\ Keeping(c) => status[curr[c]] = "active"
  /\ at[c] \in {"unlock", "switch"} => status[nextThread[c]] = "active"
  /\ at[c] = "post" /\ yield[c] => status[prevThread[c]] = "active"
  /\ scheduler[IdleOf[c]] = c /\ status[IdleOf[c]] = "active"

(* A thread that is linked is not one that the CPU will run or link again. *)
Linkable(c, t) ==
  /\ scheduler[t] = c /\ status[t] = "active"
  /\ t # nextThread[c]
  /\ t = curr[c] => ~ Keeping(c)
  /\ t = prevThread[c] => ~ yield[c]

QueueInv(c, i) ==
  /\ IsInjective(readyQueue[c][i])
  /\ \A t \in ToSet(readyQueue[c][i]) : Prio[t] = i /\ Linkable(c, t)

(* The CPU that an active thread belongs to accounts for it.               *)
Accounted(c, t) ==
  \/ t \in ToSet(readyQueue[c][Prio[t]])
  \/ t = nextThread[c]
  \/ t = curr[c] /\ Keeping(c)
  \/ t = prevThread[c] /\ yield[c]

ThreadInv(t) ==
  /\ saved[t] <=> t # curr[scheduler[t]]
  /\ status[t] = "active" => Accounted(scheduler[t], t)

SwitchInv ==
  /\ TypeOK
  /\ \A c \in CPU : CpuInv(c)
  /\ \A c \in CPU, i \in Level : QueueInv(c, i)
  /\ \A t \in Thread : ThreadInv(t)
=============================================================================
