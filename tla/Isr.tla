-------------------------------- MODULE Isr --------------------------------
(***************************************************************************)
(* Entering and leaving the kernel: the interrupt wrappers with IsrEntry,   *)
(* the system call wrapper and startUserCode, together with the thread      *)
(* switches that happen in between.  Each processor has its %gs base        *)
(* (swapped at the border), its interrupt flag, its lock count, the kernel  *)
(* stack its TSS names, and the thread it runs.  A thread that enters the   *)
(* kernel on one processor may leave it on another.                         *)
(*                                                                         *)
(* A thread's kernel stack is the sequence of its activations: the base of  *)
(* a thread that runs kernel code, a system call, an interrupt or exception *)
(* with the interrupt flag it saved, and a LocalProcessor lock.  A thread   *)
(* with an empty kernel stack runs user code.                               *)
(***************************************************************************)
EXTENDS Naturals, Sequences, FiniteSets

CONSTANTS
  IsrCpu,     \* processors
  UserThread, \* threads that go to user mode
  IdleOf,       \* the idle thread of each processor
  MaxDepth    \* bound: activations on a kernel stack

IdleThread == {IdleOf[c] : c \in IsrCpu}
IsrThread == UserThread \cup IdleThread

ASSUME IsrAssumption ==
  /\ IsFiniteSet(IsrCpu) /\ IsFiniteSet(UserThread) /\ MaxDepth \in Nat
  /\ IdleOf \in [IsrCpu -> IdleThread]
  /\ UserThread \cap IdleThread = {} /\ \A c, d \in IsrCpu : IdleOf[c] = IdleOf[d] => c = d

VARIABLES
  kstack,   \* the activations on each thread's kernel stack
  running,  \* the thread of each processor: CurrThread
  gs,       \* which of its two %gs bases a processor uses
  flag,     \* the interrupt flag
  count,    \* lockCount
  rsp0,     \* the thread whose kernel stack the TSS names
  state,    \* "run", or "reboot" and "stopped" after a fatal exception
  stopIPI   \* processors with a StopIPI pending

isrVars == <<kstack, running, gs, flag, count, rsp0, state, stopIPI>>

(* An activation: what it is, whether it interrupted user code, and the     *)
(* interrupt flag it saved.                                                  *)
Activation(kind, user, saved) == [kind |-> kind, user |-> user, flag |-> saved]
Base == Activation("base", FALSE, TRUE)
LockFrame == Activation("lock", FALSE, TRUE)

Stack(c) == kstack[running[c]]
TopFrame(c) == Stack(c)[Len(Stack(c))]
InUser(c) == Stack(c) = <<>>
TopIs(c, kinds) == ~InUser(c) /\ TopFrame(c).kind \in kinds
PushFrame(c, f) == Len(Stack(c)) < MaxDepth /\ kstack' = [kstack EXCEPT ![running[c]] = Append(@, f)]
PopFrame(c) == kstack' = [kstack EXCEPT ![running[c]] = SubSeq(@, 1, Len(@) - 1)]

(* Every processor runs its idle thread; the other threads have been set up *)
(* with stackInit and are about to leave their first thread switch.          *)
NewStack == <<Base, LockFrame>>

IsrInit ==
  /\ kstack = [t \in IsrThread |-> IF t \in IdleThread THEN <<Base>> ELSE NewStack]
  /\ running = IdleOf
  /\ gs = [c \in IsrCpu |-> "kernel"]
  /\ flag = [c \in IsrCpu |-> TRUE]
  /\ count = [c \in IsrCpu |-> 0]
  /\ rsp0 = IdleOf
  /\ state = [c \in IsrCpu |-> "run"]
  /\ stopIPI = {}

(* LocalProcessor::lock and unlock, around critical sections of the kernel. *)
LockCpu(c) ==
  /\ ~InUser(c)
  /\ PushFrame(c, LockFrame)
  /\ flag' = [flag EXCEPT ![c] = @ /\ count[c] # 0]
  /\ count' = [count EXCEPT ![c] = @ + 1]
  /\ UNCHANGED <<running, gs, rsp0, state, stopIPI>>

UnlockCpu(c) ==
  /\ TopIs(c, {"lock"})
  /\ PopFrame(c)
  /\ count' = [count EXCEPT ![c] = @ - 1]
  /\ flag' = [flag EXCEPT ![c] = @ \/ count[c] = 1]
  /\ UNCHANGED <<running, gs, rsp0, state, stopIPI>>

(* An interrupt or exception and IsrEntry's constructor: interrupts go off, *)
(* %gs is swapped when user code was interrupted, the lock count is raised.  *)
LockFake(c) == count' = [count EXCEPT ![c] = @ + 1]

IsrEnter(c, kind) ==
  /\ PushFrame(c, Activation(kind, InUser(c), flag[c]))
  /\ gs' = [gs EXCEPT ![c] = IF InUser(c) THEN "kernel" ELSE @]
  /\ flag' = [flag EXCEPT ![c] = FALSE]
  /\ LockFake(c)
  /\ UNCHANGED <<running, rsp0>>

(* Interrupts come when they are enabled, exceptions at any time. *)
Irq(c) == flag[c] /\ IsrEnter(c, "irq") /\ UNCHANGED <<state, stopIPI>>
IsrPageFault(c) == IsrEnter(c, "exc") /\ UNCHANGED <<state, stopIPI>>

\* Mutant: the destructor leaves the TSS as the last return to user code set it.
KeepKernelStack(c) == UNCHANGED rsp0

(* setKernelStack(CurrThread()), before a return to user code. *)
SetKernelStack(c) == rsp0' = [rsp0 EXCEPT ![c] = running[c]]

(* IsrEntry's destructor and iretq. *)
IsrLeave(c) ==
  /\ TopIs(c, {"irq", "exc"})
  /\ count' = [count EXCEPT ![c] = @ - 1]
  /\ IF TopFrame(c).user
     THEN SetKernelStack(c) /\ gs' = [gs EXCEPT ![c] = "user"]
     ELSE UNCHANGED <<rsp0, gs>>
  /\ flag' = [flag EXCEPT ![c] = TopFrame(c).flag]
  /\ PopFrame(c)
  /\ UNCHANGED <<running, state, stopIPI>>

(* syscall_wrapper: from user code onto the kernel stack of the TSS, and    *)
(* back; interrupts are off at both borders.                                 *)
Syscall(c) ==
  /\ InUser(c)
  /\ PushFrame(c, Activation("sys", TRUE, TRUE))
  /\ gs' = [gs EXCEPT ![c] = "kernel"]
  /\ UNCHANGED <<running, flag, count, rsp0, state, stopIPI>>

Sysret(c) ==
  /\ TopIs(c, {"sys"})
  /\ PopFrame(c)
  /\ rsp0' = [rsp0 EXCEPT ![c] = running[c]]
  /\ gs' = [gs EXCEPT ![c] = "user"]
  /\ UNCHANGED <<running, flag, count, state, stopIPI>>

(* startUserCode: a thread leaves the kernel for good code of its process,  *)
(* with its kernel stack empty.                                              *)
StartUserCode(c) ==
  /\ running[c] \in UserThread /\ Stack(c) = <<Base>>
  /\ PopFrame(c)
  /\ rsp0' = [rsp0 EXCEPT ![c] = running[c]]
  /\ gs' = [gs EXCEPT ![c] = "user"]
  /\ flag' = [flag EXCEPT ![c] = TRUE]
  /\ UNCHANGED <<running, count, state, stopIPI>>

(* Thread::yield and suspend switch with preemption disabled and no other   *)
(* lock held: CHECK_LOCK_COUNT(1).                                           *)
MayBlock(c) == TopIs(c, {"lock"}) /\ count[c] = 1

(* A thread gives the processor up in yield, suspend or terminate, or is    *)
(* preempted inside the handler of PreemptIPI; a terminated one is           *)
(* destroyed, and its name used for a new thread.                            *)
Switch(c, t) ==
  /\ MayBlock(c) \/ TopIs(c, {"irq"})
  /\ t \in UserThread \cup {IdleOf[c]} /\ \A d \in IsrCpu : running[d] # t
  /\ running' = [running EXCEPT ![c] = t]
  /\ \/ UNCHANGED kstack
     \/ /\ TopIs(c, {"lock"}) /\ running[c] \in UserThread
        /\ kstack' = [kstack EXCEPT ![running[c]] = NewStack]
  /\ UNCHANGED <<gs, flag, count, rsp0, state, stopIPI>>

(* A fatal exception: Reboot sends StopIPI to all others, and ends. *)
Fatal(c) ==
  /\ IsrEnter(c, "exc")
  /\ state' = [state EXCEPT ![c] = "reboot"]
  /\ stopIPI' = stopIPI \cup (IsrCpu \ {c})

Stop(c) ==
  /\ c \in stopIPI /\ flag[c]
  /\ state' = [state EXCEPT ![c] = "stopped"]
  /\ stopIPI' = stopIPI \ {c}
  /\ flag' = [flag EXCEPT ![c] = FALSE]
  /\ UNCHANGED <<kstack, running, gs, count, rsp0>>

CpuStep(c) ==
  /\ state[c] = "run"
  /\ \/ LockCpu(c) \/ UnlockCpu(c)
     \/ Irq(c) \/ IsrPageFault(c) \/ IsrLeave(c)
     \/ Syscall(c) \/ Sysret(c) \/ StartUserCode(c)
     \/ \E t \in IsrThread : Switch(c, t)
     \/ Fatal(c) \/ Stop(c)

AllStopped == (\A c \in IsrCpu : state[c] # "run") /\ UNCHANGED isrVars

IsrNext == AllStopped \/ \E c \in IsrCpu : CpuStep(c)

IsrSpec == IsrInit /\ [][IsrNext]_isrVars

-----------------------------------------------------------------------------
Up == {c \in IsrCpu : state[c] = "run"}
Locking == {"lock", "irq", "exc"}
LocksOn(s) == Cardinality({i \in DOMAIN s : s[i].kind \in Locking})
LocksOf(t) == LocksOn(kstack[t])

(* At the border of the kernel each processor has what the next entry       *)
(* needs, whichever processor the thread came in on: in user mode the user's *)
(* %gs base, the kernel stack of its own thread in the TSS and no lock, and  *)
(* in the kernel the kernel's %gs base (Machine.cc IsrEntry,                 *)
(* syscall_wrapper.S, Processor.h setKernelStack).                           *)
BorderSound ==
  \A c \in Up :
    /\ InUser(c) => gs[c] = "user" /\ rsp0[c] = running[c] /\ count[c] = 0 /\ flag[c]
    /\ ~InUser(c) => gs[c] = "kernel"

(* The lock count of a processor is that of the thread it runs although     *)
(* threads leave and come in the middle of handlers and critical sections,   *)
(* and interrupts are enabled exactly when it is 0 (Processor.h checkLock,   *)
(* CHECK_LOCK_COUNT(1) in Thread.cc and RuntimeImpl.h).                      *)
LockCountTrue ==
  \A c \in Up :
    /\ count[c] = LocksOf(running[c])
    /\ flag[c] <=> count[c] = 0
    /\ TopIs(c, {"irq"}) => count[c] = 1

(* Kernel and user mode are never mixed up at the border (GS base, kernel  *)
(* stack, interrupt flag), and the count of held locks is true whenever a  *)
(* thread is switched (Machine.cc IsrEntry, Thread.cc).                    *)
IsrSound == BorderSound /\ LockCountTrue

-----------------------------------------------------------------------------
(***************************************************************************)
(* The inductive invariant.                                                *)
(***************************************************************************)
Frames == [kind : {"base", "sys"} \cup Locking, user : BOOLEAN, flag : BOOLEAN]

IsrTypeOK ==
  /\ kstack \in [IsrThread -> Seq(Frames)]
  /\ running \in [IsrCpu -> IsrThread] /\ rsp0 \in [IsrCpu -> IsrThread]
  /\ gs \in [IsrCpu -> {"kernel", "user"}]
  /\ flag \in [IsrCpu -> BOOLEAN]
  /\ count \in [IsrCpu -> Nat]
  /\ state \in [IsrCpu -> {"run", "reboot", "stopped"}]
  /\ stopIPI \in SUBSET IsrCpu

(* Only the lowest activation comes from user code, and the interrupt flag *)
(* an entry has saved is off exactly above a lock or another handler.      *)
FrameSound(s, i) ==
  /\ s[i].user <=> i = 1 /\ s[i].kind # "base"
  /\ s[i].kind \in {"base", "sys"} => i = 1
  /\ s[i].kind = "lock" => i # 1
  /\ s[i].kind \in {"irq", "exc"} =>
       (s[i].flag <=> \A j \in 1 .. i - 1 : s[j].kind \notin Locking)
  /\ s[i].kind = "irq" => s[i].flag
StackSound(s) == \A i \in 1 .. Len(s) : FrameSound(s, i)

(* A thread runs on one processor; one that does not run has been switched *)
(* away from in the kernel, with preemption disabled once.                 *)
Resting(t) == \A c \in IsrCpu : running[c] # t
ThreadsInv ==
  /\ \A t \in IsrThread : StackSound(kstack[t])
  /\ \A t \in IdleThread : kstack[t] # <<>> /\ kstack[t][1].kind = "base"
  /\ \A c, d \in IsrCpu : running[c] = running[d] => c = d
  /\ \A t \in IsrThread : Resting(t) => kstack[t] # <<>> /\ LocksOf(t) = 1

CpuAt(c) ==
  state[c] = "run" =>
    /\ InUser(c) => gs[c] = "user" /\ rsp0[c] = running[c]
    /\ ~InUser(c) => gs[c] = "kernel"
    /\ count[c] = LocksOf(running[c])
    /\ flag[c] <=> count[c] = 0

IsrInv == IsrTypeOK /\ ThreadsInv /\ \A c \in IsrCpu : CpuAt(c)
=============================================================================
