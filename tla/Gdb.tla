-------------------------------- MODULE Gdb ---------------------------------
(***************************************************************************)
(* The gdb stub, gdb/Gdb.cc: how several CPUs meet in handle_exception,    *)
(* take turns by ticket at the serial line, stop each other, execute what  *)
(* the front end asks for and leave again.                                 *)
(*                                                                         *)
(* The tickets count without bound in the code (64 bits); a step of the    *)
(* stub only looks at ticket - serving and tcounter - serving, which is    *)
(* what the model keeps: `place' and `tail'.  Tickets that have been       *)
(* served are all alike, at place -1.                                      *)
(*                                                                         *)
(* The front end is external: it sends any packet it likes, names a CPU    *)
(* when it steps and none when it continues (the stub asserts both).       *)
(***************************************************************************)
EXTENDS Integers, FiniteSets

CONSTANTS
  N           \* number of CPUs

ASSUME GdbAssumption == N \in Nat \ {0}

Cpu == 0 .. N - 1
All == -1                       \* VCont::tid when the packet names no thread

VARIABLES
  pc,         \* where a CPU is in handle_exception; "run": in the kernel
  state,      \* GdbCpu::state
  trap,       \* the CPU is in the stub for an exception of its own
  ipi,        \* a StopIPI is pending at the CPU
  tf,         \* the CPU runs with TF set: one instruction, then a trap
  place,      \* GdbCpu::ticket - serving, at least -1
  tail,       \* tcounter - serving
  scan,       \* index of the loop that stops the other CPUs
  allstop,
  vCont,      \* VCont::action and tid
  hookBreak,  \* _Unwind_DebugHook_break
  saved,      \* savedThread (by the CPU it runs on) and savedAffinity
  affinity    \* affinity of the thread on each CPU

turn == <<place, tail>>
session == <<vCont, hookBreak>>
pinning == <<saved, affinity>>
vars == <<pc, state, trap, ipi, tf, turn, scan, allstop, session, pinning>>

NoVCont == [action |-> "none", tid |-> All]
NoThread == [cpu |-> All, affinity |-> FALSE]
Labels == {"run", "enter", "ticket1", "turn1", "stop", "await", "packets",
           "loop", "ticket2", "turn2", "leave"}

TypeOK ==
  /\ pc \in [Cpu -> Labels]
  /\ state \in [Cpu -> {"Stopped", "Running"}]
  /\ trap \in [Cpu -> BOOLEAN] /\ ipi \in [Cpu -> BOOLEAN] /\ tf \in [Cpu -> BOOLEAN]
  /\ place \in [Cpu -> -1 .. N] /\ tail \in 0 .. N
  /\ scan \in 0 .. N
  /\ allstop \in BOOLEAN
  /\ vCont \in [action : {"none", "c", "s"}, tid : Cpu \cup {All}]
  /\ hookBreak \in BOOLEAN
  /\ saved \in [cpu : Cpu \cup {All}, affinity : BOOLEAN]
  /\ affinity \in [Cpu -> BOOLEAN]

(* initGdb has run and all CPUs have been started (startGdbCpu).  A thread *)
(* is pinned or not before the session.                                    *)
Pinned == {0}
Init ==
  /\ pc = [c \in Cpu |-> "run"]
  /\ state = [c \in Cpu |-> "Running"]
  /\ trap = [c \in Cpu |-> FALSE]
  /\ ipi = [c \in Cpu |-> FALSE]
  /\ tf = [c \in Cpu |-> FALSE]
  /\ place = [c \in Cpu |-> -1]
  /\ tail = 0
  /\ scan = 0
  /\ allstop = FALSE
  /\ vCont = NoVCont
  /\ hookBreak = FALSE
  /\ saved = NoThread
  /\ affinity = [c \in Cpu |-> c \in Pinned]

Goto(c, l) == pc' = [pc EXCEPT ![c] = l]

(* A ticket is old when it has been served.                                *)
Old(c) == place[c] < 0

-----------------------------------------------------------------------------
(* Mutants.                                                                *)

TakeTicketAlways(c) ==
  /\ place' = [place EXCEPT ![c] = tail]
  /\ tail' = tail + 1

AdvanceTwice ==
  /\ place' = [c \in Cpu |-> IF place[c] < 2 THEN -1 ELSE place[c] - 2]
  /\ tail' = IF tail < 2 THEN 0 ELSE tail - 2

-----------------------------------------------------------------------------
(* ++serving: every ticket is one place nearer.                            *)
Advance ==
  /\ place' = [c \in Cpu |-> IF place[c] < 0 THEN -1 ELSE place[c] - 1]
  /\ tail' = tail - 1

-----------------------------------------------------------------------------
(* The kernel.                                                             *)

(* A CPU hits a breakpoint, or the instruction after a step: it is in the  *)
(* assembler code that saves its registers, and still counts as Running.   *)
Trap(c) ==
  /\ pc[c] = "run"
  /\ trap' = [trap EXCEPT ![c] = TRUE]
  /\ tf' = [tf EXCEPT ![c] = FALSE]
  /\ Goto(c, "enter")
  /\ UNCHANGED <<state, ipi, turn, scan, allstop, session, pinning>>

(* The StopIPI is an ordinary interrupt: it is taken when the CPU has its  *)
(* interrupts on, and stays pending while the CPU is in the stub.          *)
StopIPI(c) ==
  /\ pc[c] = "run" /\ ipi[c] /\ ~tf[c]
  /\ ipi' = [ipi EXCEPT ![c] = FALSE]
  /\ Goto(c, "enter")
  /\ UNCHANGED <<state, trap, tf, turn, scan, allstop, session, pinning>>

-----------------------------------------------------------------------------
(* handle_exception.                                                       *)

(* LocalProcessor::lock, state = Stopped; a StopIPI is confirmed and goes  *)
(* to the second part, an exception is reported first.                     *)
Enter(c) ==
  /\ pc[c] = "enter"
  /\ state' = [state EXCEPT ![c] = "Stopped"]
  /\ Goto(c, IF trap[c] THEN "ticket1" ELSE "loop")
  /\ UNCHANGED <<trap, ipi, tf, turn, scan, allstop, session, pinning>>

(* Under the lock: a new ticket, if the current one is old.                *)
TakeTicket(c) ==
  IF Old(c) THEN /\ place' = [place EXCEPT ![c] = tail]
                 /\ tail' = tail + 1
            ELSE UNCHANGED turn

Ticket(c) ==
  /\ pc[c] \in {"ticket1", "ticket2"}
  /\ TakeTicket(c)
  /\ Goto(c, IF pc[c] = "ticket1" THEN "turn1" ELSE "turn2")
  /\ UNCHANGED <<state, trap, ipi, tf, scan, allstop, session, pinning>>

(* My turn: allstop = true, and the loop over all CPUs begins.             *)
BeginStop(c) ==
  /\ pc[c] = "turn1" /\ place[c] = 0
  /\ allstop' = TRUE
  /\ scan' = 0
  /\ Goto(c, "stop")
  /\ UNCHANGED <<state, trap, ipi, tf, turn, session, pinning>>

(* A CPU that is Running is sent a StopIPI ...                             *)
StopOne(c) ==
  /\ pc[c] = "stop" /\ scan < N
  /\ IF state[scan] = "Running"
     THEN /\ ipi' = [ipi EXCEPT ![scan] = TRUE]
          /\ Goto(c, "await")
          /\ UNCHANGED scan
     ELSE /\ scan' = scan + 1
          /\ UNCHANGED <<ipi, pc>>
  /\ UNCHANGED <<state, trap, tf, turn, allstop, session, pinning>>

(* ... and waited for.                                                     *)
AwaitOne(c) ==
  /\ pc[c] = "await" /\ state[scan] = "Stopped"
  /\ scan' = scan + 1
  /\ Goto(c, "stop")
  /\ UNCHANGED <<state, trap, ipi, tf, turn, allstop, session, pinning>>

(* If a vCont packet has been processed, its stop reply is due.            *)
Report(c) ==
  /\ pc[c] = "stop" /\ scan = N
  /\ vCont' = NoVCont
  /\ scan' = 0
  /\ Goto(c, "packets")
  /\ UNCHANGED <<state, trap, ipi, tf, turn, allstop, hookBreak, pinning>>

-----------------------------------------------------------------------------
(* handlePacket, as far as the rendezvous sees it (GdbLine has the packets  *)
(* themselves): 'Z0' and 'z0' may set or clear the breakpoint on            *)
(* _Unwind_DebugHook.                                                       *)
Packet(c) ==
  /\ pc[c] = "packets"
  /\ hookBreak' \in BOOLEAN
  /\ UNCHANGED <<pc, state, trap, ipi, tf, turn, scan, allstop, vCont, pinning>>

(* 'vCont' and 'k': the session ends for this CPU.  A step names a CPU     *)
(* that is in the session.                                                 *)
Resume ==
  /\ \/ vCont' = [action |-> "c", tid |-> All]
     \/ \E t \in Cpu : state[t] = "Stopped" /\ vCont' = [action |-> "s", tid |-> t]
  /\ UNCHANGED hookBreak

EndSession(c) ==
  /\ pc[c] = "packets"
  /\ Resume
  /\ trap' = [trap EXCEPT ![c] = FALSE]
  /\ Goto(c, "loop")
  /\ UNCHANGED <<state, ipi, tf, turn, scan, allstop, pinning>>

-----------------------------------------------------------------------------
(* while (allstop): everybody takes turns until a vCont packet is for him. *)

Loop(c) ==
  /\ pc[c] = "loop"
  /\ Goto(c, IF allstop THEN "ticket2" ELSE "leave")
  /\ UNCHANGED <<state, trap, ipi, tf, turn, scan, allstop, session, pinning>>

Pending(c) == vCont.action # "none" /\ vCont.tid \in {All, c}

SetGdbAffinity(c) ==
  IF saved = NoThread
  THEN /\ saved' = [cpu |-> c, affinity |-> affinity[c]]
       /\ affinity' = [affinity EXCEPT ![c] = TRUE]
  ELSE UNCHANGED pinning

ResetGdbAffinity ==
  IF saved # NoThread
  THEN /\ affinity' = [affinity EXCEPT ![saved.cpu] = saved.affinity]
       /\ saved' = NoThread
  ELSE UNCHANGED pinning

(* The vCont packet is for this CPU: set or clear TF, and for a continue   *)
(* let everybody go; then serve the next and leave.  allstop is cleared    *)
(* before serving is incremented; whoever sees it in between only leaves   *)
(* earlier than he could have.                                             *)
TurnLeave(c) ==
  /\ pc[c] = "turn2" /\ place[c] = 0 /\ Pending(c)
  /\ tf' = [tf EXCEPT ![c] = (vCont.action = "s")]
  /\ allstop' = (allstop /\ vCont.action # "c")
  /\ IF vCont.action = "s" \/ hookBreak THEN SetGdbAffinity(c) ELSE ResetGdbAffinity
  /\ Advance
  /\ Goto(c, "leave")
  /\ UNCHANGED <<state, trap, ipi, scan, session>>

(* Not for this CPU: serve the next, but keep waiting.                     *)
TurnPass(c) ==
  /\ pc[c] = "turn2" /\ place[c] = 0 /\ ~Pending(c)
  /\ Advance
  /\ Goto(c, "loop")
  /\ UNCHANGED <<state, trap, ipi, tf, scan, allstop, session, pinning>>

(* state = Running, LocalProcessor::unlock, resumeExecution.               *)
Leave(c) ==
  /\ pc[c] = "leave"
  /\ state' = [state EXCEPT ![c] = "Running"]
  /\ Goto(c, "run")
  /\ UNCHANGED <<trap, ipi, tf, turn, scan, allstop, session, pinning>>

Stub(c) ==
  \/ Enter(c) \/ Ticket(c) \/ BeginStop(c) \/ StopOne(c) \/ AwaitOne(c) \/ Report(c)
  \/ Loop(c) \/ TurnLeave(c) \/ TurnPass(c) \/ Leave(c)

Next == \E c \in Cpu : Trap(c) \/ StopIPI(c) \/ Packet(c) \/ EndSession(c) \/ Stub(c)

(* CPUs in the stub run with interrupts off and nothing else to do; a      *)
(* pending interrupt is taken; the trap of a step comes; the front end     *)
(* does not stay in one stop for ever.                                     *)
Fairness == \A c \in Cpu :
  /\ WF_vars(Stub(c)) /\ WF_vars(StopIPI(c))
  /\ WF_vars(tf[c] /\ Trap(c)) /\ WF_vars(EndSession(c))

Spec == Init /\ [][Next]_vars
FairSpec == Spec /\ Fairness

-----------------------------------------------------------------------------
(* At most one CPU at a time is stopping the others or talking to the      *)
(* front end, over both uses of a ticket (lines 791-836): the buffers      *)
(* `in' and `out', vCont and bpMap have no other lock.                     *)
OneAtTheLine ==
  \A c, d \in Cpu :
    /\ pc[c] \in {"stop", "await", "packets"} /\ pc[d] \in {"stop", "await", "packets"} => c = d
    /\ pc[c] \in {"stop", "await", "packets"} => place[c] = 0
    /\ place[c] >= 0 /\ place[c] = place[d] => c = d

(* setGdbAffinity pins a thread for a step or a next; when none is pinned  *)
(* by gdb, all threads have the affinity they had before (lines 735-750).  *)
AffinityRestored ==
  \A c \in Cpu : affinity[c] = IF saved.cpu = c THEN TRUE ELSE c \in Pinned

(* Every exception gets to the front end: no CPU waits for ever for its    *)
(* turn or for another CPU to stop, even if the front end only steps.      *)
(* `trap' is set by the exception and reset when its session ends.         *)
TrapServed == \A c \in Cpu : []<>(trap[c] => pc[c] = "packets")

(* Line 803: "default allstop mode: stop everybody".  While a CPU serves   *)
(* the front end, no CPU runs kernel code.                                 *)
StopsEverybody ==
  \A c, d \in Cpu : pc[c] = "packets" => pc[d] # "run"

(* One CPU at a time talks to the debugger, in the order in which the CPUs *)
(* took their tickets, and a thread that was pinned for it runs where it may *)
(* when it goes on (Gdb.cc handle_exception).                              *)
SessionSound == TypeOK /\ OneAtTheLine /\ AffinityRestored

-----------------------------------------------------------------------------
(***************************************************************************)
(* The inductive invariant.                                                *)
(***************************************************************************)

(* The tickets not yet served are in the hands of different CPUs, and none *)
(* of them is missing: whoever serves the next serves somebody, and a CPU  *)
(* never has two of them.                                                  *)
TicketsInv ==
  /\ \A c \in Cpu : place[c] < tail
  /\ \A c, d \in Cpu : place[c] >= 0 /\ place[c] = place[d] => c = d
  /\ \A k \in 0 .. tail - 1 : \E c \in Cpu : place[c] = k

(* Whoever stops the others or talks to the front end has its turn.        *)
TurnInv ==
  \A c \in Cpu : /\ pc[c] \in {"stop", "await", "packets"} => place[c] = 0
                 /\ pc[c] = "await" => scan < N

(* What gdb remembers of the thread it has pinned.                         *)
PinInv ==
  saved # NoThread => saved.cpu \in Cpu /\ (saved.affinity <=> saved.cpu \in Pinned)

GdbInv == TypeOK /\ TicketsInv /\ TurnInv /\ PinInv /\ AffinityRestored
=============================================================================
