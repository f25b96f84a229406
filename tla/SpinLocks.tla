----------------------------- MODULE SpinLocks ------------------------------
(***************************************************************************)
(* The spin locks of kernel/SpinLock.h on top of the lock count and the    *)
(* interrupt flag of machine/Processor.h, with interrupts: each CPU runs a *)
(* thread, which an interrupt handler that takes the same lock may         *)
(* interrupt whenever the flag is set, between any two instructions.       *)
(*                                                                         *)
(* One lock of each kind: BinarySpinLock (SpinLock), OwnerSpinLock         *)
(* (OwnerLock) or TicketSpinLock under LocalProcessor::lock; for the       *)
(* binary kind a second one, to which the first is handed over             *)
(* (acquire(l)).  The 64-bit counters of the ticket lock are kept relative *)
(* to `serving': `tail' is ticket - serving, and a value of `serving' read *)
(* earlier is either current (0) or old (-1), which never compares equal   *)
(* to the ticket again.                                                    *)
(***************************************************************************)
EXTENDS Integers, FiniteSets

CONSTANTS
  SpinCpu,    \* CPUs
  MaxNest     \* bound: recursive acquisitions of the owner lock

NoOwner == "noOwner"

ASSUME SpinAssumption == MaxNest \in Nat /\ NoOwner \notin SpinCpu

Kind == {"binary", "owner", "ticket"}
Ctx == {"thread", "handler"}

VARIABLES
  kind,       \* which of the locks
  IF_,        \* RFLAGS.IF of a CPU
  lockCount,  \* Context::lockCount
  ctx,        \* what a CPU executes
  at,         \* where thread and handler are
  op,         \* what they do: acquire, tryAcquire, acquire(l)
  lk,         \* BinarySpinLock::locked, OwnerSpinLock::owner/counter, tickets
  lk2,        \* the lock that the first one is handed over to
  mine        \* ticket, or value of serving, relative to serving

spinVars == <<kind, IF_, lockCount, ctx, at, op, lk, lk2, mine>>
cpuState == <<IF_, lockCount, ctx>>

SpinInit ==
  /\ kind \in Kind
  /\ IF_ = [c \in SpinCpu |-> TRUE]
  /\ lockCount = [c \in SpinCpu |-> 0]
  /\ ctx = [c \in SpinCpu |-> "thread"]
  /\ at = [c \in SpinCpu |-> [x \in Ctx |-> "out"]]
  /\ op = [c \in SpinCpu |-> [x \in Ctx |-> "acquire"]]
  /\ lk = [owner |-> NoOwner, counter |-> 0, tail |-> 0]
  /\ lk2 = FALSE
  /\ mine = [c \in SpinCpu |-> -1]

At(c, l) == at[c][ctx[c]] = l
Go(c, l) == at' = [at EXCEPT ![c][ctx[c]] = l]
Op(c) == op[c][ctx[c]]

-----------------------------------------------------------------------------
(* Mutants.                                                                *)

CountFirst(c) ==
  /\ At(c, "lock")
  /\ lockCount' = [lockCount EXCEPT ![c] = @ + 1]
  /\ Go(c, "get")
  /\ UNCHANGED <<kind, IF_, ctx, op, lk, lk2, mine>>

ServeNobody == UNCHANGED <<mine, lk>>

-----------------------------------------------------------------------------
(* LocalProcessor::lock: test the count, switch interrupts off if it is 0, *)
(* count; an interrupt fits in between.                                    *)
SpinLock(c) ==
  /\ At(c, "lock")
  /\ Go(c, IF lockCount[c] = 0 THEN "cli" ELSE "inc")
  /\ UNCHANGED <<kind, cpuState, op, lk, lk2, mine>>

DisableInterrupts(c) ==
  /\ At(c, "cli")
  /\ IF_' = [IF_ EXCEPT ![c] = FALSE]
  /\ Go(c, "inc")
  /\ UNCHANGED <<kind, lockCount, ctx, op, lk, lk2, mine>>

IncLockCount(c) ==
  /\ At(c, "inc")
  /\ lockCount' = [lockCount EXCEPT ![c] = @ + 1]
  /\ Go(c, "get")
  /\ UNCHANGED <<kind, IF_, ctx, op, lk, lk2, mine>>

(* LocalProcessor::unlock, back into the critical section if the owner     *)
(* lock is still held.                                                     *)
DecLockCount(c) ==
  /\ At(c, "unlock")
  /\ lockCount' = [lockCount EXCEPT ![c] = @ - 1]
  /\ Go(c, IF lockCount[c] = 1 THEN "sti"
           ELSE IF kind = "owner" /\ lk.owner = c THEN "in" ELSE "out")
  /\ UNCHANGED <<kind, IF_, ctx, op, lk, lk2, mine>>

EnableInterrupts(c) ==
  /\ At(c, "sti")
  /\ IF_' = [IF_ EXCEPT ![c] = TRUE]
  /\ Go(c, "out")
  /\ UNCHANGED <<kind, lockCount, ctx, op, lk, lk2, mine>>

(* An interrupt: the gate clears the flag, IsrEntry counts (lockFake) ...  *)
Interrupt(c) ==
  /\ ctx[c] = "thread" /\ IF_[c]
  /\ IF_' = [IF_ EXCEPT ![c] = FALSE]
  /\ ctx' = [ctx EXCEPT ![c] = "handler"]
  /\ lockCount' = [lockCount EXCEPT ![c] = @ + 1]
  /\ UNCHANGED <<kind, at, op, lk, lk2, mine>>

(* ... and at the end uncounts (unlockFake); iretq restores the flag.      *)
Return(c) ==
  /\ ctx[c] = "handler" /\ At(c, "out")
  /\ IF_' = [IF_ EXCEPT ![c] = TRUE]
  /\ ctx' = [ctx EXCEPT ![c] = "thread"]
  /\ lockCount' = [lockCount EXCEPT ![c] = @ - 1]
  /\ UNCHANGED <<kind, at, op, lk, lk2, mine>>

-----------------------------------------------------------------------------
(* The callers: acquire or tryAcquire, possibly again while in an owner    *)
(* lock, or acquire(l) from within the first lock.                         *)
Begin(c, o) ==
  /\ \/ At(c, "out") /\ o \in {"acquire", "tryAcquire"}
     \/ At(c, "in") /\ kind = "owner" /\ lk.counter < MaxNest /\ o \in {"acquire", "tryAcquire"}
     \/ At(c, "in") /\ kind = "binary" /\ o = "handOver"
  /\ op' = [op EXCEPT ![c][ctx[c]] = o]
  /\ Go(c, "lock")
  /\ UNCHANGED <<kind, cpuState, lk, lk2, mine>>

(* BinarySpinLock and OwnerSpinLock: one atomic instruction decides; who   *)
(* loses spins or gives up.                                                *)
GetBinary(c) ==
  /\ At(c, "get") /\ kind = "binary" /\ Op(c) # "handOver"
  /\ IF lk.owner = NoOwner THEN lk' = [lk EXCEPT !.owner = c] /\ Go(c, "in")
     ELSE Op(c) = "tryAcquire" /\ Go(c, "unlock") /\ UNCHANGED lk
  /\ UNCHANGED <<kind, cpuState, op, lk2, mine>>

GetOwner(c) ==
  /\ At(c, "get") /\ kind = "owner"
  /\ IF lk.owner \in {NoOwner, c}
     THEN lk' = [lk EXCEPT !.owner = c, !.counter = @ + 1] /\ Go(c, "in")
     ELSE Op(c) = "tryAcquire" /\ Go(c, "unlock") /\ UNCHANGED lk
  /\ UNCHANGED <<kind, cpuState, op, lk2, mine>>

(* acquire(l): the second lock, then the release of the first: its count   *)
(* is given back too.                                                      *)
GetSecond(c) ==
  /\ At(c, "get") /\ Op(c) = "handOver" /\ ~lk2
  /\ lk2' = TRUE
  /\ Go(c, "handOver")
  /\ UNCHANGED <<kind, cpuState, op, lk, mine>>

HandOver(c) ==
  /\ At(c, "handOver")
  /\ lk' = [lk EXCEPT !.owner = NoOwner]
  /\ lockCount' = [lockCount EXCEPT ![c] = @ - 1]
  /\ IF_' = [IF_ EXCEPT ![c] = (lockCount[c] = 1)]
  /\ Go(c, "in2")
  /\ UNCHANGED <<kind, ctx, op, lk2, mine>>

(* TicketSpinLock::acquire: draw a ticket, wait until it is served.        *)
Draw(c) ==
  /\ At(c, "get") /\ kind = "ticket" /\ Op(c) = "acquire"
  /\ mine' = [mine EXCEPT ![c] = lk.tail]
  /\ lk' = [lk EXCEPT !.tail = @ + 1]
  /\ Go(c, "wait")
  /\ UNCHANGED <<kind, cpuState, op, lk2>>

Served(c) ==
  /\ At(c, "wait") /\ mine[c] = 0
  /\ Go(c, "in")
  /\ UNCHANGED <<kind, cpuState, op, lk, lk2, mine>>

(* tryAcquire: read serving, then compare the ticket with it and swap.     *)
TryRead(c) ==
  /\ At(c, "get") /\ kind = "ticket" /\ Op(c) = "tryAcquire"
  /\ mine' = [mine EXCEPT ![c] = 0]
  /\ Go(c, "cas")
  /\ UNCHANGED <<kind, cpuState, op, lk, lk2>>

CasSucceeds(c) == lk.tail = mine[c]

TrySwap(c) ==
  /\ At(c, "cas")
  /\ IF CasSucceeds(c) THEN lk' = [lk EXCEPT !.tail = @ + 1] /\ Go(c, "in")
     ELSE Go(c, "unlock") /\ UNCHANGED lk
  /\ UNCHANGED <<kind, cpuState, op, lk2, mine>>

-----------------------------------------------------------------------------
(* The releases.                                                           *)

ReleaseOwner == [lk EXCEPT !.counter = @ - 1, !.owner = IF lk.counter = 1 THEN NoOwner ELSE @]

(* serving + 1: every ticket is one nearer.                                *)
ServeNext ==
  /\ mine' = [c \in SpinCpu |-> IF mine[c] < 0 THEN -1 ELSE mine[c] - 1]
  /\ lk' = [lk EXCEPT !.tail = @ - 1]

SpinRelease(c) ==
  /\ At(c, "in")
  /\ \/ kind = "binary" /\ lk' = [lk EXCEPT !.owner = NoOwner] /\ UNCHANGED mine
     \/ kind = "owner" /\ lk' = ReleaseOwner /\ UNCHANGED mine
     \/ kind = "ticket" /\ ServeNext
  /\ Go(c, "unlock")
  /\ UNCHANGED <<kind, cpuState, op, lk2>>

ReleaseSecond(c) ==
  /\ At(c, "in2")
  /\ lk2' = FALSE
  /\ Go(c, "unlock")
  /\ UNCHANGED <<kind, cpuState, op, lk, mine>>

SpinStep(c) ==
  \/ SpinLock(c) \/ DisableInterrupts(c) \/ IncLockCount(c) \/ DecLockCount(c) \/ EnableInterrupts(c)
  \/ Return(c) \/ GetBinary(c) \/ GetOwner(c) \/ GetSecond(c) \/ HandOver(c)
  \/ Draw(c) \/ Served(c) \/ TryRead(c) \/ TrySwap(c) \/ SpinRelease(c) \/ ReleaseSecond(c)

SpinNext == \E c \in SpinCpu :
  Interrupt(c) \/ (\E o \in {"acquire", "tryAcquire", "handOver"} : Begin(c, o)) \/ SpinStep(c)

(* A CPU does not stop, and handlers end.                                  *)
SpinFairness == \A c \in SpinCpu : WF_spinVars(SpinStep(c))
SpinSpec == SpinInit /\ [][SpinNext]_spinVars /\ SpinFairness

-----------------------------------------------------------------------------
Inside(c, x) == at[c][x] \in {"in", "handOver"}

(* One CPU is in the critical section, and never its handler on top of its *)
(* thread: the tests, compare-and-swaps and counters of all three kinds    *)
(* (SpinLock.h lines 30-105).                                              *)
SpinExclusive ==
  \A c, d \in SpinCpu : \A x, y \in Ctx :
    Inside(c, x) /\ Inside(d, y) => c = d /\ x = y

(* checkLock's assertion, interruptsEnabled == (lockCount == 0), at every  *)
(* call, although lock() tests and sets in three steps that an interrupt   *)
(* can separate ("I believe this is safe", Processor.h lines 155-167); and *)
(* interrupts are off wherever the locks assert it.                        *)
CountMatchesFlag ==
  \A c \in SpinCpu :
    /\ At(c, "out") \/ At(c, "in") \/ At(c, "in2") => IF_[c] = (lockCount[c] = 0)
    /\ At(c, "get") \/ At(c, "wait") \/ At(c, "cas") \/ At(c, "unlock") => ~IF_[c]

(* Whoever draws a ticket gets the lock (TicketSpinLock::acquire).         *)
TicketServed ==
  \A c \in SpinCpu : \A x \in Ctx : at[c][x] = "wait" ~> at[c][x] = "in"

(* A spin lock has one holder at a time, and a CPU takes interrupts exactly *)
(* when it holds none, whatever handlers nest (SpinLock.h, Processor.h).   *)
SpinSound == SpinExclusive /\ CountMatchesFlag

-----------------------------------------------------------------------------
(***************************************************************************)
(* The inductive invariant from which SpinSound follows.                   *)
(***************************************************************************)
Pos(c) == at[c][ctx[c]]
Position == {"out", "lock", "cli", "inc", "get", "wait", "cas", "in",
             "handOver", "in2", "unlock", "sti"}

SpinTypeOK ==
  /\ kind \in Kind
  /\ IF_ \in [SpinCpu -> BOOLEAN]
  /\ lockCount \in [SpinCpu -> Nat]
  /\ ctx \in [SpinCpu -> Ctx]
  /\ at \in [SpinCpu -> [Ctx -> Position]]
  /\ op \in [SpinCpu -> [Ctx -> {"acquire", "tryAcquire", "handOver"}]]
  /\ lk \in [owner : SpinCpu \cup {NoOwner}, counter : Nat, tail : Nat]
  /\ lk2 \in BOOLEAN
  /\ mine \in [SpinCpu -> Int]

(* The lock count of a CPU adds up: what the interrupt counts, the nested  *)
(* holds of the owner lock, the first lock while it is handed over, and    *)
(* the call under way.                                                     *)
Entered(c) == IF ctx[c] = "handler" THEN 1 ELSE 0
Nested(c) == IF kind = "owner" /\ lk.owner = c THEN lk.counter ELSE 0
HandingOver(c) == IF Op(c) = "handOver" THEN 1 ELSE 0

CountInv(c) ==
  /\ Pos(c) \in {"out", "sti"} => lockCount[c] = Entered(c)
  /\ Pos(c) \in {"lock", "cli", "inc"} =>
       lockCount[c] = Entered(c) + Nested(c) + HandingOver(c)
  /\ Pos(c) = "get" => lockCount[c] = Entered(c) + Nested(c) + HandingOver(c) + 1
  /\ Pos(c) = "in" => lockCount[c] = Entered(c) + IF kind = "owner" THEN Nested(c) ELSE 1
  /\ Pos(c) \in {"wait", "cas", "in2"} => lockCount[c] = Entered(c) + 1
  /\ Pos(c) = "handOver" => lockCount[c] = Entered(c) + 2
  /\ Pos(c) = "unlock" => lockCount[c] = Entered(c) + Nested(c) + 1

(* Interrupts are on outside the locks and until the first cli only, and a *)
(* thread is interrupted only there: its handler finds no lock taken.      *)
FlagInv(c) ==
  /\ IF_[c] <=> /\ ctx[c] = "thread"
                /\ Pos(c) = "out" \/ (Pos(c) \in {"lock", "cli"} /\ lockCount[c] = 0)
  /\ Pos(c) \in {"cli", "sti"} => lockCount[c] = 0
  /\ ctx[c] = "thread" => at[c]["handler"] = "out"
  /\ ctx[c] = "handler" => \/ at[c]["thread"] = "out"
                           \/ at[c]["thread"] \in {"lock", "cli"} /\ op[c]["thread"] # "handOver"

(* Who is inside, or on the way from the first lock to the second, is the  *)
(* holder; the holder of the owner lock is inside or in a nested call.     *)
HolderInv(c) ==
  /\ Pos(c) = "in" /\ kind # "ticket" => lk.owner = c
  /\ Pos(c) = "handOver" => lk.owner = c
  /\ Pos(c) \in {"lock", "cli", "inc", "get"} /\ Op(c) = "handOver" =>
       kind = "binary" /\ lk.owner = c
  /\ Pos(c) \in {"handOver", "in2"} => kind = "binary"
  /\ Pos(c) \in {"wait", "cas"} => kind = "ticket"
  /\ kind = "owner" /\ lk.owner = c =>
       Pos(c) \in {"lock", "inc", "get", "in", "unlock"} /\ lk.counter > 0

(* Tickets that have been drawn and not been served yet are distinct and   *)
(* below the next one; the one inside is the one being served; a try has   *)
(* read the present value of serving or an old one.                        *)
Drawn(c) == kind = "ticket" /\ Pos(c) \in {"wait", "in"}
TicketInv ==
  /\ \A c \in SpinCpu : Drawn(c) => 0 <= mine[c] /\ mine[c] < lk.tail
  /\ \A c \in SpinCpu : Drawn(c) /\ Pos(c) = "in" => mine[c] = 0
  /\ \A c \in SpinCpu : Pos(c) = "cas" => mine[c] <= 0
  /\ \A c, d \in SpinCpu : Drawn(c) /\ Drawn(d) /\ c # d => mine[c] # mine[d]

SpinInv ==
  /\ SpinTypeOK
  /\ lk.owner = NoOwner \/ kind # "owner" => lk.counter = 0
  /\ \A c \in SpinCpu : CountInv(c) /\ FlagInv(c) /\ HolderInv(c)
  /\ TicketInv
=============================================================================
