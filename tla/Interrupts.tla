----------------------------- MODULE Interrupts -----------------------------
(***************************************************************************)
(* Device interrupts: the IOAPIC redirection of an IRQ to a vector, the    *)
(* interrupt table, the handlers that run on the boot processor with       *)
(* interrupts off, and the IRQ thread that runs the drivers' handlers      *)
(* later.  An asynchronous IRQ only sets a bit of irqMask; the RTC tick    *)
(* looks at the mask and wakes the thread; the thread clears a bit and     *)
(* runs the handlers of that IRQ.  The tick also preempts the processors   *)
(* in turn.                                                                *)
(*                                                                         *)
(* Devices raise edges: an edge is latched as a pending vector of the boot *)
(* processor (or lost while the redirection entry is masked), and a driver *)
(* handler takes everything its device has by then.                        *)
(***************************************************************************)
EXTENDS Integers, FiniteSets, FiniteSetsExt

CONSTANTS
  DeviceIrq,   \* IRQs of devices with an asynchronous handler
  Override,    \* ACPI: the IOAPIC pin of each IRQ that is used
  Processors,  \* number of processors
  MaxWork,     \* bound: requests a device has for its driver
  MaxTokens,   \* bound: tokens of asyncIrqSem told apart
  MaxShared    \* bound: drivers that share an IRQ

RtcIrq == 8
RtcVector == 248
MaxIrqCount == 192

ASSUME InterruptAssumption ==
  /\ DeviceIrq \subseteq 0..(MaxIrqCount - 1) \ {RtcIrq} /\ IsFiniteSet(DeviceIrq)
  /\ Processors \in Nat \ {0} /\ MaxWork \in Nat \ {0} /\ MaxTokens \in Nat \ {0} /\ MaxShared \in Nat \ {0}
  /\ DeviceIrq \cup {RtcIrq} \subseteq DOMAIN Override

VARIABLES
  redirect,    \* IOAPIC: the vector of each pin, 0 while the entry is masked
  handlers,    \* how many driver handlers irqTable has for each IRQ
  work,        \* what each device has for its driver
  pending,     \* vectors latched for the boot processor
  irqMask,     \* IRQs that wait for the IRQ thread
  asyncIrqSem, \* tokens of the semaphore the IRQ thread waits on
  irqThread,   \* where the IRQ thread is, and the index it found
  isr,         \* where the boot processor is in the RTC handler
  statusC,     \* RTC: status register C has not been read since the last tick
  currentTick, \* RTC tick, modulo the number of processors
  preemptIPI,  \* processors with a PreemptIPI pending
  preempted    \* the processor that was preempted last

irqVars == <<redirect, handlers, work, pending, irqMask, asyncIrqSem, irqThread,
             isr, statusC, currentTick, preemptIPI, preempted>>

Pin == {Override[i] : i \in DOMAIN Override}
Cpus == 0..(Processors - 1)

(* The interrupt table: which kind of handler a vector has. *)
ExceptionVectors == 0..31
AsyncVectors == 32..223
DirectVectors == {224, 237, 238, 239, 240, 241, 247, 248, 249, 252, 255}
UndefinedVectors == 0..255 \ (ExceptionVectors \cup AsyncVectors \cup DirectVectors)

(* What the wrapper of an asynchronous vector passes to irq_handler_async. *)
IndexOf(vector) == vector - 32

(* The vector registerIrqAsync asks for. *)
VectorOf(irq) == irq + 32

InterruptsInit ==
  /\ redirect = [p \in Pin |-> 0]
  /\ handlers = [i \in DeviceIrq |-> 0]
  /\ work = [i \in DeviceIrq |-> 0]
  /\ pending = {}
  /\ irqMask = {}
  /\ asyncIrqSem = 0
  /\ irqThread = [at |-> "P", idx |-> 0]
  /\ isr = "none"
  /\ statusC = FALSE
  /\ currentTick = 0
  /\ preemptIPI = {}
  /\ preempted = 0

(* mapIrq: program, or mask when the vector is 0, the pin of an IRQ. *)
MapIrq(irq, vector) == redirect' = [redirect EXCEPT ![Override[irq]] = vector]

(* rtc.init: the handler is mapped, then register C read once, which starts   *)
(* the periodic interrupt and counts as a tick.                               *)
RtcInit ==
  /\ redirect[Override[RtcIrq]] = 0
  /\ MapIrq(RtcIrq, RtcVector)
  /\ statusC' = FALSE
  /\ currentTick' = (currentTick + 1) % Processors
  /\ UNCHANGED <<handlers, work, pending, irqMask, asyncIrqSem, irqThread, isr, preemptIPI, preempted>>

(* The pin is mapped for the first handler of an IRQ ... *)
RegisterIrqAsync(irq) ==
  /\ handlers[irq] < MaxShared
  /\ IF handlers[irq] = 0 THEN MapIrq(irq, VectorOf(irq)) ELSE UNCHANGED redirect
  /\ handlers' = [handlers EXCEPT ![irq] = @ + 1]
  /\ UNCHANGED <<work, pending, irqMask, asyncIrqSem, irqThread, isr, statusC, currentTick, preemptIPI, preempted>>

(* ... and masked when the last one is gone.  A driver takes its handler    *)
(* back when the device is quiet and the IRQ thread is not in the list.      *)
DeregisterIrqAsync(irq) ==
  /\ handlers[irq] > 0 /\ (handlers[irq] = 1 => work[irq] = 0)
  /\ ~(irqThread.at = "run" /\ irqThread.idx = irq)
  /\ IF handlers[irq] = 1 THEN MapIrq(irq, 0) ELSE UNCHANGED redirect
  /\ handlers' = [handlers EXCEPT ![irq] = @ - 1]
  /\ UNCHANGED <<work, pending, irqMask, asyncIrqSem, irqThread, isr, statusC, currentTick, preemptIPI, preempted>>

(* The edge of a pin: latched when its redirection entry is not masked. *)
Edge(pin) == IF redirect[pin] = 0 THEN pending ELSE pending \cup {redirect[pin]}

(* A device whose driver runs has something to tell it. *)
DeviceRaises(irq) ==
  /\ handlers[irq] > 0 /\ work[irq] < MaxWork
  /\ work' = [work EXCEPT ![irq] = @ + 1]
  /\ pending' = Edge(Override[irq])
  /\ UNCHANGED <<redirect, handlers, irqMask, asyncIrqSem, irqThread, isr, statusC, currentTick, preemptIPI, preempted>>

(* The RTC fires again only after its register C has been read. *)
RtcFires ==
  /\ redirect[Override[RtcIrq]] # 0 /\ ~statusC
  /\ statusC' = TRUE
  /\ pending' = Edge(Override[RtcIrq])
  /\ UNCHANGED <<redirect, handlers, work, irqMask, asyncIrqSem, irqThread, isr, currentTick, preemptIPI, preempted>>

(* irq_handler_async: sets the bit, with interrupts off. *)
IrqHandlerAsync(vector) ==
  /\ isr = "none" /\ vector \in pending \cap AsyncVectors
  /\ pending' = pending \ {vector}
  /\ irqMask' = irqMask \cup {IndexOf(vector)}
  /\ UNCHANGED <<redirect, handlers, work, asyncIrqSem, irqThread, isr, statusC, currentTick, preemptIPI, preempted>>

\* Mutant: the RTC's interrupt is served without reading register C.
HandlerWithoutRead ==
  /\ currentTick' = (currentTick + 1) % Processors
  /\ UNCHANGED statusC

\* Mutant: the tick is counted by rtc.init alone.
HandlerWithoutTick ==
  /\ statusC' = FALSE
  /\ UNCHANGED currentTick

(* RTC::staticInterruptHandler. *)
StaticInterruptHandler ==
  /\ statusC' = FALSE
  /\ currentTick' = (currentTick + 1) % Processors

(* The RTC handler reads the RTC and looks whether an IRQ waits ... *)
RtcTick ==
  /\ isr = "none" /\ RtcVector \in pending
  /\ pending' = pending \ {RtcVector}
  /\ StaticInterruptHandler
  /\ isr' = IF irqMask # {} THEN "V" ELSE "ipi"
  /\ UNCHANGED <<redirect, handlers, work, irqMask, asyncIrqSem, irqThread, preemptIPI, preempted>>

(* ... wakes the IRQ thread ... *)
RtcV ==
  /\ isr = "V"
  /\ asyncIrqSem' = Min({asyncIrqSem + 1, MaxTokens})
  /\ isr' = "ipi"
  /\ UNCHANGED <<redirect, handlers, work, pending, irqMask, irqThread, statusC, currentTick, preemptIPI, preempted>>

(* ... and preempts the processor whose turn it is. *)
RtcPreempts ==
  /\ isr = "ipi"
  /\ preemptIPI' = preemptIPI \cup {currentTick}
  /\ isr' = "none"
  /\ UNCHANGED <<redirect, handlers, work, pending, irqMask, asyncIrqSem, irqThread, statusC, currentTick, preempted>>

(* PreemptIPI at processor c. *)
Preempt(c) ==
  /\ c \in preemptIPI /\ (c = 0 => isr = "none")
  /\ preemptIPI' = preemptIPI \ {c}
  /\ preempted' = c
  /\ UNCHANGED <<redirect, handlers, work, pending, irqMask, asyncIrqSem, irqThread, isr, statusC, currentTick>>

(* asyncIrqLoop finds a bit, clears it, runs the handlers and looks again. *)
LoopOrder == [find |-> "clr", clr |-> "run", run |-> "find"]

LoopP ==
  /\ irqThread.at = "P" /\ asyncIrqSem > 0
  /\ asyncIrqSem' = asyncIrqSem - 1
  /\ irqThread' = [irqThread EXCEPT !.at = "find"]
  /\ UNCHANGED <<redirect, handlers, work, pending, irqMask, isr, statusC, currentTick, preemptIPI, preempted>>

LoopFind ==
  /\ irqThread.at = "find"
  /\ irqThread' = IF irqMask = {} THEN [irqThread EXCEPT !.at = "P"]
                  ELSE [at |-> LoopOrder["find"], idx |-> Min(irqMask)]
  /\ UNCHANGED <<redirect, handlers, work, pending, irqMask, asyncIrqSem, isr, statusC, currentTick, preemptIPI, preempted>>

LoopClr ==
  /\ irqThread.at = "clr"
  /\ irqThread' = [irqThread EXCEPT !.at = LoopOrder["clr"]]
  /\ irqMask' = irqMask \ {irqThread.idx}
  /\ UNCHANGED <<redirect, handlers, work, pending, asyncIrqSem, isr, statusC, currentTick, preemptIPI, preempted>>

(* The driver's handler takes all its device has; none is registered any    *)
(* more for an IRQ that was deregistered after its bit was set.              *)
LoopRun ==
  /\ irqThread.at = "run"
  /\ irqThread' = [irqThread EXCEPT !.at = LoopOrder["run"]]
  /\ work' = [i \in DeviceIrq |-> IF i = irqThread.idx /\ handlers[i] > 0 THEN 0 ELSE work[i]]
  /\ UNCHANGED <<redirect, handlers, pending, irqMask, asyncIrqSem, isr, statusC, currentTick, preemptIPI, preempted>>

IrqThread == LoopP \/ LoopFind \/ LoopClr \/ LoopRun
RtcHandler == RtcTick \/ RtcV \/ RtcPreempts

InterruptsNext ==
  \/ RtcInit \/ RtcFires \/ RtcHandler \/ IrqThread
  \/ \E irq \in DeviceIrq : RegisterIrqAsync(irq) \/ DeregisterIrqAsync(irq) \/ DeviceRaises(irq)
  \/ \E vector \in pending : IrqHandlerAsync(vector)
  \/ \E c \in Cpus : Preempt(c)

(* The RTC ticks, and the IRQ thread has the top priority.  A handler is    *)
(* over long before the next tick, so that a processor gets to its other     *)
(* pending vectors between two ticks: strong fairness, because they are not  *)
(* taken inside the handler.                                                 *)
InterruptsFairness ==
  /\ WF_irqVars(RtcInit) /\ WF_irqVars(RtcFires) /\ WF_irqVars(RtcHandler) /\ WF_irqVars(IrqThread)
  /\ \A irq \in DeviceIrq : SF_irqVars(IrqHandlerAsync(VectorOf(irq)))
  /\ \A c \in Cpus : SF_irqVars(Preempt(c))

InterruptsSpec == InterruptsInit /\ [][InterruptsNext]_irqVars /\ InterruptsFairness

-----------------------------------------------------------------------------
(* What a device has for its driver is never forgotten: its vector is       *)
(* pending, its bit is set, or the IRQ thread is on its way to the handler   *)
(* with the bit cleared (Machine.cc asyncIrqLoop, irq_handler_async).        *)
IrqNotLost ==
  \A irq \in DeviceIrq : work[irq] > 0 =>
    \/ VectorOf(irq) \in pending
    \/ irq \in irqMask
    \/ irqThread.at = "run" /\ irqThread.idx = irq

(* A device's request reaches its driver, although the interrupt itself     *)
(* wakes nobody and only the next RTC tick looks at the mask                 *)
(* (Machine.cc irq_handler_0xf8).  The IRQ thread takes the lowest bit of    *)
(* the mask first, so a device that never stops starves those above it:      *)
(* that is the one exception (Machine.cc asyncIrqLoop).                      *)
IrqServed ==
  \A irq \in DeviceIrq :
    \/ []<>(work[irq] = 0)
    \/ \E lower \in DeviceIrq : lower < irq /\ []<>(lower \in irqMask)

(* Every processor is preempted again and again by the one RTC              *)
(* (Machine.cc irq_handler_0xf8: "simulate APIC timer interrupts").          *)
PreemptEverywhere == \A c \in Cpus : []<>(preempted = c)

(* An interrupt reaches the thread that runs its handlers: it is never     *)
(* forgotten on the way, and unless lower interrupts keep coming the       *)
(* handlers run (Machine.cc irq_handler_async, asyncIrqLoop).              *)
IrqDelivered == []IrqNotLost /\ IrqServed

=============================================================================
