-------------------------------- MODULE MCIo --------------------------------
(* The way from an interrupt to a descriptor, one part at a time: the       *)
(* interrupt controllers and the IRQ thread, the keyboard, what a           *)
(* descriptor refers to, and the table of descriptors.                      *)
(* `part' says which one moves, and only that one is treated fairly.        *)
EXTENDS Interrupts, Keyboard, IoAccess, HandleTable, TLC

CONSTANTS t1, t2, t3, a1, a2, a3, a4

VARIABLE part

MCOverride == (0 :> 2) @@ (8 :> 8) @@ (1 :> 1) @@ (9 :> 9)
MCStd == <<a1, a2>>

ioVars == <<part, irqVars, kbVars, accessVars, htVars>>

MCInit ==
  /\ part \in {"irq", "keyboard", "access", "handles"}
  /\ InterruptsInit /\ KbInit /\ AccessInit /\ HtInit
  /\ (part # "keyboard" => wire = <<>>)

MCNext ==
  /\ UNCHANGED part
  /\ \/ part = "irq" /\ InterruptsNext /\ UNCHANGED <<kbVars, accessVars, htVars>>
     \/ part = "keyboard" /\ KbNext /\ UNCHANGED <<irqVars, accessVars, htVars>>
     \/ part = "access" /\ AccessNext /\ UNCHANGED <<irqVars, kbVars, htVars>>
     \/ part = "handles" /\ HtNext /\ UNCHANGED <<irqVars, kbVars, accessVars>>

(* The fairness of InterruptsSpec, for the part that moves, and of          *)
(* HtFairSpec, in whose initial state nothing fair is enabled.              *)
MCFairness ==
  /\ WF_irqVars(part = "irq" /\ RtcInit)
  /\ WF_irqVars(part = "irq" /\ RtcFires)
  /\ WF_irqVars(part = "irq" /\ RtcHandler)
  /\ WF_irqVars(part = "irq" /\ IrqThread)
  /\ \A irq \in DeviceIrq : SF_irqVars(part = "irq" /\ IrqHandlerAsync(VectorOf(irq)))
  /\ \A c \in Cpus : SF_irqVars(part = "irq" /\ Preempt(c))
  /\ HtFairness

MCSpec == MCInit /\ [][MCNext]_ioVars /\ MCFairness

(* Every processor is preempted again and again by the one RTC              *)
(* (PreemptEverywhere of Interrupts, where it moves: Machine.cc             *)
(* irq_handler_0xf8).                                                       *)
MCPreemptEverywhere == part = "irq" => PreemptEverywhere
=============================================================================
