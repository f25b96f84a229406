------------------------------ MODULE Startup ------------------------------
(***************************************************************************)
(* The start of the application processors (Machine::initBSP2, initAP,      *)
(* initAP2, boot.S).  The boot processor takes one after the other: it      *)
(* publishes the index in apIndex, sends INIT and then STARTUP until the    *)
(* processor has put bspIndex there, and starts over after too many tries.  *)
(* A processor that starts takes a ticket (boot.S), which initAP asserts to *)
(* be apIndex, initializes the entry of processorTable and leaves the boot  *)
(* stack.                                                                   *)
(*                                                                         *)
(* An IPI takes two register writes, the destination and then the command. *)
(* The boot processor has its interrupts enabled meanwhile, and the RTC     *)
(* handler sends its PreemptIPI through the same registers.                 *)
(***************************************************************************)
EXTENDS Naturals, FiniteSets

CONSTANTS
  LocalApic,  \* the LOCAL_APIC entries of the ACPI MADT: processorId, id, enabled
  MaxSipi,    \* STARTUP IPIs for one INIT (10 in the code)
  MaxTicket   \* bound: processors that pass boot.S

(* At least one entry is enabled, and no two have the same processorId. *)

(* initACPI collects the processors that are enabled, in a map sorted by    *)
(* processorId; their places in it are the indices of processorTable.        *)
ApicMap == {a \in LocalApic : a.enabled}
Processor == 0..(Cardinality(ApicMap) - 1)
CoreIdx(a) == Cardinality({b \in ApicMap : b.processorId < a.processorId})

VARIABLES
  bspIndex,   \* the index of the boot processor, found by its APIC ID
  apIndex,    \* "enumerate APs"
  boot,       \* the boot processor: where it is, its idx, STARTUPs sent
  icrHigh,    \* destination register of its APIC
  ap,         \* where each processor is
  idx,        \* the ticket each one took in boot.S
  ticket      \* the next ticket

startVars == <<bspIndex, apIndex, boot, icrHigh, ap, idx, ticket>>

(* The boot processor, any of them, has taken ticket 0 and found its index  *)
(* by its APIC ID.                                                           *)
StartupInit ==
  /\ \E a \in ApicMap : bspIndex = CoreIdx(a)
  /\ apIndex = 0
  /\ boot = [at |-> "next", cpu |-> 0, sipi |-> 0]
  /\ icrHigh \in Processor
  /\ ap = [p \in Processor |-> IF p = bspIndex THEN "up" ELSE "off"]
  /\ idx = [p \in Processor |-> 0]
  /\ ticket = 1

(* The loop over the processors. *)
NextProcessor ==
  /\ boot.at = "next"
  /\ boot.cpu \in Processor
  /\ IF boot.cpu = bspIndex
     THEN boot' = [boot EXCEPT !.cpu = @ + 1] /\ UNCHANGED apIndex
     ELSE boot' = [boot EXCEPT !.at = "init"] /\ apIndex' = boot.cpu
  /\ UNCHANGED <<bspIndex, icrHigh, ap, idx, ticket>>

(* APIC::ipi, the first write: the destination. *)
WriteHigh ==
  /\ boot.at \in {"init", "startup"}
  /\ icrHigh' = boot.cpu
  /\ boot' = [boot EXCEPT !.at = IF @ = "init" THEN "sendInit" ELSE "sendStartup"]
  /\ UNCHANGED <<bspIndex, apIndex, ap, idx, ticket>>

(* The second write sends the command: INIT resets the processor ... *)
SendInit ==
  /\ boot.at = "sendInit"
  /\ ap' = [ap EXCEPT ![icrHigh] = "wait"]
  /\ boot' = [boot EXCEPT !.at = "startup", !.sipi = 0]
  /\ UNCHANGED <<bspIndex, apIndex, icrHigh, idx, ticket>>

(* ... and STARTUP starts one that waits for it, and only that one. *)
SendStartup ==
  /\ boot.at = "sendStartup"
  /\ ap' = [ap EXCEPT ![icrHigh] = IF @ = "wait" THEN "boot16" ELSE @]
  /\ boot' = [boot EXCEPT !.at = "poll", !.sipi = @ + 1]
  /\ UNCHANGED <<bspIndex, apIndex, icrHigh, idx, ticket>>

(* The processor has answered, or a thousand clock ticks have passed. *)
Poll ==
  /\ boot.at = "poll"
  /\ boot' = IF apIndex # boot.cpu THEN [boot EXCEPT !.at = "next", !.cpu = @ + 1]
             ELSE [boot EXCEPT !.at = IF boot.sipi < MaxSipi THEN "startup" ELSE "init"]
  /\ UNCHANGED <<bspIndex, apIndex, icrHigh, ap, idx, ticket>>

(* The RTC handler on the boot processor sends a PreemptIPI. *)
RtcInterrupt ==
  /\ ap[bspIndex] = "up"
  /\ \E p \in Processor : icrHigh' = p
  /\ UNCHANGED <<bspIndex, apIndex, boot, ap, idx, ticket>>

(* boot.S: the ticket. *)
TakeTicket16(p) ==
  /\ ap[p] = "boot16" /\ ticket < MaxTicket
  /\ idx' = [idx EXCEPT ![p] = ticket]
  /\ ticket' = ticket + 1
  /\ ap' = [ap EXCEPT ![p] = "initAP"]
  /\ UNCHANGED <<bspIndex, apIndex, boot, icrHigh>>

(* initAP up to the end of initAP2. *)
InitAP(p) ==
  /\ ap[p] = "initAP" /\ idx[p] = apIndex
  /\ ap' = [ap EXCEPT ![p] = "initAP2"]
  /\ UNCHANGED <<bspIndex, apIndex, boot, icrHigh, idx, ticket>>

InitAP2(p) ==
  /\ ap[p] = "initAP2"
  /\ apIndex' = bspIndex
  /\ ap' = [ap EXCEPT ![p] = "up"]
  /\ UNCHANGED <<bspIndex, boot, icrHigh, idx, ticket>>

BootProcessor == NextProcessor \/ WriteHigh \/ SendInit \/ SendStartup \/ Poll \/ RtcInterrupt

StartupNext ==
  \/ ap[bspIndex] = "up" /\ BootProcessor
  \/ \E p \in Processor : TakeTicket16(p) \/ InitAP(p) \/ InitAP2(p)

StartupSpec == StartupInit /\ [][StartupNext]_startVars

-----------------------------------------------------------------------------
(* The assertion of initAP: the ticket a processor took in boot.S is the    *)
(* index the boot processor waits for (Machine.cc 123).                      *)
TicketIsIndex == \A p \in Processor : ap[p] = "initAP" => idx[p] = apIndex

=============================================================================
