------------------------------- MODULE MCGdb --------------------------------
(* The two halves of the gdb stub, one in each half of the states: the     *)
(* CPUs that take turns, and the one whose turn it is at the serial line.  *)
EXTENDS Gdb, GdbLine

VARIABLE part

MCInit == part \in {"cpus", "line"} /\ Init /\ LineInit
MCNext ==
  \/ part = "cpus" /\ Next /\ UNCHANGED <<part, lineVars>>
  \/ part = "line" /\ LineNext /\ UNCHANGED <<part, vars>>

(* Nothing fair is enabled in the initial state of the other half.         *)
MCSpec == MCInit /\ [][MCNext]_<<part, vars, lineVars>> /\ Fairness /\ LineFairness

(* A CPU that traps gets its turn at the line and is let go again, and the *)
(* stub answers every packet that gdb repeats until it is acknowledged     *)
(* (TrapServed of Gdb, Answered of GdbLine: Gdb.cc handle_exception,       *)
(* getpacket and putpacket).                                               *)
GdbLive == TrapServed /\ Answered
=============================================================================
