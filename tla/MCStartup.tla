----------------------------- MODULE MCStartup ------------------------------
(* Startup for TLC: a MADT that lists the boot processor second, with one  *)
(* processor disabled.                                                     *)
EXTENDS Startup

Apic(n, id, on) == [processorId |-> n, id |-> id, enabled |-> on]
MCApics == {Apic(0, 2, TRUE), Apic(1, 0, TRUE), Apic(2, 4, FALSE), Apic(3, 6, TRUE)}
=============================================================================
