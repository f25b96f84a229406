--------------------------- MODULE MCThreadSwitch ---------------------------
(* ThreadSwitch for TLC: two CPUs, their boot and idle threads, and three  *)
(* more threads.                                                           *)
EXTENDS ThreadSwitch, TLC

CONSTANTS c1, c2, i1, i2, m1, m2, t1, t2, t3

MCIdleOf == c1 :> i1 @@ c2 :> i2
MCMainOf == c1 :> m1 @@ c2 :> m2
MCPeer == c1 :> c2 @@ c2 :> c1
MCPrio == [t \in Thread |-> IF t \in {i1, i2} THEN idlePriority ELSE 1]
=============================================================================
