------------------------------ MODULE MCMemory ------------------------------
(* The parts that manage memory, and the entries to the kernel that need no *)
(* more than safety either, each in states of its own: `part' says which    *)
(* one moves.                                                               *)
EXTENDS AddressSpace, FrameManager, BootMemory, Paging, KernelHeap, IntrusiveList, Isr, TLC

CONSTANTS c1, c2, c3, p, q

VARIABLE part

(* CPUs and frames of the address space are alike, and so are the CPUs of   *)
(* the frame manager: they have the names of the frames, as only one of the *)
(* two parts moves.                                                         *)
MCSymmetry == Permutations(CPU) \cup Permutations(Frame)

(* Memory maps: low memory, and two more areas that may touch, overlap or   *)
(* cover each other, in any order.  An area holds a page at least.          *)
MCEnds == {16, 17, 19, 23, 24, 26, 31, 40}
MCAreas == {r \in {Region(x, y) : x \in MCEnds, y \in MCEnds} :
              \E k \in 0 .. 20 : r.start <= k * SmallPs /\ (k + 1) * SmallPs <= r.end}
MCMemoryMaps == {<<Region(0, x), a, b>> : x \in {16, 19}, a \in MCAreas, b \in MCAreas}
MCIdleOf == (1 :> "i1") @@ (2 :> "i2")
MCPages == {<<1, 1, 1>>, <<1, 1, 2>>}

(* Where boot stands when it does not move.                                 *)
NoBoot == map = <<>> /\ todo = <<>> /\ memtmp = {} /\ mem = {} /\ taken = {} /\ fm = {}
          /\ phase = "getMemory" /\ retrieved = 0

(* The contract that the proof of the frame manager takes from the bitmaps, *)
(* for every content of bitmaps of this size.                               *)
ASSUME ContractKept == BitmapsWork

MCInit ==
  /\ part \in {"space", "frames", "boot", "tables", "heap", "lists", "isr"}
  /\ AsInit /\ FmInit /\ PagingInit /\ HeapInit /\ ListInit /\ IsrInit
  /\ IF part = "boot" THEN BootInit ELSE NoBoot

MCNext ==
  /\ UNCHANGED part
  /\ \/ part = "space" /\ AsNext /\ UNCHANGED <<fmVars, bootVars, pagingVars, heapVars, ringVars, isrVars>>
     \/ part = "frames" /\ FmNext /\ UNCHANGED <<asVars, bootVars, pagingVars, heapVars, ringVars, isrVars>>
     \/ part = "boot" /\ BootNext /\ UNCHANGED <<asVars, fmVars, pagingVars, heapVars, ringVars, isrVars>>
     \/ part = "tables" /\ PagingNext /\ UNCHANGED <<asVars, fmVars, bootVars, heapVars, ringVars, isrVars>>
     \/ part = "heap" /\ HeapNext /\ UNCHANGED <<asVars, fmVars, bootVars, pagingVars, ringVars, isrVars>>
     \/ part = "lists" /\ ListNext /\ UNCHANGED <<asVars, fmVars, bootVars, pagingVars, heapVars, isrVars>>
     \/ part = "isr" /\ IsrNext /\ UNCHANGED <<asVars, fmVars, bootVars, pagingVars, heapVars, ringVars>>

MCSpec == MCInit /\ [][MCNext]_<<part, asVars, fmVars, bootVars, pagingVars, heapVars, ringVars, isrVars>>
=============================================================================
