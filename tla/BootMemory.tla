----------------------------- MODULE BootMemory -----------------------------
(***************************************************************************)
(* Physical memory during boot (Machine::initBSP, bootCleanup): the memory  *)
(* map of the boot loader is collected in a RegionSet, cut to whole pages,  *)
(* freed of the AP boot code and the kernel image, used for the first page  *)
(* tables and the initial heap, and handed to the frame manager; the boot   *)
(* code follows once all processors run.                                    *)
(*                                                                         *)
(* Addresses are small numbers: SmallPs units make a small page, KernelPs a *)
(* kernel page.                                                             *)
(***************************************************************************)
EXTENDS Integers, Sequences, FiniteSets, FiniteSetsExt, Functions

CONSTANTS
  SmallPs, KernelPs,       \* page sizes
  Boot16,                  \* the page of the AP boot code
  KernelBoot,              \* start of the kernel's boot segment
  KernelCode, KernelEnd,   \* start of its code, and its end
  BootTables,                  \* small pages for the page tables of image and heap
  HeapPages,               \* kernel pages of the initial heap
  MemoryMaps               \* the memory maps considered: sequences of regions

ASSUME BootMemoryAssumption ==
  /\ SmallPs \in Nat \ {0} /\ {KernelPs, Boot16, KernelBoot, KernelCode, KernelEnd} \subseteq Nat
  /\ KernelPs % SmallPs = 0
  /\ KernelBoot < KernelPs /\ KernelCode % KernelPs = 0 /\ KernelEnd % KernelPs = 0
  /\ Boot16 + SmallPs <= KernelBoot /\ KernelCode < KernelEnd
  /\ BootTables \in Nat /\ HeapPages \in Nat \ {0}
  /\ \A m \in MemoryMaps : m \in Seq([start : Nat, end : Nat]) /\ \A i \in DOMAIN m : m[i].start < m[i].end

VARIABLES
  map,       \* the memory map: available entries that are not empty
  todo,      \* entries not yet read
  memtmp,    \* available memory as the map has it
  mem,       \* available memory in whole pages
  taken,     \* units used for page tables and heap
  fm,        \* units the frame manager has been given
  phase,     \* where the boot processor is
  retrieved  \* pages retrieved so far

bootVars == <<map, todo, memtmp, mem, taken, fm, phase, retrieved>>

Region(s, e) == [start |-> s, end |-> e]
Units(r) == r.start..(r.end - 1)
Covered(S) == UNION {Units(r) : r \in S}
AlignUp(x, a) == ((x + a - 1) \div a) * a
AlignDown(x, a) == (x \div a) * a
First(S) == CHOOSE r \in S : \A q \in S : r.start <= q.start

(* set::lower_bound and the regions behind it: not wholly below r. *)
FromLowerBound(S, r) == {q \in S : ~(q.end < r.start)}

(* The last region met is merged when it overlaps or touches. *)
MergesLast(q, r) == q.start <= r.end

(* RegionSet::insert: merge with the first region, drop the ones that are   *)
(* covered, merge with the last.                                             *)
Insert(S, r) ==
  LET from == FromLowerBound(S, r)
      start == IF from = {} THEN r.start ELSE Min({r.start, First(from).start})
      covered == {q \in from : q.end <= r.end}
      rest == from \ covered
      last == IF rest # {} /\ MergesLast(First(rest), r) THEN {First(rest)} ELSE {}
      end == IF last = {} THEN r.end ELSE First(rest).end
  IN (S \ (covered \cup last)) \cup {Region(start, end)}

(* RegionSet::remove: the first region not below r must contain it. *)
HasRegion(S, r) ==
  LET from == FromLowerBound(S, r)
  IN from # {} /\ First(from).start <= r.start /\ First(from).end >= r.end

RemoveRegion(S, r) ==
  LET t == First(FromLowerBound(S, r))
  IN (S \ {t}) \cup (IF t.end > r.end THEN {Region(r.end, t.end)} ELSE {})
               \cup (IF t.start < r.start THEN {Region(t.start, r.start)} ELSE {})

(* RegionSet::retrieve_front: the lowest aligned piece of that size. *)
Fitting(S, size) == {r \in S : r.end >= AlignUp(r.start, size) + size}
FrontRegion(S, size) ==
  LET a == AlignUp(First(Fitting(S, size)).start, size) IN Region(a, a + size)

BootInit ==
  /\ map \in MemoryMaps
  /\ todo = map
  /\ memtmp = {} /\ mem = {} /\ taken = {} /\ fm = {}
  /\ phase = "getMemory"
  /\ retrieved = 0

EnterPhase(p) == phase' = p
Keep == UNCHANGED <<map, todo, taken, fm, retrieved>>

(* Multiboot::getMemory. *)
GetMemory ==
  /\ phase = "getMemory"
  /\ IF todo = <<>> THEN EnterPhase("align") /\ UNCHANGED <<map, todo, memtmp>>
     ELSE /\ memtmp' = Insert(memtmp, Head(todo))
          /\ todo' = Tail(todo)
          /\ UNCHANGED phase
  /\ UNCHANGED <<map, mem, taken, fm, retrieved>>

\* Mutant: the pages a region touches instead of the ones it covers.
PagesTouched(r) == Region(AlignDown(r.start, SmallPs), AlignUp(r.end, SmallPs))

(* The whole pages of a region. *)
PagesInside(r) == Region(AlignUp(r.start, SmallPs), AlignDown(r.end, SmallPs))

(* The regions move to mem one by one, cut to whole pages. *)
AlignMemory ==
  /\ phase = "align"
  /\ IF memtmp = {} THEN EnterPhase("boot16") /\ UNCHANGED <<memtmp, mem>>
     ELSE /\ mem' = Insert(mem, PagesInside(First(memtmp)))
          /\ memtmp' = memtmp \ {First(memtmp)}
          /\ UNCHANGED phase
  /\ Keep

(* mem.remove of the AP boot code and of the kernel image; it asserts that  *)
(* they are available memory.                                                *)
Boot16Region == Region(Boot16, Boot16 + SmallPs)
ImageRegion == Region(KernelBoot, KernelEnd)

Reserve ==
  /\ phase \in {"boot16", "image"}
  /\ LET r == IF phase = "boot16" THEN Boot16Region ELSE ImageRegion
     IN /\ HasRegion(mem, r)
        /\ mem' = RemoveRegion(mem, r)
  /\ EnterPhase(IF phase = "boot16" THEN "image" ELSE "paging")
  /\ UNCHANGED memtmp /\ Keep

(* Paging::bootstrap and bootstrap2: the tables, the heap, and the two      *)
(* tables for zeroing behind them.                                           *)
RetrieveSize == IF retrieved - BootTables \in 0..(HeapPages - 1) THEN KernelPs ELSE SmallPs
LastRetrieved == retrieved + 1 = BootTables + HeapPages + 2

Bootstrap ==
  /\ phase = "paging"
  /\ Fitting(mem, RetrieveSize) # {}
  /\ LET r == FrontRegion(mem, RetrieveSize)
     IN /\ HasRegion(mem, r)
        /\ mem' = RemoveRegion(mem, r)
        /\ taken' = taken \cup Units(r)
  /\ retrieved' = retrieved + 1
  /\ EnterPhase(IF LastRetrieved THEN "populate" ELSE "paging")
  /\ UNCHANGED <<map, todo, memtmp, fm>>

(* All regions that are left go to the frame manager. *)
Populate ==
  /\ phase = "populate"
  /\ fm' = fm \cup Covered(mem)
  /\ mem' = {}
  /\ EnterPhase("cleanup")
  /\ UNCHANGED <<map, todo, memtmp, taken, retrieved>>

(* The boot segment up to the end of the first kernel page. *)
BootSegment == KernelBoot..(KernelPs - 1)

(* The loop over the kernel pages between the first one and the code. *)
BootPages == UNION {x..(x + KernelPs - 1) :
                    x \in {y \in KernelPs..(KernelCode - 1) : (y - KernelPs) % (KernelPs \div 2) = 0}}

(* bootCleanup. *)
BootCleanup ==
  /\ phase = "cleanup"
  /\ fm' = fm \cup Units(Boot16Region) \cup BootSegment \cup BootPages
  /\ EnterPhase("done")
  /\ UNCHANGED <<map, todo, memtmp, mem, taken, retrieved>>

(* Boot is over, or an assertion has stopped it: no memory where the image  *)
(* is, or too little for the tables.                                         *)
BootOver ==
  /\ \/ phase = "done"
     \/ phase = "boot16" /\ ~HasRegion(mem, Boot16Region)
     \/ phase = "image" /\ ~HasRegion(mem, ImageRegion)
     \/ phase = "paging" /\ Fitting(mem, RetrieveSize) = {}
  /\ UNCHANGED bootVars

BootNext == GetMemory \/ AlignMemory \/ Reserve \/ Bootstrap \/ Populate \/ BootCleanup \/ BootOver

BootSpec == BootInit /\ [][BootNext]_bootVars

-----------------------------------------------------------------------------
(* A region set is canonical: its regions are not empty, and there is a gap *)
(* between any two, which lower_bound with Region::operator< relies on       *)
(* (RegionSet.h insert and remove).                                          *)
RegionsCanonical ==
  \A S \in {memtmp, mem} :
    /\ \A r \in S : r.start < r.end
    /\ \A r, q \in S : r = q \/ r.end < q.start \/ q.end < r.start

(* Every whole page the boot loader reports has exactly one use, and no     *)
(* other page has any: while the regions are carved up, and when boot is     *)
(* over, free memory, page tables and heap, the reserved image and the frame *)
(* manager's memory partition those pages (Machine.cc initBSP, bootCleanup). *)
Reported == UNION {Units(map[i]) : i \in DOMAIN map}
WholePages == UNION {q \in {x..(x + SmallPs - 1) : x \in {y \in Reported : y % SmallPs = 0}} :
                       q \subseteq Reported}
Reserved ==
  CASE phase = "image"                   -> Units(Boot16Region)
    [] phase \in {"paging", "populate", "cleanup"} -> Units(Boot16Region) \cup Units(ImageRegion)
    [] phase = "done"                    -> KernelCode..(KernelEnd - 1)
    [] OTHER                             -> {}

MemoryOnce ==
  phase \notin {"getMemory", "align"} =>
    LET uses == <<Covered(mem), taken, fm, Reserved>>
    IN /\ \A i, j \in 1..4 : i < j => uses[i] \cap uses[j] = {}
       /\ UNION Range(uses) = WholePages

(* Region sets stay canonical, and every page of memory ends up with one   *)
(* use (RegionSet.h, Machine.cc initBSP, bootCleanup).                     *)
BootMemorySound == RegionsCanonical /\ MemoryOnce

=============================================================================
