---------------------------- MODULE AddressSpace ----------------------------
(***************************************************************************)
(* Unmapping pages of an address space that several CPUs use               *)
(* (kernel/AddressSpace.h, machine/Paging.h).  There is no cross-CPU TLB   *)
(* shootdown.  An unmapped page is put on memoryList and unmapEpoch is     *)
(* advanced; every CPU in the address space has a marker with the epoch in *)
(* which it entered.  When a CPU switches threads it invalidates what has  *)
(* been unmapped since, and the CPU with the oldest marker returns frames  *)
(* and virtual addresses that no TLB can know any more.                    *)
(*                                                                         *)
(* One address space is modelled; "out" stands for all others.  The kernel *)
(* address space, which CPUs never leave, behaves as a user address space  *)
(* whose CPUs take only the steps with stay = TRUE.                        *)
(*                                                                         *)
(* The TLB is external: it may cache a present page table entry when a CPU *)
(* uses the page, and is flushed by a CR3 write.  Between the CR3 write    *)
(* and the call of enter the CPU runs kernel code with interrupts off that *)
(* does not touch the new user space.                                      *)
(***************************************************************************)
EXTENDS Integers, Sequences, SequencesExt, FiniteSets

CONSTANTS
  CPU,        \* the processors
  NPages,     \* number of pages between mapBottom and mapTop
  Frame,      \* the physical page frames
  EpochMod,   \* epochs are counted modulo this (2^64 in the code)
  Nobody,     \* ulock is free
  Absent,     \* an empty page table entry
  Lazy        \* lazyPage: no frame yet, the first access faults

Page == 1 .. NPages
mapTop == NPages + 1

(* Signed differences of epochs are meaningful as long as there are fewer  *)
(* than EpochMod / 2 outstanding pages.                                    *)
ASSUME AddressSpaceAssumption ==
  /\ NPages \in Nat
  /\ EpochMod \in Nat
  /\ 2 * NPages < EpochMod
  /\ Nobody \notin CPU
  /\ Absent \notin Frame /\ Lazy \notin Frame /\ Absent # Lazy

VARIABLES
  at,          \* where each CPU is in switchTo
  stay,        \* switchTo was called for the same address space
  tlb,         \* the translations each CPU may use
  pte,         \* the page table
  unmapping,   \* pages whose entry is cleared but which are not yet listed
  memoryList,  \* MemoryDescriptors of unmapped pages, oldest first
  unmapEpoch,
  markerList,  \* the CPUs in the address space, oldest marker first
  enterEpoch,  \* AddressSpaceMarker::enterEpoch
  toRelease,   \* entries the releasing CPU still has to take from memoryList
  ulock,       \* the CPU that holds ulock across several steps
  mapStart,    \* lowest mapped virtual address
  unmapSet,    \* free pages above mapStart
  free         \* FrameManager: the frames that are not allocated

listVars == <<memoryList, unmapEpoch, markerList, enterEpoch>>
vmVars == <<mapStart, unmapSet>>
asVars == <<at, stay, tlb, pte, unmapping, listVars, toRelease, ulock, vmVars, free>>

Descriptor == [vma : Page, pma : Frame \cup {Lazy}]

TypeOK ==
  /\ at \in [CPU -> {"out", "arriving", "in", "departing", "release"}]
  /\ stay \in [CPU -> BOOLEAN]
  /\ tlb \in [CPU -> SUBSET (Page \X Frame)]
  /\ pte \in [Page -> Frame \cup {Absent, Lazy}]
  /\ unmapping \in SUBSET Descriptor
  /\ memoryList \in Seq(Descriptor)
  /\ unmapEpoch \in 0 .. EpochMod - 1
  /\ markerList \in Seq(CPU)
  /\ enterEpoch \in [CPU -> 0 .. EpochMod - 1]
  /\ toRelease \in 0 .. NPages
  /\ ulock \in CPU \cup {Nobody}
  /\ mapStart \in 1 .. mapTop
  /\ unmapSet \in SUBSET Page
  /\ free \in SUBSET Frame

AsInit ==
  /\ at = [c \in CPU |-> "out"]
  /\ stay = [c \in CPU |-> FALSE]
  /\ tlb = [c \in CPU |-> {}]
  /\ pte = [v \in Page |-> Absent]
  /\ unmapping = {}
  /\ memoryList = <<>>
  /\ unmapEpoch = 0
  /\ markerList = <<>>
  /\ enterEpoch = [c \in CPU |-> 0]
  /\ toRelease = 0
  /\ ulock = Nobody
  /\ mapStart = mapTop
  /\ unmapSet = {}
  /\ free = Frame

Goto(c, label) == at' = [at EXCEPT ![c] = label]

(* a - b for epochs (sword), b not later than a.                           *)
Since(a, b) == (a - b) % EpochMod

(***************************************************************************)
(* Mutants.                                                                *)
(***************************************************************************)

(* The invalidation loop stops one entry early.                            *)
LastPagesShort(n) == {memoryList[i].vma : i \in {j \in DOMAIN memoryList : j > Len(memoryList) - n + 1}}

(* The frame is not given back.                                            *)
ReleaseOneLeak(c) ==
  LET U == unmapSet \cup {Head(memoryList).vma}
      m == CHOOSE m \in mapStart .. mapTop : mapStart .. m - 1 \subseteq U /\ m \notin U
  IN
  /\ at[c] = "release"
  /\ toRelease > 0
  /\ mapStart' = m
  /\ unmapSet' = {v \in U : v > m}
  /\ memoryList' = Tail(memoryList)
  /\ toRelease' = toRelease - 1
  /\ UNCHANGED <<at, stay, tlb, pte, unmapping, unmapEpoch, markerList, enterEpoch, ulock, free>>

-----------------------------------------------------------------------------
(***************************************************************************)
(* Mapping and unmapping, by a thread that runs in the address space.      *)
(***************************************************************************)

(* bmap, without a fixed address, under vlock: getVmRange takes the page   *)
(* below mapStart; user pages are mapped lazily.                           *)
Map(c) ==
  /\ at[c] = "in"
  /\ mapStart > 1
  /\ mapStart' = mapStart - 1
  /\ pte' = [pte EXCEPT ![mapStart - 1] = Lazy]
  /\ UNCHANGED <<at, stay, tlb, unmapping, listVars, toRelease, ulock, unmapSet, free>>

(* pagefault, mapFromLazy: the entry is replaced by compare-and-swap; the  *)
(* loser of a race returns its frame at once.                              *)
PageFault(c, v) ==
  /\ at[c] = "in"
  /\ pte[v] = Lazy
  /\ \E f \in free : /\ pte' = [pte EXCEPT ![v] = f]
                     /\ free' = free \ {f}
  /\ UNCHANGED <<at, stay, tlb, unmapping, listVars, toRelease, ulock, vmVars>>

(* unmapRegion: the entry is cleared first (Paging::unmap, an exchange) ...*)
UnmapClear(c, v) ==
  /\ at[c] = "in"
  /\ pte[v] # Absent
  /\ pte' = [pte EXCEPT ![v] = Absent]
  /\ unmapping' = unmapping \cup {[vma |-> v, pma |-> pte[v]]}
  /\ UNCHANGED <<at, stay, tlb, listVars, toRelease, ulock, vmVars, free>>

(* ... and listed under ulock later, possibly on another CPU, since the    *)
(* thread may be preempted in between.                                     *)
UnmapPost(c, md) ==
  /\ at[c] = "in"
  /\ ulock = Nobody
  /\ md \in unmapping
  /\ unmapping' = unmapping \ {md}
  /\ memoryList' = Append(memoryList, md)
  /\ unmapEpoch' = (unmapEpoch + 1) % EpochMod
  /\ UNCHANGED <<at, stay, tlb, pte, markerList, enterEpoch, toRelease, ulock, vmVars, free>>

(* The hardware: a CPU that uses a mapped page may keep the translation.   *)
Fill(c, v) ==
  /\ at[c] = "in"
  /\ pte[v] \in Frame
  /\ tlb' = [tlb EXCEPT ![c] = @ \cup {<<v, pte[v]>>}]
  /\ UNCHANGED <<at, stay, pte, unmapping, listVars, toRelease, ulock, vmVars, free>>

-----------------------------------------------------------------------------
(***************************************************************************)
(* switchTo, with interrupts off.                                          *)
(***************************************************************************)
Entered(c) ==
  /\ markerList' = Append(markerList, c)
  /\ enterEpoch' = [enterEpoch EXCEPT ![c] = unmapEpoch]

(* Coming from another address space: the page table, then the marker.     *)
Arrive(c) ==
  /\ at[c] = "out"
  /\ Goto(c, "arriving")
  /\ UNCHANGED <<stay, tlb, pte, unmapping, listVars, toRelease, ulock, vmVars, free>>

Enter(c) ==
  /\ at[c] = "arriving"
  /\ ulock = Nobody
  /\ Entered(c)
  /\ Goto(c, "in")
  /\ UNCHANGED <<stay, tlb, pte, unmapping, memoryList, unmapEpoch, toRelease, ulock, vmVars, free>>

(* Going to another one: the CR3 write flushes the TLB.                    *)
Depart(c) ==
  /\ at[c] = "in"
  /\ tlb' = [tlb EXCEPT ![c] = {}]
  /\ Goto(c, "departing")
  /\ UNCHANGED <<stay, pte, unmapping, listVars, toRelease, ulock, vmVars, free>>

(* The pages of the last n entries of memoryList.                          *)
LastPages(n) == {memoryList[i].vma : i \in {j \in DOMAIN memoryList : j > Len(memoryList) - n}}

Oldest(c) == Head(markerList) = c

(* The first half of leave, under ulock: take the marker out, invalidate   *)
(* what was unmapped since (not needed after a CR3 write), and find out    *)
(* how far the oldest remaining marker lets memoryList be released.        *)
TakeMarker(c) ==
  LET rest == RemoveAt(markerList, CHOOSE i \in DOMAIN markerList : markerList[i] = c)
      end == IF rest = <<>> THEN unmapEpoch ELSE enterEpoch[Head(rest)]
  IN
  /\ ulock = Nobody
  /\ ulock' = c
  /\ markerList' = rest
  /\ toRelease' = IF Oldest(c) THEN Since(end, enterEpoch[c]) ELSE 0
  /\ Goto(c, "release")
  /\ UNCHANGED <<pte, unmapping, memoryList, unmapEpoch, enterEpoch, vmVars, free>>

(* Switch between threads of this address space, and runInvalidation.      *)
SwitchSame(c) ==
  /\ at[c] = "in"
  /\ TakeMarker(c)
  /\ stay' = [stay EXCEPT ![c] = TRUE]
  /\ tlb' = [tlb EXCEPT ![c] =
       {e \in @ : e[1] \notin LastPages(Since(unmapEpoch, enterEpoch[c]))}]

Leave(c) ==
  /\ at[c] = "departing"
  /\ TakeMarker(c)
  /\ stay' = [stay EXCEPT ![c] = FALSE]
  /\ UNCHANGED tlb

(* putVmRange moves mapStart over all free pages that begin there.         *)
Advance(U) == CHOOSE m \in mapStart .. mapTop : /\ mapStart .. m - 1 \subseteq U
                                                /\ m \notin U

(* The second half of leave: the frame goes back to the frame manager and  *)
(* the page to putVmRange (under vlock), entry by entry.                   *)
ReleaseOne(c) ==
  LET md == Head(memoryList)
      U == unmapSet \cup {md.vma}
  IN
  /\ at[c] = "release"
  /\ toRelease > 0
  /\ free' = IF md.pma = Lazy THEN free ELSE free \cup {md.pma}
  /\ mapStart' = Advance(U)
  /\ unmapSet' = {v \in U : v > Advance(U)}
  /\ memoryList' = Tail(memoryList)
  /\ toRelease' = toRelease - 1
  /\ UNCHANGED <<at, stay, tlb, pte, unmapping, unmapEpoch, markerList, enterEpoch, ulock>>

(* The CPU stays: leave is followed by enter under the same lock.          *)
Reenter(c) ==
  /\ at[c] = "release"
  /\ toRelease = 0
  /\ stay[c]
  /\ Entered(c)
  /\ ulock' = Nobody
  /\ Goto(c, "in")
  /\ UNCHANGED <<stay, tlb, pte, unmapping, memoryList, unmapEpoch, toRelease, vmVars, free>>

Left(c) ==
  /\ at[c] = "release"
  /\ toRelease = 0
  /\ ~ stay[c]
  /\ ulock' = Nobody
  /\ Goto(c, "out")
  /\ UNCHANGED <<stay, tlb, pte, unmapping, listVars, toRelease, vmVars, free>>

AsNext ==
  \E c \in CPU :
    \/ Map(c)
    \/ \E v \in Page : PageFault(c, v) \/ UnmapClear(c, v) \/ Fill(c, v)
    \/ \E md \in unmapping : UnmapPost(c, md)
    \/ Arrive(c) \/ Enter(c) \/ Depart(c) \/ Leave(c) \/ SwitchSame(c)
    \/ ReleaseOne(c) \/ Reenter(c) \/ Left(c)

AsSpec == AsInit /\ [][AsNext]_asVars

-----------------------------------------------------------------------------
Listed == ToSet(memoryList) \cup unmapping

(* No CPU can reach, through a stale translation, a frame that has been    *)
(* given back or belongs to another page, or see an old frame at a virtual *)
(* address that has been mapped again.                                     *)
NoStaleTranslation ==
  \A c \in CPU : \A e \in tlb[c] :
    /\ e[2] \notin free
    /\ \A v \in Page : pte[v] = e[2] => v = e[1]
    /\ pte[e[1]] \in {Absent, e[2]}

(* The two loops of leave stay inside memoryList (their assertions): the   *)
(* list reaches back exactly to the oldest marker, markers are in the      *)
(* order of their epochs, also when the epoch counter wraps around.  So an *)
(* unmapped page is kept no longer than until the last CPU that entered    *)
(* before it was listed has switched threads once.                         *)
Age(c) == Since(unmapEpoch, enterEpoch[c])
EpochWindow ==
  /\ IsInjective(markerList)
  /\ \A i, j \in DOMAIN markerList : i < j => Age(markerList[i]) >= Age(markerList[j])
  /\ toRelease + (IF markerList = <<>> THEN 0 ELSE Age(Head(markerList))) = Len(memoryList)
  /\ toRelease <= Len(memoryList)

(* Frames are neither lost nor released twice: each is free, mapped once,  *)
(* or in one descriptor.                                                   *)
FramesConserved ==
  \A f \in Frame :
    Cardinality({v \in Page : pte[v] = f}) +
    Cardinality({md \in Listed : md.pma = f}) +
    (IF f \in free THEN 1 ELSE 0) = 1

(* Virtual addresses are neither lost nor handed out twice: a page is      *)
(* below mapStart and unmapped, or is mapped, on its way back, or in       *)
(* unmapSet; so putVmRange's assertions hold.                              *)
RangesConserved ==
  /\ \A v \in Page :
       Cardinality({md \in Listed : md.vma = v}) +
       (IF pte[v] # Absent THEN 1 ELSE 0) +
       (IF v \in unmapSet THEN 1 ELSE 0) = (IF v < mapStart THEN 0 ELSE 1)
  /\ mapStart \notin unmapSet

(* The destructor's assertions: once no CPU is in the address space,       *)
(* nothing waits to be released.                                           *)
EmptyWhenLeft == markerList = <<>> /\ ulock = Nobody => memoryList = <<>>

(* No TLB entry outlives the frame or the address it stands for, because   *)
(* every CPU in the address space is inside the window of epochs whose pages *)
(* are still listed (AddressSpace.h leave, runInvalidation).               *)
TlbSound == NoStaleTranslation /\ EpochWindow

(* Nothing is lost or given back twice while pages are unmapped: frames,   *)
(* addresses and descriptors are each in one place, and an address space   *)
(* that everybody has left holds none (AddressSpace.h unmapRegion, leave,  *)
(* putVmRange and the assertions of the destructor).                       *)
PagesConserved == TypeOK /\ FramesConserved /\ RangesConserved /\ EmptyWhenLeft

-----------------------------------------------------------------------------
(***************************************************************************)
(* The inductive invariant, with EpochWindow: it gives TlbSound and        *)
(* PagesConserved.                                                         *)
(***************************************************************************)

(* The markers are those of the CPUs inside; the CPU that releases holds   *)
(* ulock, and has taken its own marker out.                                *)
MarkersInv ==
  /\ \A c \in CPU : at[c] = "release" <=> ulock = c
  /\ ulock = Nobody => toRelease = 0
  /\ \A c \in CPU : c \in ToSet(markerList) <=> at[c] \in {"in", "departing"}

(* A page and a frame have one descriptor at most.                         *)
DescriptorsInv ==
  /\ IsInjective(memoryList)
  /\ ToSet(memoryList) \cap unmapping = {}
  /\ \A md, ne \in Listed :
       md.vma = ne.vma \/ (md.pma = ne.pma /\ md.pma \in Frame) => md = ne

(* A page is below mapStart, mapped, described or in unmapSet.             *)
RangesInv ==
  /\ \A md \in Listed : pte[md.vma] = Absent /\ md.vma \notin unmapSet /\ md.vma >= mapStart
  /\ \A v \in unmapSet : pte[v] = Absent /\ v > mapStart
  /\ \A v \in Page : v < mapStart => pte[v] = Absent
  /\ \A v \in Page : v >= mapStart =>
       pte[v] # Absent \/ v \in unmapSet \/ \E md \in Listed : md.vma = v

(* A frame is mapped, described or free.                                   *)
FramesInv ==
  /\ \A v, w \in Page : pte[v] = pte[w] /\ pte[v] \in Frame => v = w
  /\ \A v \in Page : pte[v] \notin free
  /\ \A md \in Listed : md.pma \in Frame => md.pma \notin free /\ \A v \in Page : pte[v] # md.pma
  /\ \A f \in Frame :
       f \in free \/ (\E v \in Page : pte[v] = f) \/ (\E md \in Listed : md.pma = f)

(* What a CPU may have cached is still mapped, or its page has been        *)
(* cleared but not listed, or it has been listed since the CPU entered.    *)
Cached(e) == [vma |-> e[1], pma |-> e[2]]
Within(c, md) == \E i \in DOMAIN memoryList : i > Len(memoryList) - Age(c) /\ memoryList[i] = md
TlbInv ==
  \A c \in CPU :
    /\ tlb[c] = {} \/ at[c] = "in" \/ (at[c] = "release" /\ stay[c])
    /\ \A e \in tlb[c] :
         pte[e[1]] = e[2] \/ Cached(e) \in unmapping \/ (at[c] = "in" /\ Within(c, Cached(e)))

ConservedInv == DescriptorsInv /\ RangesInv /\ FramesInv
AsInv == TypeOK /\ MarkersInv /\ ConservedInv /\ EpochWindow /\ TlbInv
=============================================================================
