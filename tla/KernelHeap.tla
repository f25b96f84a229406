----------------------------- MODULE KernelHeap -----------------------------
(***************************************************************************)
(* The kernel heap and the kernel address space call each other.  malloc   *)
(* maps a segment under mallocLock, which takes the address space's vlock;  *)
(* free may give segments back, and unmapping one allocates a descriptor    *)
(* under ulock, from a cache or from the heap itself.  So free only notes   *)
(* the segments on a list of its own, and unmaps them when it has released  *)
(* mallocLock.                                                              *)
(*                                                                         *)
(* What dlmalloc decides (when to grow, what to give back) is arbitrary.    *)
(***************************************************************************)
EXTENDS Integers, Sequences, FiniteSets, SequencesExt

CONSTANTS
  HeapCpu,    \* CPUs using the heap
  Segment     \* segments of kernel virtual memory

ASSUME KernelHeapAssumption ==
  HeapCpu # {} /\ HeapCpu \subseteq Nat \ {0} /\ IsFiniteSet(Segment)

NoCpu == 0
HeapLocks == {"ulock", "mallocLock", "vlock"}

VARIABLES
  owner,            \* owner[l]: the CPU that holds lock l
  heapAt,           \* heapAt[c]: where CPU c is
  mapped,           \* segments dlmalloc has
  mallocUnmapList,  \* whose list dl_munmap appends to
  ulist,            \* ulist[c]: segments c's free has yet to unmap
  posting,          \* posting[c]: the segment c has taken out of the page table
  unmapped,         \* the address space's memoryList
  mdCache,          \* free descriptors in its cache
  ranges            \* segments whose addresses may be handed out

heapVars == <<owner, heapAt, mapped, mallocUnmapList, ulist, posting, unmapped, mdCache, ranges>>

HeapInit ==
  /\ owner = [l \in HeapLocks |-> NoCpu]
  /\ heapAt = [c \in HeapCpu |-> "out"]
  /\ mapped = {}
  /\ mallocUnmapList = NoCpu
  /\ ulist = [c \in HeapCpu |-> <<>>]
  /\ posting = [c \in HeapCpu |-> {}]
  /\ unmapped = <<>>
  /\ mdCache = 0
  /\ ranges = Segment

GoTo(c, a) == heapAt' = [heapAt EXCEPT ![c] = a]
TakeLock(c, l) == owner[l] = NoCpu /\ owner' = [owner EXCEPT ![l] = c]
DropLock(l) == owner' = [owner EXCEPT ![l] = NoCpu]

(* legacy_malloc, from anywhere or for a descriptor under ulock ("post").   *)
Calls(c, a) ==
  /\ heapAt[c] = "out"
  /\ GoTo(c, a)
  /\ UNCHANGED <<owner, mapped, mallocUnmapList, ulist, posting, unmapped, mdCache, ranges>>

MallocLock(c) ==
  /\ heapAt[c] \in {"malloc", "post malloc"}
  /\ TakeLock(c, "mallocLock")
  /\ GoTo(c, IF heapAt[c] = "malloc" THEN "in malloc" ELSE "in post malloc")
  /\ UNCHANGED <<mapped, mallocUnmapList, ulist, posting, unmapped, mdCache, ranges>>

InMalloc(c) == heapAt[c] \in {"in malloc", "in post malloc"}
AfterMalloc(c) == IF owner["ulock"] = c THEN "post" ELSE "out"

(* dlmalloc has the memory ... *)
MallocHas(c) ==
  /\ InMalloc(c) /\ owner["vlock"] # c
  /\ DropLock("mallocLock")
  /\ GoTo(c, AfterMalloc(c))
  /\ UNCHANGED <<mapped, mallocUnmapList, ulist, posting, unmapped, mdCache, ranges>>

(* ... or grows: dl_mmap, kernelAS.mmap. *)
DlMmapLock(c) ==
  /\ InMalloc(c) /\ owner["vlock"] # c /\ ranges # {}
  /\ TakeLock(c, "vlock")
  /\ UNCHANGED <<heapAt, mapped, mallocUnmapList, ulist, posting, unmapped, mdCache, ranges>>

DlMmap(c) ==
  /\ InMalloc(c) /\ owner["vlock"] = c
  /\ \E s \in ranges : mapped' = mapped \cup {s} /\ ranges' = ranges \ {s}
  /\ owner' = [owner EXCEPT !["vlock"] = NoCpu, !["mallocLock"] = NoCpu]
  /\ GoTo(c, AfterMalloc(c))
  /\ UNCHANGED <<mallocUnmapList, ulist, posting, unmapped, mdCache>>

(* legacy_free: the lock, then its list for dl_munmap. *)
FreeEnter(c) ==
  /\ heapAt[c] = "free"
  /\ TakeLock(c, "mallocLock")
  /\ mallocUnmapList' = c
  /\ GoTo(c, "in free")

FreeLock(c) ==
  /\ FreeEnter(c)
  /\ UNCHANGED <<mapped, ulist, posting, unmapped, mdCache, ranges>>

\* Mutant: the segments are unmapped before the lock is released.
StillLocked == owner

(* mallocLock.release() comes before the unmapping. *)
UnlockedHeap == [owner EXCEPT !["mallocLock"] = NoCpu]

(* mspace_free gives segments back through dl_munmap, which appends them to *)
(* the announced list, or unmaps at once if there is none.                   *)
HeapFree(c) ==
  /\ heapAt[c] = "in free"
  /\ \E S \in SUBSET mapped :
       /\ mapped' = mapped \ S
       /\ LET list == IF mallocUnmapList = NoCpu THEN c ELSE mallocUnmapList
          IN ulist' = [ulist EXCEPT ![list] = @ \o SetToSeq(S)]
  /\ mallocUnmapList' = NoCpu
  /\ owner' = UnlockedHeap
  /\ GoTo(c, "drain")
  /\ UNCHANGED <<posting, unmapped, mdCache, ranges>>

(* kernelAS.munmap: out of the page table, then ulock for the list. *)
Munmap(c) ==
  /\ heapAt[c] = "drain"
  /\ IF ulist[c] = <<>> THEN GoTo(c, "out") /\ UNCHANGED <<ulist, posting>>
     ELSE /\ posting' = [posting EXCEPT ![c] = {Head(ulist[c])}]
          /\ ulist' = [ulist EXCEPT ![c] = Tail(@)]
          /\ GoTo(c, "ulock")
  /\ UNCHANGED <<owner, mapped, mallocUnmapList, unmapped, mdCache, ranges>>

(* mdCache.allocate, under ulock: the cache, or the heap. *)
UnmapLock(c) ==
  /\ heapAt[c] = "ulock"
  /\ TakeLock(c, "ulock")
  /\ IF mdCache = 0 THEN GoTo(c, "post malloc") /\ UNCHANGED mdCache
     ELSE GoTo(c, "post") /\ mdCache' = mdCache - 1
  /\ UNCHANGED <<mapped, mallocUnmapList, ulist, posting, unmapped, ranges>>

Post(c) ==
  /\ heapAt[c] = "post"
  /\ unmapped' = unmapped \o SetToSeq(posting[c])
  /\ posting' = [posting EXCEPT ![c] = {}]
  /\ DropLock("ulock")
  /\ GoTo(c, "drain")
  /\ UNCHANGED <<mapped, mallocUnmapList, ulist, mdCache, ranges>>

(* runInvalidation: ulock, and vlock for every range that is given back;    *)
(* the descriptor goes to the cache.                                         *)
InvalidateLock(c) ==
  /\ heapAt[c] = "invalidate"
  /\ TakeLock(c, "ulock")
  /\ GoTo(c, "leave")
  /\ UNCHANGED <<mapped, mallocUnmapList, ulist, posting, unmapped, mdCache, ranges>>

PutVmRange(c) ==
  /\ heapAt[c] = "leave"
  /\ IF unmapped = <<>>
     THEN DropLock("ulock") /\ GoTo(c, "out") /\ UNCHANGED <<unmapped, mdCache, ranges>>
     ELSE IF owner["vlock"] # c THEN TakeLock(c, "vlock") /\ UNCHANGED <<heapAt, unmapped, mdCache, ranges>>
     ELSE /\ ranges' = ranges \cup {Head(unmapped)}
          /\ unmapped' = Tail(unmapped)
          /\ mdCache' = mdCache + 1
          /\ DropLock("vlock")
          /\ UNCHANGED heapAt
  /\ UNCHANGED <<mapped, mallocUnmapList, ulist, posting>>

HeapNext ==
  \E c \in HeapCpu :
    \/ \E a \in {"malloc", "free", "invalidate"} : Calls(c, a)
    \/ MallocLock(c) \/ MallocHas(c) \/ DlMmapLock(c) \/ DlMmap(c)
    \/ FreeLock(c) \/ HeapFree(c) \/ Munmap(c) \/ UnmapLock(c) \/ Post(c)
    \/ InvalidateLock(c) \/ PutVmRange(c)

HeapSpec == HeapInit /\ [][HeapNext]_heapVars

-----------------------------------------------------------------------------
(* No CPUs wait for each other's locks, and none for its own ("page         *)
(* unmapping can lead to allocation, which would lead to deadlock",          *)
(* KernelHeap.cc legacy_free): in every set of CPUs there is one that does   *)
(* not wait, or waits for a CPU outside of the set.                          *)
Wanted(c) ==
  CASE heapAt[c] \in {"malloc", "post malloc", "free"} -> {"mallocLock"}
    [] heapAt[c] \in {"ulock", "invalidate"}           -> {"ulock"}
    [] \/ heapAt[c] = "leave" /\ unmapped # <<>> /\ owner["vlock"] # c
       \/ InMalloc(c) /\ owner["vlock"] # c           -> {"vlock"}
    [] OTHER                                           -> {}

NoLockCycle ==
  \A S \in (SUBSET HeapCpu) \ {{}} : \E c \in S : \A l \in Wanted(c) : owner[l] \notin S

(* Every segment is in one place: the heap's, on the list of one CPU that   *)
(* is going to unmap it, with a CPU that posts it, listed, or free; and no   *)
(* CPU leaves a segment on a list that nobody drains (KernelHeap.cc          *)
(* mallocUnmapList).                                                         *)
Handled(c) == posting[c] \cup ToSet(ulist[c])

PlacedOnce ==
  /\ mapped \cup ranges \cup ToSet(unmapped) \cup UNION {Handled(c) : c \in HeapCpu} = Segment
  /\ mapped \cap ranges = {} /\ (mapped \cup ranges) \cap ToSet(unmapped) = {}
  /\ \A c \in HeapCpu : Handled(c) \cap (mapped \cup ranges \cup ToSet(unmapped)) = {}
  /\ \A c, d \in HeapCpu : c # d => Handled(c) \cap Handled(d) = {}
  /\ \A c \in HeapCpu : posting[c] \cap ToSet(ulist[c]) = {} /\ IsInjective(ulist[c])
  /\ IsInjective(unmapped)

SegmentsOnce ==
  /\ PlacedOnce
  /\ \A c \in HeapCpu : heapAt[c] \in {"out", "malloc", "free", "invalidate"} => Handled(c) = {}

(* malloc and free never deadlock with unmapping, and each segment that is *)
(* given back is unmapped once (KernelHeap.cc legacy_free, dl_munmap).     *)
HeapSound == NoLockCycle /\ SegmentsOnce

-----------------------------------------------------------------------------
(***************************************************************************)
(* The inductive invariant, with PlacedOnce.                               *)
(***************************************************************************)
Places == {"out", "malloc", "post malloc", "in malloc", "in post malloc", "free", "in free",
           "drain", "ulock", "post", "invalidate", "leave"}
Unmapping == {"ulock", "post malloc", "in post malloc", "post"}

HeapTypeOK ==
  /\ owner \in [HeapLocks -> HeapCpu \cup {NoCpu}]
  /\ heapAt \in [HeapCpu -> Places]
  /\ mapped \subseteq Segment /\ ranges \subseteq Segment
  /\ mallocUnmapList \in HeapCpu \cup {NoCpu}
  /\ ulist \in [HeapCpu -> Seq(Segment)]
  /\ posting \in [HeapCpu -> SUBSET Segment]
  /\ unmapped \in Seq(Segment)
  /\ mdCache \in Nat

(* Who holds which lock; they are taken in the order ulock, mallocLock,    *)
(* vlock, and none that comes before one that is held is waited for.       *)
HolderAt(c) ==
  /\ owner["ulock"] = c <=> heapAt[c] \in {"post malloc", "in post malloc", "post", "leave"}
  /\ owner["mallocLock"] = c <=> heapAt[c] \in {"in malloc", "in post malloc", "in free"}
  /\ owner["vlock"] = c => /\ heapAt[c] \in {"in malloc", "in post malloc", "leave"}
                           /\ heapAt[c] = "leave" => unmapped # <<>>

(* What a CPU has yet to unmap, and the list it has announced.             *)
UnmapAt(c) ==
  /\ heapAt[c] = "in free" => mallocUnmapList = c
  /\ heapAt[c] \notin Unmapping => posting[c] = {}
  /\ heapAt[c] \notin Unmapping \cup {"drain"} => ulist[c] = <<>>

HeapInv == HeapTypeOK /\ PlacedOnce /\ \A c \in HeapCpu : HolderAt(c) /\ UnmapAt(c)
=============================================================================
