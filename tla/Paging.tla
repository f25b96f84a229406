------------------------------- MODULE Paging -------------------------------
(***************************************************************************)
(* The page table of one address space, changed by several CPUs without a   *)
(* lock (Paging.h).  Tables are reached through the recursive entry, so an  *)
(* access to an entry whose table is missing is itself a page fault, and    *)
(* the handler installs the table: faults nest, one per missing level, each *)
(* with a frame allocated for it already.  Who loses the compare-and-swap   *)
(* gives its frame back.                                                    *)
(*                                                                         *)
(* A page is the sequence of its indices; depth 1 is the root table, depth  *)
(* Depth the entries of small pages.  A frame holds a table or data.  TLBs  *)
(* and deferred release are in AddressSpace.                                *)
(***************************************************************************)
EXTENDS Integers, Sequences, FiniteSets, FiniteSetsExt

CONSTANTS
  PagingCpu,    \* CPUs that run in the address space
  PFrame,       \* frame numbers
  Index,        \* indices into a table
  Depth,        \* levels of the page table
  PPage         \* pages the program uses: sequences of Depth indices

ASSUME PagingAssumption ==
  /\ PFrame \subseteq Nat /\ 0 \in PFrame /\ Depth \in Nat /\ Depth >= 2
  /\ PPage \subseteq [1..Depth -> Index]

NoEntry == -1
LazyPage == -2
Root == 0
NoFrame == -3
EmptyTable == [i \in Index |-> NoEntry]

VARIABLES
  frameMem,   \* frameMem[f][i]: entry i of the table in frame f
  freeFrames, \* the frame manager's frames, zeroed
  use,        \* use[v]: what the address space does with page v
  faults      \* faults[c]: what CPU c is doing, nested faults on top

pagingVars == <<frameMem, freeFrames, use, faults>>

(* accessPE: Tables(v)[d] is the frame of the table with v's entry at d. *)
Tables(v) ==
  LET w[d \in 1..Depth] ==
        IF d = 1 THEN Root
        ELSE IF w[d - 1] \in PFrame THEN frameMem[w[d - 1]][v[d - 1]] ELSE NoEntry
  IN w
Reached(v, d) == Tables(v)[d] \in PFrame
Entry(v, d) == IF Reached(v, d) THEN frameMem[Tables(v)[d]][v[d]] ELSE NoEntry
Present(pe) == pe \in PFrame

PagingInit ==
  /\ frameMem = [f \in PFrame |-> EmptyTable]
  /\ freeFrames = PFrame \ {Root}
  /\ use = [v \in PPage |-> "free"]
  /\ faults = [c \in PagingCpu |-> <<>>]

Faulting(c) == faults[c] # <<>>
Top(c) == Head(faults[c])
Work(op, v, d, pc) == [op |-> op, v |-> v, d |-> d, pc |-> pc, f |-> NoFrame]
Push(c, w) == faults' = [faults EXCEPT ![c] = <<w>> \o @]
Pop(c) == faults' = [faults EXCEPT ![c] = Tail(@)]
Become(c, w) == faults' = [faults EXCEPT ![c] = <<w>> \o Tail(@)]

(* Any free frame; frames are alike.  Out of memory the frame manager       *)
(* aborts.                                                                   *)
Allocated == Min(freeFrames)

(* mapInternal: compare-and-swap of the entry; the frame is used, or it is  *)
(* to be released.                                                           *)
MapInternal(c, expected, pe) ==
  LET t == Tables(Top(c).v)[Top(c).d]
      i == Top(c).v[Top(c).d]
  IN IF frameMem[t][i] = expected
     THEN /\ frameMem' = [frameMem EXCEPT ![t][i] = pe]
          /\ Become(c, [Top(c) EXCEPT !.pc = "check", !.f = NoFrame])
     ELSE /\ Become(c, [Top(c) EXCEPT !.pc = "release"])
          /\ UNCHANGED frameMem

(* The access to an entry faults: the handler runs tablefault and mapTable  *)
(* for the level above, which allocates before it looks.                     *)
TableFault(c) ==
  /\ Faulting(c) /\ Top(c).pc \in {"walk", "cas"} /\ ~Reached(Top(c).v, Top(c).d)
  /\ freeFrames # {}
  /\ Push(c, [Work("mapTable", Top(c).v, Top(c).d - 1, "cas") EXCEPT !.f = Allocated])
  /\ freeFrames' = freeFrames \ {Allocated}
  /\ UNCHANGED <<frameMem, use>>

Reaches(c, pc) == Faulting(c) /\ Top(c).pc = pc /\ Reached(Top(c).v, Top(c).d)

(* mapRegion with Lazy, under vlock: the address space hands out a page it  *)
(* does not use.  mapToLazy's result is ignored.                             *)
MapRegion(c, v) ==
  /\ ~Faulting(c) /\ use[v] = "free"
  /\ use' = [use EXCEPT ![v] = "mapping"]
  /\ Push(c, Work("mapToLazy", v, Depth, "cas"))
  /\ UNCHANGED <<frameMem, freeFrames>>

MapToLazy(c) ==
  /\ Reaches(c, "cas") /\ Top(c).op = "mapToLazy"
  /\ LET v == Top(c).v
     IN /\ frameMem' = IF Entry(v, Depth) # NoEntry THEN frameMem
                       ELSE [frameMem EXCEPT ![Tables(v)[Depth]][v[Depth]] = LazyPage]
        /\ use' = [use EXCEPT ![v] = "mapped"]
  /\ Pop(c)
  /\ UNCHANGED freeFrames

(* The program uses a mapped page whose entry is not present: pagefault,    *)
(* then mapFromLazy from the level below the root.                           *)
PageFaultIn(c, v) ==
  /\ ~Faulting(c) /\ use[v] = "mapped" /\ ~Present(Entry(v, Depth))
  /\ Push(c, Work("mapFromLazy", v, 2, "walk"))
  /\ UNCHANGED <<frameMem, freeFrames, use>>

(* mapFromLazy: down to the entry that is no table, and a frame for it. *)
MapFromLazy(c) ==
  /\ Reaches(c, "walk")
  /\ LET w == Top(c)
     IN IF w.d < Depth /\ Present(Entry(w.v, w.d))
        THEN Become(c, [w EXCEPT !.d = @ + 1]) /\ UNCHANGED freeFrames
        ELSE /\ freeFrames # {}
             /\ Become(c, [w EXCEPT !.pc = "cas", !.f = Allocated])
             /\ freeFrames' = freeFrames \ {Allocated}
  /\ UNCHANGED <<frameMem, use>>

(* mapTable and mapFromLazy: their mapInternal. *)
Expected(w) == IF w.op = "mapTable" THEN NoEntry ELSE LazyPage
Install(c) ==
  /\ Reaches(c, "cas") /\ Top(c).op # "mapToLazy"
  /\ MapInternal(c, Expected(Top(c)), Top(c).f)
  /\ UNCHANGED <<freeFrames, use>>

\* Mutant: the frame is not given back.
KeepFrame(c) == Become(c, [Top(c) EXCEPT !.pc = "check", !.f = NoFrame]) /\ UNCHANGED freeFrames

(* The loser's fm.release. *)
GiveBack(c) ==
  /\ Become(c, [Top(c) EXCEPT !.pc = "check", !.f = NoFrame])
  /\ freeFrames' = freeFrames \cup {Top(c).f}

ReleaseLost(c) ==
  /\ Faulting(c) /\ Top(c).pc = "release"
  /\ GiveBack(c)
  /\ UNCHANGED <<frameMem, use>>

(* checkMapping asserts that the entry is present; the access is retried. *)
CheckMapping(c) ==
  /\ Faulting(c) /\ Top(c).pc = "check" /\ Present(Entry(Top(c).v, Top(c).d))
  /\ Pop(c)
  /\ UNCHANGED <<frameMem, freeFrames, use>>

(* unmap exchanges the entry; a frame is released (AddressSpace says when). *)
(* The program does not use a page while it unmaps it.                       *)
Unmap(c, v) ==
  /\ ~Faulting(c) /\ use[v] = "mapped"
  /\ \A x \in PagingCpu : \A i \in DOMAIN faults[x] : faults[x][i].v # v
  /\ frameMem' = [frameMem EXCEPT ![Tables(v)[Depth]][v[Depth]] = NoEntry]
  /\ freeFrames' = freeFrames \cup ({Entry(v, Depth)} \cap PFrame)
  /\ use' = [use EXCEPT ![v] = "free"]
  /\ UNCHANGED faults

(* clear: the frames of all pages and tables below the root. *)
Cleared == {Entry(v, d) : v \in PPage, d \in 1..Depth} \cap PFrame

(* clean, by the last thread of the process. *)
Clean ==
  /\ \A c \in PagingCpu : ~Faulting(c)
  /\ freeFrames' = freeFrames \cup Cleared
  /\ frameMem' = [f \in PFrame |-> EmptyTable]
  /\ use' = [v \in PPage |-> "free"]
  /\ UNCHANGED faults

PagingNext ==
  \/ \E c \in PagingCpu :
       \/ TableFault(c) \/ MapToLazy(c) \/ MapFromLazy(c) \/ Install(c)
       \/ ReleaseLost(c) \/ CheckMapping(c)
       \/ \E v \in PPage : MapRegion(c, v) \/ PageFaultIn(c, v) \/ Unmap(c, v)
  \/ Clean

PagingSpec == PagingInit /\ [][PagingNext]_pagingVars

-----------------------------------------------------------------------------
(* Every frame is in one place: free, the root, referred to by one entry of *)
(* the tree, or held by one CPU that is about to install it.  Races of      *)
(* faulting CPUs neither leak a frame nor use one twice (Paging.h mapTable,  *)
(* mapFromLazy, clear).                                                      *)
Referring(tables, f) == {e \in tables \X Index : frameMem[e[1]][e[2]] = f}
HeldBy(f) ==
  {h \in PagingCpu \X (1..(Depth + 1)) : h[2] \in DOMAIN faults[h[1]] /\ faults[h[1]][h[2]].f = f}

FramesOwned ==
  LET tables == Cleared \cup {Root}
  IN \A f \in PFrame \ {Root} :
       Cardinality(Referring(tables, f)) + Cardinality(HeldBy(f)) + (IF f \in freeFrames THEN 1 ELSE 0) = 1

(* No mapping gets lost: a page the address space has mapped keeps an       *)
(* entry, lazy or present, whatever tables other CPUs install at the same    *)
(* time, and a handler that is done finds its entry present, which           *)
(* checkMapping asserts (Paging.h).                                          *)
MappingKept ==
  /\ \A v \in PPage : use[v] = "mapped" => Entry(v, Depth) # NoEntry
  /\ \A c \in PagingCpu : Faulting(c) /\ Top(c).pc = "check" => Present(Entry(Top(c).v, Top(c).d))

(* Concurrent faults neither leak nor share a frame, and lose no mapping   *)
(* (Paging.h mapTable, mapFromLazy).                                       *)
PageTableSound == FramesOwned /\ MappingKept

=============================================================================
