---------------------------- MODULE FrameManager ----------------------------
(***************************************************************************)
(* FrameMap and FrameManager of kernel/FrameManager.h: physical memory as  *)
(* small frames (level 1) and large frames of B small ones (level 2).      *)
(* Each level has a lock and two hierarchical bitmaps, of the frames that  *)
(* are free and zeroed and of those that are free and still to be zeroed.  *)
(* A frame is in no bitmap at all while a CPU zeroes it without the lock.  *)
(***************************************************************************)
EXTENDS Bitmap

CONSTANTS
  FmCpu,
  N,             \* number of small frames: memRange / smallps
  RegionSizes,   \* sizes asked of allocRegion, in small frames
  Limits         \* the last frames callers let a region start at

NoFmCpu == "nobody"

ASSUME FrameAssumption ==
  /\ N \in Nat \ {0} /\ N % B = 0
  /\ RegionSizes \subseteq 1 .. B
  /\ Limits \subseteq 0 .. N - 1
  /\ NoFmCpu \notin FmCpu

VARIABLES
  frames,    \* frames[pl]: free and zeroed
  tozero,    \* tozero[pl]: free
  lock,      \* lock[pl]: the FmCpu that holds it
  op,        \* op[c]: what FmCpu c is doing
  owned,     \* owned[i]: how many owners small frame i has
  zeroed,    \* small frames nobody can have written to since their zeroing
  panic      \* why the kernel has stopped

fmVars == <<frames, tozero, lock, op, owned, zeroed, panic>>

PL == {1, 2}
Small == 0 .. N - 1

ptentries(pl) == IF pl = 1 THEN 1 ELSE B     \* small frames in a frame of level pl
num(pl) == N \div ptentries(pl)
Parts(pl, i) == i * ptentries(pl) .. i * ptentries(pl) + ptentries(pl) - 1
Span(i, n) == i .. i + n - 1

(* What a CPU does: its step, the level it works on, the call it executes  *)
(* (the level for alloc, 0 for zero) and the frames it is concerned with.  *)
Idle == [pc |-> "idle", pl |-> 1, call |-> 0, idx |-> 0, cnt |-> 0]
Doing(pc, pl, call, idx, cnt) ==
  [pc |-> pc, pl |-> pl, call |-> call, idx |-> idx, cnt |-> cnt]

(* The static object before boot gets to it: no bitmaps, nobody calls it.  *)
FmInit ==
  /\ frames = <<>> /\ tozero = <<>> /\ lock = <<>>
  /\ op = <<>> /\ owned = <<>> /\ zeroed = {}
  /\ panic = "no"

(* init, and the release of all memory it starts with (Machine.cc initBSP);*)
(* none of that memory is zeroed.                                          *)
FrameManagerInit ==
  /\ frames = <<>>
  /\ frames' = [pl \in PL |-> Holding(num(pl), {})]
  /\ tozero' = [pl \in PL |-> Holding(num(pl), IF pl = 2 THEN 0 .. num(2) - 1 ELSE {})]
  /\ lock' = [pl \in PL |-> NoFmCpu]
  /\ op' = [c \in FmCpu |-> Idle]
  /\ owned' = [i \in 0 .. N + B |-> 0]
  /\ UNCHANGED <<zeroed, panic>>

HandOut(S) ==
  /\ owned' = [i \in DOMAIN owned |-> owned[i] + IF i \in S THEN 1 ELSE 0]
  /\ zeroed' = zeroed \ S

ClrAll(n, mem, S) == FoldSet(LAMBDA i, m : Clr(n, m, i, 0), mem, S)

(* The loop of allocRegion over the ranges findrange reports; NotFound if  *)
(* the level above has to help.                                            *)
RegionAt(pl, mem, n, lim) ==
  LET f[i \in Nat] ==
        LET r == FindRange(num(pl), mem, i, num(pl)) IN
        IF r.len = 0 \/ r.start > lim THEN NotFound
        ELSE IF r.len >= n THEN r.start
        ELSE f[r.start + r.len]
  IN f[0]

(***************************************************************************)
(* Mutants.                                                                *)
(***************************************************************************)

(* releaseInternal leaves the full block in the bitmap of small frames.    *)
ReleaseInternalTwice(pl, i) ==
  LET set == Set(num(pl), frames[pl], i, 0) IN
  IF pl = 1 /\ BlockFull(set, i)
    THEN [frames EXCEPT ![1] = set, ![2] = Set(num(2), @, i \div B, 0)]
    ELSE [frames EXCEPT ![pl] = set]

-----------------------------------------------------------------------------
(* releaseInternal: the small frame that completes a block turns it into a *)
(* large frame; there is no level above large frames.                      *)
ReleaseInternal(pl, i) ==
  LET set == Set(num(pl), frames[pl], i, 0) IN
  IF pl = 1 /\ BlockFull(set, i)
    THEN [frames EXCEPT ![1] = BlockClr(num(1), set, i),
                        ![2] = Set(num(2), @, i \div B, 0)]
    ELSE [frames EXCEPT ![pl] = set]

(* zeroInternal up to the release of the lock.                             *)
TakeZero(c, pl, call) ==
  LET z == FindFirst(num(pl), tozero[pl]) IN
  /\ z # NotFound
  /\ tozero' = [tozero EXCEPT ![pl] = Clr(num(pl), @, z, 0)]
  /\ op' = [op EXCEPT ![c] = Doing("zero", pl, call, z, 1)]
  /\ lock' = [lock EXCEPT ![pl] = NoFmCpu]
  /\ UNCHANGED frames

(* FrameZero and the rest of zeroInternal.  alloc goes on with the lock    *)
(* held, zero returns.                                                     *)
ZeroDone(c) ==
  LET pl == op[c].pl IN
  /\ op[c].pc = "zero"
  /\ lock[pl] = NoFmCpu
  /\ frames' = ReleaseInternal(pl, op[c].idx)
  /\ frames'[2] # frames[2] => lock[2] = NoFmCpu
  /\ zeroed' = zeroed \cup Parts(pl, op[c].idx)
  /\ IF op[c].call = 0
       THEN op' = [op EXCEPT ![c] = Idle] /\ UNCHANGED lock
       ELSE op' = [op EXCEPT ![c].pc = "find"] /\ lock' = [lock EXCEPT ![pl] = c]
  /\ UNCHANGED <<tozero, owned, panic>>

(* alloc for a frame of level pl.                                          *)
Alloc(c, pl) ==
  /\ op[c] = Idle /\ lock[pl] = NoFmCpu
  /\ lock' = [lock EXCEPT ![pl] = c]
  /\ op' = [op EXCEPT ![c] = Doing("find", pl, pl, 0, 0)]
  /\ UNCHANGED <<frames, tozero, owned, zeroed, panic>>

(* A frame is free.  A large frame that a small one is allocated from      *)
(* becomes a block of free small frames.                                   *)
AllocFound(c) ==
  LET pl == op[c].pl
      i == FindFirst(num(pl), frames[pl])
      left == [frames EXCEPT ![pl] = Clr(num(pl), @, i, 0)]
  IN
  /\ op[c].pc = "find" /\ i # NotFound
  /\ IF pl = op[c].call
       THEN frames' = left /\ HandOut(Parts(pl, i))
       ELSE /\ frames' = [left EXCEPT ![1] = Clr(num(1), BlockSet(num(1), @, i * B), i * B, 0)]
            /\ HandOut({i * B})
  /\ lock' = [l \in PL |-> IF lock[l] = c THEN NoFmCpu ELSE lock[l]]
  /\ op' = [op EXCEPT ![c] = Idle]
  /\ UNCHANGED <<tozero, panic>>

AllocZero(c) ==
  /\ op[c].pc = "find" /\ FindFirst(num(op[c].pl), frames[op[c].pl]) = NotFound
  /\ TakeZero(c, op[c].pl, op[c].call)
  /\ UNCHANGED <<owned, zeroed, panic>>

(* No small frame is left: alloc asks for a large one with its lock held.  *)
AllocSplit(c) ==
  /\ op[c].pc = "find" /\ op[c].pl = 1
  /\ FindFirst(num(1), frames[1]) = NotFound /\ FindFirst(num(1), tozero[1]) = NotFound
  /\ lock[2] = NoFmCpu
  /\ lock' = [lock EXCEPT ![2] = c]
  /\ op' = [op EXCEPT ![c].pl = 2]
  /\ UNCHANGED <<frames, tozero, owned, zeroed, panic>>

OutOfMemory(c) ==
  /\ op[c].pc = "find" /\ op[c].pl = 2
  /\ FindFirst(num(2), frames[2]) = NotFound /\ FindFirst(num(2), tozero[2]) = NotFound
  /\ panic' = "out_of_memory"
  /\ UNCHANGED <<frames, tozero, lock, op, owned, zeroed>>

(* zeroMemory: one frame of the first level that has one to be zeroed.     *)
ZeroMemory(c) ==
  /\ op[c] = Idle /\ lock[1] = NoFmCpu
  /\ \/ TakeZero(c, 1, 0)
     \/ /\ FindFirst(num(1), tozero[1]) = NotFound
        /\ op' = [op EXCEPT ![c] = Doing("large", 2, 0, 0, 0)]
        /\ UNCHANGED <<frames, tozero, lock>>
  /\ UNCHANGED <<owned, zeroed, panic>>

ZeroMemoryLarge(c) ==
  /\ op[c].pc = "large" /\ lock[2] = NoFmCpu
  /\ \/ TakeZero(c, 2, 0)
     \/ /\ FindFirst(num(2), tozero[2]) = NotFound
        /\ op' = [op EXCEPT ![c] = Idle]
        /\ UNCHANGED <<frames, tozero, lock>>
  /\ UNCHANGED <<owned, zeroed, panic>>

(* release of n frames from i on, by their owner; as a loop that locks     *)
(* once per frame, with large frames where the range has whole ones.       *)
Release(c, i, n) ==
  /\ op[c] = Idle
  /\ \A j \in Span(i, n) : owned[j] > 0
  /\ owned' = [j \in DOMAIN owned |-> owned[j] - IF j \in Span(i, n) THEN 1 ELSE 0]
  /\ op' = [op EXCEPT ![c] = Doing("release", 1, 0, i, n)]
  /\ UNCHANGED <<frames, tozero, lock, zeroed, panic>>

ReleaseStep(c) ==
  LET i == op[c].idx
      n == op[c].cnt
      pl == IF i % B = 0 /\ n >= B THEN 2 ELSE 1
      k == ptentries(pl)
  IN
  /\ op[c].pc = "release"
  /\ lock[pl] = NoFmCpu
  /\ tozero' = [tozero EXCEPT ![pl] = Set(num(pl), @, i \div k, 0)]
  /\ op' = [op EXCEPT ![c] = IF n = k THEN Idle ELSE [@ EXCEPT !.idx = i + k, !.cnt = n - k]]
  /\ UNCHANGED <<frames, lock, owned, zeroed, panic>>

AllocRegion(c, n, lim) ==
  LET i == RegionAt(1, frames[1], n, lim) IN
  /\ op[c] = Idle /\ lock[1] = NoFmCpu
  /\ i # NotFound
  /\ frames' = [frames EXCEPT ![1] = ClrAll(num(1), @, Span(i, n))]
  /\ HandOut(Span(i, n))
  /\ UNCHANGED <<tozero, lock, op, panic>>

AllocRegionSplit(c, n, lim) ==
  LET i == RegionAt(2, frames[2], divup(n, B), lim \div B) IN
  /\ op[c] = Idle /\ lock[1] = NoFmCpu /\ lock[2] = NoFmCpu
  /\ RegionAt(1, frames[1], n, lim) = NotFound
  /\ IF i = NotFound
       THEN panic' = "impossible_region" /\ UNCHANGED <<frames, owned, zeroed>>
       ELSE /\ frames' = [frames EXCEPT ![2] = Clr(num(2), @, i, 0),
                                        ![1] = ClrAll(num(1), BlockSet(num(1), @, i * B), Span(i * B, n))]
            /\ HandOut(Span(i * B, n))
            /\ UNCHANGED panic
  /\ UNCHANGED <<tozero, lock, op>>

(* KABORT ends in Reboot, which does not return.                           *)
Reboot == panic # "no" /\ UNCHANGED fmVars

FmNext ==
  \/ FrameManagerInit
  \/ frames # <<>> /\ panic = "no" /\ \E c \in FmCpu :
       \/ \E pl \in PL : Alloc(c, pl)
       \/ AllocFound(c) \/ AllocZero(c) \/ AllocSplit(c) \/ OutOfMemory(c)
       \/ ZeroMemory(c) \/ ZeroMemoryLarge(c) \/ ZeroDone(c)
       \/ \E i \in Small : \E n \in 1 .. N - i : Release(c, i, n)
       \/ ReleaseStep(c)
       \/ \E n \in RegionSizes, lim \in Limits : lim + n <= N /\
            (AllocRegion(c, n, lim) \/ AllocRegionSplit(c, n, lim))
  \/ Reboot

FmSpec == FmInit /\ [][FmNext]_fmVars

-----------------------------------------------------------------------------
(* The small frames that a bitmap of level pl stands for.                  *)
Free(map, pl) == UNION {Parts(pl, i) : i \in Bits(num(pl), map[pl])}

(* The frames a CPU has taken out of the bitmaps or has still to put back. *)
Busy(c) ==
  IF op[c].pc = "zero" THEN Parts(op[c].pl, op[c].idx)
  ELSE IF op[c].pc = "release" THEN Span(op[c].idx, op[c].cnt) ELSE {}

(* Every frame is accounted for exactly once: it has one owner, or is in   *)
(* one bitmap of one level, or is being zeroed or released by one CPU.     *)
(* Frames are split and merged, and locks dropped in the middle, without   *)
(* one being lost, allocated twice or made up.                             *)
FramesAccounted ==
  LET free == [pl \in PL |-> Free(frames, pl)]
      dirty == [pl \in PL |-> Free(tozero, pl)]
  IN
  /\ \A i \in DOMAIN owned \cap Small :
       owned[i] + Cardinality({pl \in PL : i \in free[pl]})
                + Cardinality({pl \in PL : i \in dirty[pl]})
                + Cardinality({c \in FmCpu : i \in Busy(c)}) = 1
  /\ \A i \in DOMAIN owned \ Small : owned[i] = 0

(* What alloc takes a frame from holds zeroed frames only, so page tables  *)
(* and user pages never start with what a former owner left in the frame.  *)
FreeIsZeroed == \A pl \in DOMAIN frames : Free(frames, pl) \subseteq zeroed

(* "OUT OF MEMORY" for a small frame means it: no level has any free frame *)
(* on record then, although the levels are searched under two locks and    *)
(* one of them is dropped while a large frame is zeroed.                   *)
OutOfMemoryTrue ==
  panic = "out_of_memory" =>
    \E c \in FmCpu : /\ op[c].pc = "find"
                     /\ \A pl \in (IF op[c].call = 1 THEN PL ELSE {2}) :
                        Free(frames, pl) \cup Free(tozero, pl) = {}

Bitmaps == {<<num(pl), frames[pl]>> : pl \in DOMAIN frames} \cup {<<num(pl), tozero[pl]>> : pl \in DOMAIN tozero}

(* set, clr, blockset and blockclr, which leave their loops as early as    *)
(* they can, keep every summary level exact: one wrong bit would hide free *)
(* frames for ever.  find, find with an index and find_rev return the      *)
(* first bit, the next bit and the last bit that is set.  With no bit to   *)
(* find after the index, find may climb past the end of a level into the   *)
(* memory of the next; find_rev has no answer for an empty bitmap.         *)
BitmapsExact ==
  \A m \in Bitmaps :
    LET n == m[1]
        bits == Bits(n, m[2])
        after(i) == {j \in bits : j > i}
    IN
    /\ m[2] = Holding(n, bits)
    /\ FindFirst(n, m[2]) = (IF bits = {} THEN NotFound ELSE Min(bits))
    /\ \A i \in 0 .. n - 1 :
         after(i) # {} => FindAfter(n, m[2], i, TRUE) = Min(after(i))
    /\ bits # {} => FindRev(n, m[2]) = Max(bits)

(* Frames are handed out once, zeroed, and the machine is stopped for want *)
(* of memory only if there is none; the bitmaps stay exact and are         *)
(* searched right (FrameManager.h alloc, release, zero; Bitmap.h).         *)
FrameManagerSound == FramesAccounted /\ FreeIsZeroed /\ OutOfMemoryTrue /\ BitmapsExact

-----------------------------------------------------------------------------
(* What the frame manager relies on.  For every content of a bitmap: set,  *)
(* clr, blockset and blockclr change the bits they say and the summary     *)
(* levels with them, and the searches find what they say (Bitmap.h).       *)
BitmapContract(n) ==
  \A S \in SUBSET (0 .. n - 1) :
    LET mem == Holding(n, S)
        after(i) == {j \in S : j > i}
    IN
    /\ Bits(n, mem) = S
    /\ FindFirst(n, mem) = (IF S = {} THEN NotFound ELSE Min(S))
    /\ S # {} => FindRev(n, mem) = Max(S)
    /\ \A i \in 0 .. n - 1 :
         /\ Set(n, mem, i, 0) = Holding(n, S \cup {i})
         /\ Clr(n, mem, i, 0) = Holding(n, S \ {i})
         /\ after(i) # {} => FindAfter(n, mem, i, TRUE) = Min(after(i))

BlockContract(n) ==
  \A S \in SUBSET (0 .. n - 1) :
    LET mem == Holding(n, S) IN
    /\ \A T \in SUBSET (0 .. n - 1) : ClrAll(n, mem, T) = Holding(n, S \ T)
    /\ \A i \in 0 .. n - 1 :
         LET block == Parts(2, i \div B) IN
         /\ BlockFull(mem, i) <=> block \subseteq S
         /\ BlockSet(n, mem, i) = Holding(n, S \cup block)
         /\ BlockClr(n, mem, i) = Holding(n, S \ block)

(* The loop of allocRegion ends with frames that are free: among small     *)
(* frames, where a full block has become a large frame.                    *)
Broken(pl, S) == pl = 1 => \A k \in 0 .. num(2) - 1 : ~ (Parts(2, k) \subseteq S)

RegionContract(pl, n, lim) ==
  \A S \in SUBSET (0 .. num(pl) - 1) : Broken(pl, S) =>
    LET i == RegionAt(pl, Holding(num(pl), S), n, lim)
    IN i = NotFound \/ (i \in Nat /\ Span(i, n) \subseteq S)

BitmapsWork ==
  /\ \A pl \in PL : BitmapContract(num(pl))
  /\ BlockContract(N)
  /\ \A n \in RegionSizes, lim \in Limits : RegionContract(1, n, lim) /\ RegionContract(2, divup(n, B), lim \div B)

=============================================================================
