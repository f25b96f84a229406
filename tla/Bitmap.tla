------------------------------- MODULE Bitmap -------------------------------
(***************************************************************************)
(* HierarchicalBitmap of generic/Bitmap.h: a bitmap with summary levels.   *)
(* A bit of level l+1 is set if and only if the elementary bitmap of B     *)
(* bits below it is not empty.  init places the levels one after the other *)
(* into one piece of memory, so that an index past the end of one level    *)
(* reads the next one; mem is that memory, one set of bits per elementary  *)
(* bitmap.                                                                 *)
(***************************************************************************)
EXTENDS Integers, FiniteSets, FiniteSetsExt

CONSTANTS
  B,        \* bits of an elementary bitmap (512 in the code)
  Levels    \* summary levels

ASSUME BitmapAssumption ==
  /\ B \in Nat \ {0, 1}
  /\ Levels \in Nat \ {0}

Bit == 0 .. B - 1
Tier == 0 .. Levels - 1
NotFound == -1    \* limit<size_t>(): nothing found

divup(a, b) == (a + b - 1) \div b

(* allocsize and init for n bits: the number of elementary bitmaps of each *)
(* level and where they begin.                                             *)
Count(n, l) == divup(n, B ^ (l + 1))
base(n) ==
  LET f[l \in Nat] == IF l = 0 THEN 0 ELSE f[l - 1] + Count(n, l - 1) IN f
Memory(n) == 0 .. base(n)[Levels] - 1

(* The memory of a bitmap of n bits in which exactly the bits S are set.   *)
Holding(n, S) ==
  LET from == base(n)
      level(p) == CHOOSE k \in Tier : p \in from[k] .. from[k + 1] - 1
  IN [p \in Memory(n) |->
        LET l == level(p)
        IN {b \in Bit : \E i \in S : i \div B ^ l = (p - from[l]) * B + b}]

Bits(n, mem) == {i \in 0 .. n - 1 : i % B \in mem[i \div B]}

(* Where the bit for index i of level 0 is on level l.                     *)
Block(n, i, l) == base(n)[l] + i \div B ^ (l + 1)
Pos(i, l) == (i \div B ^ l) % B
BitSet(n, mem, i, l) == Pos(i, l) \in mem[Block(n, i, l)]

-----------------------------------------------------------------------------
(* set goes up until it meets a bit that is set already.                   *)
Set(n, mem, i, bot) ==
  LET up == {l \in bot .. Levels - 1 : \A k \in bot .. l : ~ BitSet(n, mem, i, k)}
  IN [p \in DOMAIN mem |->
        mem[p] \cup {Pos(i, l) : l \in {k \in up : Block(n, i, k) = p}}]

(* clr goes up until it leaves a bitmap that is not empty.                 *)
Clr(n, mem, i, bot) ==
  LET up == {l \in bot .. Levels - 1 :
               \A k \in bot .. l - 1 : mem[Block(n, i, k)] \subseteq {Pos(i, k)}}
  IN [p \in DOMAIN mem |->
        mem[p] \ {Pos(i, l) : l \in {k \in up : Block(n, i, k) = p}}]

BlockSet(n, mem, i) == Set(n, [mem EXCEPT ![i \div B] = Bit], i, 1)
BlockClr(n, mem, i) == Clr(n, [mem EXCEPT ![i \div B] = {}], i, 1)
BlockFull(mem, i) == mem[i \div B] = Bit

(* multiscan: the first bit of an elementary bitmap that is set, or clear, *)
(* from position r on; B if there is none.                                 *)
Scan(mem, p, findset, r) ==
  LET S == {b \in Bit : b >= r /\ (b \in mem[p] <=> findset)}
  IN IF S = {} THEN B ELSE Min(S)

(* multiscan_rev: the last bit that is set.  An empty bitmap gives 0, so   *)
(* that find_rev never sees the B it tests for.                            *)
ScanRev(mem, p) == IF mem[p] = {} THEN 0 ELSE Max(mem[p])

(* The private find: from bit r of bitmap s of level l go up until a bit   *)
(* is found, then down again.                                              *)
Search(n, mem, findset) ==
  LET f[s \in Nat, r \in Nat, l \in Nat] ==
        IF l = Levels THEN NotFound
        ELSE LET b == Scan(mem, base(n)[l] + s, findset, r)
             IN IF b = B THEN f[(s + 1) \div B, (s + 1) % B, l + 1]
                ELSE IF l = 0 THEN s * B + b
                ELSE f[s * B + b, 0, l - 1]
  IN f

FindFirst(n, mem) == Search(n, mem, TRUE)[0, 0, Levels - 1]
FindAfter(n, mem, i, findset) == Search(n, mem, findset)[(i + 1) \div B, (i + 1) % B, 0]

(* findrange: where the next range starts and how long it is.              *)
FindRange(n, mem, i, max) ==
  LET start == FindAfter(n, mem, i, TRUE)
      end == FindAfter(n, mem, start, FALSE)
  IN IF start = NotFound THEN [start |-> NotFound, len |-> 0]
     ELSE [start |-> start, len |-> (IF end = NotFound THEN max ELSE end) - start]

FindRev(n, mem) ==
  LET f[l \in Nat, i \in Nat] ==
        LET b == ScanRev(mem, base(n)[l] + i)
        IN IF b = B THEN NotFound
           ELSE IF l = 0 THEN i * B + b ELSE f[l - 1, i * B + b]
  IN f[Levels - 1, 0]
=============================================================================
