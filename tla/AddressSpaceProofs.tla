------------------------- MODULE AddressSpaceProofs -------------------------
(***************************************************************************)
(* Proofs about AddressSpace: without a TLB shootdown, no CPU reaches a    *)
(* frame or an address through a translation that has outlived them, and   *)
(* nothing is lost or given back twice, for any number of CPUs, pages and  *)
(* frames and also when the epoch counter wraps around.  Then about Isr:   *)
(* the border of the kernel is crossed with the right stack, %gs base,     *)
(* interrupt flag and lock count.  Then about KernelHeap: the heap and the *)
(* kernel address space, which call each other, never wait in a circle.    *)
(* Then about HandleTable: handles lead to their objects while others      *)
(* close, and the table's slots are neither lost nor given out twice.      *)
(* Last about Paging: CPUs that fault at the same time share one tree of   *)
(* tables, and neither leak a frame nor lose a mapping.                    *)
(***************************************************************************)
EXTENDS AddressSpace, Isr, KernelHeap, HandleTable, Paging, SequenceTheorems, FiniteSetTheorems, WellFoundedInduction, TLAPS

-----------------------------------------------------------------------------
(* Epochs: the differences that leave computes, as long as they are small. *)
LEMMA EpochDifference ==
  ASSUME NEW a \in 0 .. EpochMod - 1, NEW b \in 0 .. EpochMod - 1
  PROVE  Since(a, b) = IF b <= a THEN a - b ELSE a - b + EpochMod
  <1>1. EpochMod \in Nat /\ EpochMod > 0
    BY AddressSpaceAssumption
  <1>2. ASSUME NEW M \in Nat, M > 0, NEW x \in 0 .. M - 1, NEW y \in 0 .. M - 1
        PROVE  (x - y) % M = IF y <= x THEN x - y ELSE x - y + M
    BY <1>2
  <1> QED BY <1>1, <1>2 DEF Since

LEMMA NextEpoch ==
  ASSUME NEW a \in 0 .. EpochMod - 1
  PROVE  (a + 1) % EpochMod = IF a + 1 = EpochMod THEN 0 ELSE a + 1
  <1>1. EpochMod \in Nat /\ EpochMod > 0
    BY AddressSpaceAssumption
  <1>2. ASSUME NEW M \in Nat, M > 0, NEW x \in 0 .. M - 1
        PROVE  (x + 1) % M = IF x + 1 = M THEN 0 ELSE x + 1
    BY <1>2
  <1> QED BY <1>1, <1>2

(* The age of a marker grows by one with each unmapped page.               *)
LEMMA Ageing ==
  ASSUME NEW a \in 0 .. EpochMod - 1, NEW b \in 0 .. EpochMod - 1, Since(a, b) + 1 < EpochMod
  PROVE  Since((a + 1) % EpochMod, b) = Since(a, b) + 1
  <1>0. EpochMod \in Nat /\ EpochMod > 0
    BY AddressSpaceAssumption
  <1>1. (a + 1) % EpochMod \in 0 .. EpochMod - 1
    BY <1>0, NextEpoch
  <1> QED BY <1>0, <1>1, NextEpoch, EpochDifference

LEMMA NoAge ==
  ASSUME NEW a \in 0 .. EpochMod - 1
  PROVE  Since(a, a) = 0
  BY EpochDifference, AddressSpaceAssumption

(* How much older one marker is than another.                              *)
LEMMA AgeDifference ==
  ASSUME NEW a \in 0 .. EpochMod - 1, NEW b \in 0 .. EpochMod - 1, NEW x \in 0 .. EpochMod - 1,
         Since(a, x) <= Since(a, b)
  PROVE  Since(x, b) = Since(a, b) - Since(a, x)
  BY EpochDifference, AddressSpaceAssumption

LEMMA AgeType ==
  ASSUME NEW a \in 0 .. EpochMod - 1, NEW b \in 0 .. EpochMod - 1
  PROVE  Since(a, b) \in 0 .. EpochMod - 1
  <1>1. EpochMod \in Nat
    BY AddressSpaceAssumption
  <1>2. CASE b <= a
    BY <1>1, <1>2, EpochDifference
  <1>3. CASE ~ (b <= a)
    BY <1>1, <1>3, EpochDifference
  <1> QED BY <1>2, <1>3

-----------------------------------------------------------------------------
(* Sequences.                                                              *)
LEMMA AppendFacts ==
  ASSUME NEW S, NEW s \in Seq(S), NEW v \in S
  PROVE  /\ Append(s, v) \in Seq(S)
         /\ Len(s) \in Nat /\ DOMAIN s = 1 .. Len(s)
         /\ DOMAIN Append(s, v) = 1 .. Len(s) + 1
         /\ Len(Append(s, v)) = Len(s) + 1
         /\ \A i \in 1 .. Len(s) : Append(s, v)[i] = s[i]
         /\ Append(s, v)[Len(s) + 1] = v
         /\ ToSet(Append(s, v)) = ToSet(s) \cup {v}
         /\ IsInjective(s) /\ v \notin ToSet(s) => IsInjective(Append(s, v))
  <1>1. /\ Append(s, v) \in Seq(S)
        /\ Len(Append(s, v)) = Len(s) + 1
        /\ \A i \in 1 .. Len(s) : Append(s, v)[i] = s[i]
        /\ Append(s, v)[Len(s) + 1] = v
        /\ Len(s) \in Nat /\ DOMAIN s = 1 .. Len(s)
    BY AppendProperties, LenProperties
  <1>2. DOMAIN Append(s, v) = 1 .. Len(s) + 1
    BY <1>1, LenProperties
  <1>3. ToSet(Append(s, v)) = ToSet(s) \cup {v}
    BY <1>1, <1>2 DEF ToSet
  <1>4. IsInjective(s) /\ v \notin ToSet(s) => IsInjective(Append(s, v))
    BY <1>1, <1>2 DEF IsInjective, ToSet
  <1> QED BY <1>1, <1>2, <1>3, <1>4

LEMMA TailFacts ==
  ASSUME NEW S, NEW s \in Seq(S), Len(s) > 0
  PROVE  /\ Head(s) = s[1] /\ Head(s) \in S /\ Head(s) \in ToSet(s)
         /\ Tail(s) \in Seq(S)
         /\ Len(s) \in Nat /\ DOMAIN s = 1 .. Len(s)
         /\ Len(Tail(s)) = Len(s) - 1 /\ DOMAIN Tail(s) = 1 .. Len(s) - 1
         /\ \A i \in 1 .. Len(s) - 1 : Tail(s)[i] = s[i + 1]
         /\ IsInjective(s) => IsInjective(Tail(s)) /\ ToSet(Tail(s)) = ToSet(s) \ {Head(s)}
  <1>0. Len(s) \in Nat /\ DOMAIN s = 1 .. Len(s) /\ s # <<>>
    BY LenProperties, EmptySeq
  <1>1. /\ Head(s) = s[1] /\ Head(s) \in S
        /\ Tail(s) \in Seq(S)
        /\ Len(Tail(s)) = Len(s) - 1
        /\ \A i \in 1 .. Len(s) - 1 : Tail(s)[i] = s[i + 1]
    BY <1>0, HeadTailProperties
  <1>2. DOMAIN Tail(s) = 1 .. Len(s) - 1
    BY <1>1, LenProperties
  <1>3. Head(s) \in ToSet(s)
    BY <1>0, <1>1 DEF ToSet
  <1>4. ASSUME IsInjective(s)
        PROVE  IsInjective(Tail(s)) /\ ToSet(Tail(s)) = ToSet(s) \ {Head(s)}
    <2>1. \A i, j \in 1 .. Len(s) : s[i] = s[j] => i = j
      BY <1>0, <1>4 DEF IsInjective
    <2>2. IsInjective(Tail(s))
      BY <1>0, <1>1, <1>2, <2>1 DEF IsInjective
    <2>3. \A x : x \in ToSet(Tail(s)) => x \in ToSet(s) \ {Head(s)}
      BY <1>0, <1>1, <1>2, <2>1 DEF ToSet
    <2>4. \A x : x \in ToSet(s) \ {Head(s)} => x \in ToSet(Tail(s))
      <3> SUFFICES ASSUME NEW x \in ToSet(s), x # Head(s) PROVE x \in ToSet(Tail(s))
        OBVIOUS
      <3>1. PICK i \in 1 .. Len(s) : s[i] = x
        BY <1>0 DEF ToSet
      <3>2. i - 1 \in 1 .. Len(s) - 1 /\ Tail(s)[i - 1] = x
        BY <1>0, <1>1, <3>1
      <3> QED BY <1>2, <3>2 DEF ToSet
    <2> QED BY <2>2, <2>3, <2>4
  <1> QED BY <1>0, <1>1, <1>2, <1>3, <1>4

(* Taking the only occurrence of x out of a list keeps the others in order.*)
LEMMA TakeOut ==
  ASSUME NEW S, NEW s \in Seq(S), IsInjective(s), NEW k \in DOMAIN s, NEW r,
         r = RemoveAt(s, k)
  PROVE  /\ r \in Seq(S)
         /\ DOMAIN r = 1 .. Len(s) - 1 /\ Len(r) = Len(s) - 1
         /\ \A j \in 1 .. Len(s) - 1 : r[j] = IF j < k THEN s[j] ELSE s[j + 1]
         /\ IsInjective(r)
         /\ ToSet(r) = ToSet(s) \ {s[k]}
  <1> DEFINE a == SubSeq(s, 1, k - 1)
             b == SubSeq(s, k + 1, Len(s))
  <1>0. Len(s) \in Nat /\ DOMAIN s = 1 .. Len(s)
    BY LenProperties
  <1>p. PICK x : x = s[k]
    OBVIOUS
  <1>1. k \in 1 .. Len(s) /\ s[k] = x
    BY <1>0, <1>p
  <1>2. /\ a \in Seq(S)
        /\ Len(a) = k - 1
        /\ \A j \in 1 .. k - 1 : a[j] = s[j]
    BY <1>0, <1>1, SubSeqProperties
  <1>3. /\ b \in Seq(S)
        /\ Len(b) = Len(s) - k
        /\ \A j \in 1 .. Len(s) - k : b[j] = s[k + j]
    BY <1>0, <1>1, SubSeqProperties
  <1> HIDE DEF a, b
  <1>c. /\ a \o b \in Seq(S)
        /\ Len(a \o b) = Len(a) + Len(b)
        /\ \A j \in 1 .. Len(a) + Len(b) :
             (a \o b)[j] = IF j <= Len(a) THEN a[j] ELSE b[j - Len(a)]
    BY <1>2, <1>3, ConcatProperties
  <1>4. r = a \o b
    BY DEF RemoveAt, a, b
  <1>5. r \in Seq(S) /\ Len(r) = Len(s) - 1
    <2>1. Len(a) + Len(b) = Len(s) - 1
      BY <1>0, <1>1, <1>2, <1>3
    <2>2. a \o b \in Seq(S) /\ Len(a \o b) = Len(s) - 1
      BY <1>c, <2>1
    <2> QED BY <1>4, <2>2
  <1>e. ASSUME NEW j \in 1 .. Len(s) - 1
        PROVE  (a \o b)[j] = IF j < k THEN s[j] ELSE s[j + 1]
    <2>1. CASE j < k
      BY <1>0, <1>1, <1>2, <1>3, <1>c, <2>1
    <2>2. CASE ~ (j < k)
      <3>1. j - Len(a) \in 1 .. Len(s) - k
        BY <1>0, <1>1, <1>2, <2>2
      <3>2. (a \o b)[j] = b[j - Len(a)]
        <4>1. j \in 1 .. Len(a) + Len(b) /\ ~ (j <= Len(a))
          BY <1>0, <1>1, <1>2, <1>3, <2>2
        <4> QED BY <1>c, <4>1
      <3>3. b[j - Len(a)] = s[k + (j - Len(a))]
        BY <1>3, <3>1
      <3>4. k + (j - Len(a)) = j + 1
        BY <1>0, <1>1, <1>2
      <3> QED BY <2>2, <3>2, <3>3, <3>4
    <2> QED BY <2>1, <2>2
  <1>6. ASSUME NEW j \in 1 .. Len(s) - 1 PROVE r[j] = IF j < k THEN s[j] ELSE s[j + 1]
    BY <1>4, <1>e
  <1>7. DOMAIN r = 1 .. Len(s) - 1
    BY <1>5, LenProperties
  <1>8. \A i, j \in 1 .. Len(s) : s[i] = s[j] => i = j
    BY <1>0 DEF IsInjective
  <1>9. IsInjective(r)
    BY <1>0, <1>1, <1>6, <1>7, <1>8 DEF IsInjective
  <1>10. \A y : y \in ToSet(r) => y \in ToSet(s) \ {x}
    <2> SUFFICES ASSUME NEW j \in 1 .. Len(s) - 1 PROVE r[j] \in ToSet(s) \ {x}
      BY <1>7 DEF ToSet
    <2>1. PICK i \in 1 .. Len(s) : i # k /\ r[j] = s[i]
      <3>1. CASE j < k
        <4>1. j \in 1 .. Len(s) /\ j # k /\ r[j] = s[j]
          BY <1>0, <1>1, <1>6, <3>1
        <4> QED BY <4>1
      <3>2. CASE ~ (j < k)
        <4>1. j + 1 \in 1 .. Len(s) /\ j + 1 # k /\ r[j] = s[j + 1]
          BY <1>0, <1>1, <1>6, <3>2
        <4> QED BY <4>1
      <3> QED BY <3>1, <3>2
    <2> QED BY <1>0, <1>1, <1>8, <2>1 DEF ToSet
  <1>11. \A y : y \in ToSet(s) \ {x} => y \in ToSet(r)
    <2> SUFFICES ASSUME NEW y \in ToSet(s), y # x PROVE y \in ToSet(r)
      OBVIOUS
    <2>1. PICK i \in 1 .. Len(s) : s[i] = y
      BY <1>0 DEF ToSet
    <2>2. CASE i < k
      <3>1. i \in 1 .. Len(s) - 1 /\ r[i] = y
        BY <1>0, <1>1, <1>6, <2>1, <2>2
      <3> QED BY <1>7, <3>1 DEF ToSet
    <2>3. CASE ~ (i < k)
      <3>1. i # k
        BY <1>1, <2>1
      <3>2. i - 1 \in 1 .. Len(s) - 1 /\ ~ (i - 1 < k) /\ (i - 1) + 1 = i
        BY <1>0, <1>1, <2>3, <3>1
      <3>3. r[i - 1] = y
        BY <1>6, <2>1, <3>2
      <3> QED BY <1>7, <3>2, <3>3 DEF ToSet
    <2> QED BY <2>2, <2>3
  <1> QED BY <1>1, <1>5, <1>6, <1>7, <1>9, <1>10, <1>11

(* Every non-empty set of numbers has a least one.                         *)
LEMMA LeastNumber ==
  ASSUME NEW T \in SUBSET Nat, T # {}
  PROVE  \E m \in T : \A y \in T : m <= y
  <1>1. PICK m \in T : \A y \in T : <<y, m>> \notin OpToRel(<, Nat)
    BY NatLessThanWellFounded, WFMin
  <1>2. \A y \in T : ~ (y < m)
    BY <1>1 DEF OpToRel
  <1> QED BY <1>2

-----------------------------------------------------------------------------
(* Types, in two parts.                                                    *)
PageTypes ==
  /\ pte \in [Page -> Frame \cup {Absent, Lazy}]
  /\ unmapping \in SUBSET Descriptor
  /\ memoryList \in Seq(Descriptor)
  /\ mapStart \in 1 .. mapTop
  /\ unmapSet \in SUBSET Page
  /\ free \in SUBSET Frame

CpuTypes ==
  /\ at \in [CPU -> {"out", "arriving", "in", "departing", "release"}]
  /\ stay \in [CPU -> BOOLEAN]
  /\ tlb \in [CPU -> SUBSET (Page \X Frame)]
  /\ unmapEpoch \in 0 .. EpochMod - 1
  /\ markerList \in Seq(CPU)
  /\ enterEpoch \in [CPU -> 0 .. EpochMod - 1]
  /\ ulock \in CPU \cup {Nobody}

LEMMA Types == TypeOK <=> PageTypes /\ CpuTypes /\ toRelease \in 0 .. NPages
  BY DEF TypeOK, PageTypes, CpuTypes

LEMMA DescriptorFacts ==
  /\ \A v \in Page, f \in Frame \cup {Lazy} :
       /\ [vma |-> v, pma |-> f] \in Descriptor
       /\ [vma |-> v, pma |-> f].vma = v /\ [vma |-> v, pma |-> f].pma = f
  /\ \A md \in Descriptor :
       /\ md.vma \in Page /\ md.pma \in Frame \cup {Lazy}
       /\ md = [vma |-> md.vma, pma |-> md.pma]
  BY DEF Descriptor

(* There are no more descriptors on the list than pages.                   *)
LEMMA ShortList ==
  ASSUME NEW s \in Seq(Descriptor), IsInjective(s),
         \A x, y \in ToSet(s) : x.vma = y.vma => x = y
  PROVE  Len(s) \in Nat /\ Len(s) <= NPages
  <1> DEFINE f == [i \in 1 .. Len(s) |-> s[i].vma]
  <1>0. Len(s) \in Nat /\ DOMAIN s = 1 .. Len(s) /\ NPages \in Nat
    BY LenProperties, AddressSpaceAssumption
  <1>1. \A i \in 1 .. Len(s) : s[i] \in Descriptor /\ s[i] \in ToSet(s)
    BY <1>0 DEF ToSet
  <1>2. f \in [1 .. Len(s) -> Page]
    BY <1>1, DescriptorFacts
  <1>3. ASSUME NEW i \in 1 .. Len(s), NEW j \in 1 .. Len(s), f[i] = f[j]
        PROVE  i = j
    <2>1. s[i] = s[j]
      BY <1>1, <1>3
    <2> QED BY <1>0, <2>1 DEF IsInjective
  <1>4. /\ IsFiniteSet(1 .. Len(s)) /\ Cardinality(1 .. Len(s)) = Len(s)
        /\ IsFiniteSet(Page) /\ Cardinality(Page) = NPages
    <2>1. ASSUME NEW n \in Nat PROVE IsFiniteSet(1 .. n) /\ Cardinality(1 .. n) = n
      <3>1. /\ IsFiniteSet(1 .. n)
            /\ Cardinality(1 .. n) = IF 1 > n THEN 0 ELSE n - 1 + 1
        BY FS_Interval
      <3> QED BY <3>1
    <2> QED BY <1>0, <2>1 DEF Page
  <1>5. ~ (Cardinality(Page) < Cardinality(1 .. Len(s)))
    <2> HIDE DEF f
    <2> QED BY <1>2, <1>3, <1>4, FS_PigeonHole
  <1> QED BY <1>0, <1>4, <1>5

LEMMA ListBound ==
  ASSUME PageTypes, DescriptorsInv
  PROVE  Len(memoryList) \in Nat /\ Len(memoryList) <= NPages
  <1>1. /\ memoryList \in Seq(Descriptor) /\ IsInjective(memoryList)
        /\ \A x, y \in ToSet(memoryList) : x.vma = y.vma => x = y
    BY DEF PageTypes, DescriptorsInv, Listed
  <1> QED BY <1>1, ShortList

-----------------------------------------------------------------------------
(* Pages and frames.                                                       *)
LEMMA QuietPages ==
  ASSUME PageTypes, ConservedInv, UNCHANGED <<pte, unmapping, memoryList, vmVars, free>>
  PROVE  PageTypes' /\ ConservedInv'
  BY DEF PageTypes, ConservedInv, DescriptorsInv, RangesInv, FramesInv, Listed, vmVars

LEMMA MapPages ==
  ASSUME PageTypes, ConservedInv, NEW c \in CPU, Map(c)
  PROVE  PageTypes' /\ ConservedInv'
  <1> USE AddressSpaceAssumption
  <1>1. PICK v \in Page : v = mapStart - 1
    BY DEF Map, PageTypes, Page, mapTop
  <1>2. /\ pte' = [pte EXCEPT ![v] = Lazy] /\ mapStart' = v
        /\ UNCHANGED <<unmapping, memoryList, unmapSet, free>>
    BY <1>1 DEF Map, listVars
  <1>3. pte[v] = Absent
    BY <1>1 DEF ConservedInv, RangesInv, PageTypes, Page, mapTop
  <1>4. PageTypes'
    BY <1>2 DEF PageTypes, Page, mapTop
  <1>5. Listed' = Listed /\ \A md \in Listed : md \in Descriptor
    BY <1>2 DEF Listed, PageTypes, ToSet
  <1>6. \A md \in Listed : md.vma # v /\ md.vma \in Page
    BY <1>1, <1>5, DescriptorFacts DEF ConservedInv, RangesInv, PageTypes, Page, mapTop
  <1>7. \A w \in Page : w # v => pte'[w] = pte[w]
    BY <1>2 DEF PageTypes
  <1>8. pte'[v] = Lazy
    BY <1>2 DEF PageTypes
  <1>9. RangesInv'
    BY <1>1, <1>2, <1>3, <1>5, <1>6, <1>7, <1>8 DEF ConservedInv, RangesInv, PageTypes, Page, mapTop
  <1>10. FramesInv'
    <2>1. \A w, x \in Page : pte'[w] = pte'[x] /\ pte'[w] \in Frame => w = x
      BY <1>3, <1>7, <1>8 DEF ConservedInv, FramesInv
    <2>2. \A w \in Page : pte'[w] \notin free'
      BY <1>2, <1>7, <1>8 DEF ConservedInv, FramesInv, PageTypes
    <2>3. \A md \in Listed' : md.pma \in Frame => md.pma \notin free' /\ \A w \in Page : pte'[w] # md.pma
      BY <1>2, <1>5, <1>7, <1>8 DEF ConservedInv, FramesInv
    <2>4. \A f \in Frame :
            f \in free' \/ (\E w \in Page : pte'[w] = f) \/ (\E md \in Listed' : md.pma = f)
      BY <1>2, <1>3, <1>5, <1>7 DEF ConservedInv, FramesInv
    <2> QED BY <2>1, <2>2, <2>3, <2>4 DEF FramesInv
  <1>11. DescriptorsInv'
    BY <1>2, <1>5 DEF ConservedInv, DescriptorsInv
  <1> QED BY <1>4, <1>9, <1>10, <1>11 DEF ConservedInv

LEMMA PageFaultPages ==
  ASSUME PageTypes, ConservedInv, NEW c \in CPU, NEW v \in Page, PageFault(c, v)
  PROVE  PageTypes' /\ ConservedInv'
  <1> USE AddressSpaceAssumption
  <1>1. PICK f \in free : pte' = [pte EXCEPT ![v] = f] /\ free' = free \ {f}
    BY DEF PageFault
  <1>2. /\ pte[v] = Lazy
        /\ UNCHANGED <<unmapping, memoryList, unmapSet, mapStart>>
    BY DEF PageFault, listVars, vmVars
  <1>3. f \in Frame
    BY DEF PageTypes
  <1>4. PageTypes'
    BY <1>1, <1>2, <1>3 DEF PageTypes
  <1>5. Listed' = Listed
    BY <1>2 DEF Listed
  <1>7. \A w \in Page : w # v => pte'[w] = pte[w]
    BY <1>1 DEF PageTypes
  <1>8. pte'[v] = f
    BY <1>1 DEF PageTypes
  <1>9. RangesInv'
    <2>1. \A w \in Page : pte'[w] = Absent <=> pte[w] = Absent
      BY <1>2, <1>3, <1>7, <1>8
    <2>2. \A md \in Listed : md.vma \in Page
      BY DescriptorFacts DEF Listed, PageTypes, ToSet
    <2> QED BY <1>2, <1>5, <2>1, <2>2 DEF ConservedInv, RangesInv, PageTypes
  <1>10. FramesInv'
    <2>0. \A w \in Page : pte[w] # f
      BY DEF ConservedInv, FramesInv
    <2>1. \A w, x \in Page : pte'[w] = pte'[x] /\ pte'[w] \in Frame => w = x
      BY <1>7, <1>8, <2>0 DEF ConservedInv, FramesInv
    <2>2. \A w \in Page : pte'[w] \notin free'
      BY <1>1, <1>7, <1>8 DEF ConservedInv, FramesInv
    <2>3. \A md \in Listed' : md.pma \in Frame => md.pma \notin free' /\ \A w \in Page : pte'[w] # md.pma
      BY <1>1, <1>5, <1>7, <1>8 DEF ConservedInv, FramesInv
    <2>4. \A g \in Frame :
            g \in free' \/ (\E w \in Page : pte'[w] = g) \/ (\E md \in Listed' : md.pma = g)
      BY <1>1, <1>2, <1>5, <1>7, <1>8 DEF ConservedInv, FramesInv
    <2> QED BY <2>1, <2>2, <2>3, <2>4 DEF FramesInv
  <1>11. DescriptorsInv'
    BY <1>2, <1>5 DEF ConservedInv, DescriptorsInv
  <1> QED BY <1>4, <1>9, <1>10, <1>11 DEF ConservedInv

LEMMA UnmapClearPages ==
  ASSUME PageTypes, ConservedInv, NEW c \in CPU, NEW v \in Page, UnmapClear(c, v)
  PROVE  PageTypes' /\ ConservedInv'
  <1> USE AddressSpaceAssumption
  <1>1. PICK f \in Frame \cup {Lazy} : f = pte[v] /\ f # Absent
    BY DEF UnmapClear, PageTypes
  <1>2. PICK n \in Descriptor : n = [vma |-> v, pma |-> f] /\ n.vma = v /\ n.pma = f
    <2>1. [vma |-> v, pma |-> f] \in Descriptor
      BY DescriptorFacts
    <2> QED BY <2>1
  <1>3. /\ pte' = [pte EXCEPT ![v] = Absent]
        /\ unmapping' = unmapping \cup {n}
        /\ UNCHANGED <<memoryList, unmapSet, mapStart, free>>
    BY <1>1, <1>2 DEF UnmapClear, listVars, vmVars
  <1>4. PageTypes'
    BY <1>3 DEF PageTypes
  <1>5. Listed' = Listed \cup {n} /\ \A md \in Listed : md.vma \in Page
    BY <1>3, DescriptorFacts DEF Listed, PageTypes, ToSet
  <1>6. \A md \in Listed : md.vma # v /\ (md.pma = f => f \notin Frame)
    BY <1>1 DEF ConservedInv, RangesInv, FramesInv
  <1>7. \A w \in Page : w # v => pte'[w] = pte[w]
    BY <1>3 DEF PageTypes
  <1>8. pte'[v] = Absent
    BY <1>3 DEF PageTypes
  <1>9. RangesInv'
    <2>1. v \notin unmapSet /\ v >= mapStart
      BY <1>1 DEF ConservedInv, RangesInv, PageTypes, Page, mapTop
    <2>2. \A md \in Listed' : pte'[md.vma] = Absent /\ md.vma \notin unmapSet' /\ md.vma >= mapStart'
      BY <1>2, <1>3, <1>5, <1>6, <1>7, <1>8, <2>1 DEF ConservedInv, RangesInv
    <2>3. \A w \in unmapSet' : pte'[w] = Absent /\ w > mapStart'
      BY <1>3, <1>7, <1>8 DEF ConservedInv, RangesInv, PageTypes
    <2>4. \A w \in Page : w < mapStart' => pte'[w] = Absent
      BY <1>3, <1>7, <1>8 DEF ConservedInv, RangesInv
    <2>5. \A w \in Page : w >= mapStart' =>
            pte'[w] # Absent \/ w \in unmapSet' \/ \E md \in Listed' : md.vma = w
      BY <1>2, <1>3, <1>5, <1>7 DEF ConservedInv, RangesInv
    <2> QED BY <2>2, <2>3, <2>4, <2>5 DEF RangesInv
  <1>10. FramesInv'
    <2>1. \A w, x \in Page : pte'[w] = pte'[x] /\ pte'[w] \in Frame => w = x
      BY <1>7, <1>8 DEF ConservedInv, FramesInv
    <2>2. \A w \in Page : pte'[w] \notin free'
      BY <1>3, <1>7, <1>8 DEF ConservedInv, FramesInv, PageTypes
    <2>3. \A md \in Listed' : md.pma \in Frame => md.pma \notin free' /\ \A w \in Page : pte'[w] # md.pma
      BY <1>1, <1>2, <1>3, <1>5, <1>7, <1>8 DEF ConservedInv, FramesInv
    <2>4. \A g \in Frame :
            g \in free' \/ (\E w \in Page : pte'[w] = g) \/ (\E md \in Listed' : md.pma = g)
      BY <1>1, <1>2, <1>3, <1>5, <1>7 DEF ConservedInv, FramesInv
    <2> QED BY <2>1, <2>2, <2>3, <2>4 DEF FramesInv
  <1>11. DescriptorsInv'
    <2>1. n \notin Listed
      BY <1>2, <1>6
    <2>2. IsInjective(memoryList')
      BY <1>3 DEF ConservedInv, DescriptorsInv
    <2>3. ToSet(memoryList') \cap unmapping' = {}
      BY <1>3, <2>1 DEF ConservedInv, DescriptorsInv, Listed
    <2>4. \A md, ne \in Listed' :
            md.vma = ne.vma \/ (md.pma = ne.pma /\ md.pma \in Frame) => md = ne
      BY <1>2, <1>5, <1>6 DEF ConservedInv, DescriptorsInv
    <2> QED BY <2>2, <2>3, <2>4 DEF DescriptorsInv
  <1> QED BY <1>4, <1>9, <1>10, <1>11 DEF ConservedInv

LEMMA UnmapPostPages ==
  ASSUME PageTypes, ConservedInv, NEW c \in CPU, NEW md \in unmapping, UnmapPost(c, md)
  PROVE  PageTypes' /\ ConservedInv'
  <1>1. /\ unmapping' = unmapping \ {md} /\ memoryList' = Append(memoryList, md)
        /\ UNCHANGED <<pte, unmapSet, mapStart, free>>
    BY DEF UnmapPost, vmVars
  <1>2. memoryList \in Seq(Descriptor) /\ md \in Descriptor
    BY DEF PageTypes
  <1>3. md \notin ToSet(memoryList) /\ IsInjective(memoryList)
    BY DEF ConservedInv, DescriptorsInv
  <1>4. /\ memoryList' \in Seq(Descriptor) /\ ToSet(memoryList') = ToSet(memoryList) \cup {md}
        /\ IsInjective(memoryList')
    BY <1>1, <1>2, <1>3, AppendFacts
  <1>5. Listed' = Listed
    BY <1>1, <1>4 DEF Listed
  <1>6. PageTypes'
    BY <1>1, <1>4 DEF PageTypes
  <1>7. DescriptorsInv'
    <2>1. ToSet(memoryList') \cap unmapping' = {}
      BY <1>1, <1>4 DEF ConservedInv, DescriptorsInv
    <2> QED BY <1>4, <1>5, <2>1 DEF ConservedInv, DescriptorsInv
  <1>8. RangesInv' /\ FramesInv'
    BY <1>1, <1>5 DEF ConservedInv, RangesInv, FramesInv
  <1> QED BY <1>6, <1>7, <1>8 DEF ConservedInv

(* putVmRange finds the end of the free pages at mapStart.                 *)
LEMMA AdvanceFacts ==
  ASSUME PageTypes, NEW U \in SUBSET Page
  PROVE  /\ Advance(U) \in mapStart .. mapTop
         /\ mapStart .. Advance(U) - 1 \subseteq U
         /\ Advance(U) \notin U
  <1> USE AddressSpaceAssumption
  <1> DEFINE T == {m \in mapStart .. mapTop : m \notin U}
  <1>1. mapStart \in Nat /\ mapTop \in Nat /\ mapStart <= mapTop /\ mapTop \notin U
    BY DEF PageTypes, mapTop, Page
  <1>2. T \in SUBSET Nat /\ mapTop \in T
    BY <1>1
  <1>3. PICK m \in T : \A y \in T : m <= y
    BY <1>2, LeastNumber
  <1>4. \A x \in mapStart .. m - 1 : x \in U
    BY <1>1, <1>3
  <1>5. \E x \in mapStart .. mapTop : mapStart .. x - 1 \subseteq U /\ x \notin U
    BY <1>1, <1>3, <1>4
  <1> QED BY <1>5 DEF Advance

LEMMA ReleasePages ==
  ASSUME PageTypes, ConservedInv, NEW c \in CPU, ReleaseOne(c), Len(memoryList) > 0
  PROVE  PageTypes' /\ ConservedInv'
  <1> USE AddressSpaceAssumption
  <1>0. /\ memoryList \in Seq(Descriptor) /\ IsInjective(memoryList)
        /\ pte \in [Page -> Frame \cup {Absent, Lazy}] /\ unmapSet \in SUBSET Page
    BY DEF PageTypes, ConservedInv, DescriptorsInv
  <1>1. PICK md \in Descriptor : md = Head(memoryList) /\ md \in ToSet(memoryList)
    BY <1>0, TailFacts
  <1>2. PICK U \in SUBSET Page : U = unmapSet \cup {md.vma}
    <2>1. md.vma \in Page
      BY DescriptorFacts
    <2> QED BY <1>0, <2>1
  <1>3. /\ free' = IF md.pma = Lazy THEN free ELSE free \cup {md.pma}
        /\ mapStart' = Advance(U)
        /\ unmapSet' = {v \in U : v > Advance(U)}
        /\ memoryList' = Tail(memoryList)
        /\ UNCHANGED <<pte, unmapping>>
    BY <1>1, <1>2 DEF ReleaseOne
  <1>4. PICK m \in mapStart .. mapTop : m = Advance(U) /\ mapStart .. m - 1 \subseteq U /\ m \notin U
    BY AdvanceFacts
  <1>5. /\ memoryList' \in Seq(Descriptor) /\ IsInjective(memoryList')
        /\ ToSet(memoryList') = ToSet(memoryList) \ {md}
    BY <1>0, <1>1, <1>3, TailFacts
  <1>6. md \in Listed /\ md \notin unmapping
    BY <1>1 DEF Listed, ConservedInv, DescriptorsInv
  <1>7. Listed' = Listed \ {md}
    BY <1>3, <1>5, <1>6 DEF Listed
  <1>8. \A ne \in Listed : ne \in Descriptor
    BY <1>0 DEF Listed, PageTypes, ToSet
  <1>9. \A ne \in Listed' : ne.vma # md.vma /\ (ne.pma = md.pma => ne.pma \notin Frame)
    BY <1>6, <1>7 DEF ConservedInv, DescriptorsInv
  <1>10. PageTypes'
    <2>1. mapStart' \in 1 .. mapTop
      BY <1>3, <1>4 DEF PageTypes, mapTop
    <2>2. free' \in SUBSET Frame
      BY <1>1, <1>3, DescriptorFacts DEF PageTypes
    <2> QED BY <1>2, <1>3, <1>5, <2>1, <2>2 DEF PageTypes
  <1>11. DescriptorsInv'
    <2>1. ToSet(memoryList') \cap unmapping' = {}
      BY <1>3, <1>5 DEF ConservedInv, DescriptorsInv
    <2> QED BY <1>5, <1>7, <2>1 DEF ConservedInv, DescriptorsInv
  <1>12. RangesInv'
    <2>0. \A v \in U : pte[v] = Absent /\ v >= mapStart /\ v \in Nat
      BY <1>2, <1>6 DEF ConservedInv, RangesInv, PageTypes, Page, mapTop
    <2>n. mapStart \in Nat /\ m \in Nat /\ mapTop \in Nat /\ mapStart <= m
      BY <1>4 DEF PageTypes, mapTop
    <2>1. ASSUME NEW ne \in Listed'
          PROVE  pte'[ne.vma] = Absent /\ ne.vma \notin unmapSet' /\ ne.vma >= mapStart'
      <3>1. ne \in Listed /\ ne.vma # md.vma /\ ne.vma \in Page
        BY <1>7, <1>8, <1>9, <2>1, DescriptorFacts
      <3>2. pte[ne.vma] = Absent /\ ne.vma \notin U /\ ne.vma >= mapStart
        BY <1>2, <3>1 DEF ConservedInv, RangesInv
      <3>3. ne.vma \notin mapStart .. m - 1 /\ ne.vma \in Int
        BY <1>4, <3>1, <3>2 DEF Page
      <3> QED BY <1>3, <1>4, <2>n, <3>2, <3>3
    <2>2. \A v \in unmapSet' : pte'[v] = Absent /\ v > mapStart'
      BY <1>3, <2>0
    <2>3. ASSUME NEW v \in Page, v < mapStart' PROVE pte'[v] = Absent
      <3>1. CASE v < mapStart
        BY <1>3, <3>1 DEF ConservedInv, RangesInv
      <3>2. CASE ~ (v < mapStart)
        <4>1. v \in mapStart .. m - 1
          BY <1>3, <1>4, <2>3, <2>n, <3>2 DEF Page
        <4> QED BY <1>3, <1>4, <2>0, <4>1
      <3> QED BY <3>1, <3>2
    <2>4. ASSUME NEW v \in Page, v >= mapStart', pte'[v] = Absent, v \notin unmapSet'
          PROVE  \E ne \in Listed' : ne.vma = v
      <3>1. v \notin U
        <4>1. v \in Int /\ ~ (v > m) => v = m
          BY <1>3, <1>4, <2>4, <2>n
        <4> QED BY <1>3, <1>4, <2>4, <4>1 DEF Page
      <3>2. v >= mapStart /\ v \notin unmapSet /\ v # md.vma /\ pte[v] = Absent
        BY <1>2, <1>3, <1>4, <2>4, <2>n, <3>1 DEF Page
      <3>3. PICK ne \in Listed : ne.vma = v
        BY <3>2 DEF ConservedInv, RangesInv
      <3> QED BY <1>7, <3>2, <3>3
    <2> QED BY <2>1, <2>2, <2>3, <2>4 DEF RangesInv
  <1>13. FramesInv'
    <2>0. md.pma \in Frame \cup {Lazy}
      BY DescriptorFacts
    <2>1. \A v \in Page : pte'[v] \notin free'
      BY <1>3, <1>6, <2>0 DEF ConservedInv, FramesInv
    <2>2. ASSUME NEW ne \in Listed', ne.pma \in Frame
          PROVE  ne.pma \notin free' /\ \A v \in Page : pte'[v] # ne.pma
      BY <1>3, <1>7, <1>9, <2>2 DEF ConservedInv, FramesInv
    <2>3. ASSUME NEW f \in Frame
          PROVE  f \in free' \/ (\E v \in Page : pte'[v] = f) \/ (\E ne \in Listed' : ne.pma = f)
      <3>1. CASE f = md.pma
        BY <1>3, <3>1
      <3>2. CASE f # md.pma
        BY <1>3, <1>7, <3>2 DEF ConservedInv, FramesInv
      <3> QED BY <3>1, <3>2
    <2>4. \A v, w \in Page : pte'[v] = pte'[w] /\ pte'[v] \in Frame => v = w
      BY <1>3 DEF ConservedInv, FramesInv
    <2> QED BY <2>1, <2>2, <2>3, <2>4 DEF FramesInv
  <1> QED BY <1>10, <1>11, <1>12, <1>13 DEF ConservedInv

-----------------------------------------------------------------------------
(* Markers.                                                                *)
LEMMA TakeMarkerFacts ==
  ASSUME AsInv, NEW c \in CPU, at[c] \in {"in", "departing"}, TakeMarker(c)
  PROVE  /\ markerList' \in Seq(CPU)
         /\ DOMAIN markerList = 1 .. Len(markerList) /\ Len(markerList) \in Nat
         /\ DOMAIN markerList' = 1 .. Len(markerList) - 1 /\ Len(markerList') = Len(markerList) - 1
         /\ \E k \in 1 .. Len(markerList) :
              /\ markerList[k] = c
              /\ \A j \in 1 .. Len(markerList) - 1 :
                   markerList'[j] = IF j < k THEN markerList[j] ELSE markerList[j + 1]
         /\ IsInjective(markerList')
         /\ ToSet(markerList') = ToSet(markerList) \ {c}
  <1>1. markerList \in Seq(CPU) /\ IsInjective(markerList) /\ c \in ToSet(markerList)
    BY DEF AsInv, TypeOK, EpochWindow, MarkersInv
  <1>2. markerList' = RemoveAt(markerList, CHOOSE i \in DOMAIN markerList : markerList[i] = c)
    BY DEF TakeMarker
  <1>3. DOMAIN markerList = 1 .. Len(markerList) /\ Len(markerList) \in Nat
    BY <1>1, LenProperties
  <1>k. PICK k : k = CHOOSE i \in DOMAIN markerList : markerList[i] = c
    OBVIOUS
  <1>e. \E i \in DOMAIN markerList : markerList[i] = c
    BY <1>1 DEF ToSet
  <1>d. k \in DOMAIN markerList /\ markerList[k] = c
    BY <1>k, <1>e
  <1>4. PICK r : r = RemoveAt(markerList, k)
    OBVIOUS
  <1>5. /\ r \in Seq(CPU)
        /\ DOMAIN r = 1 .. Len(markerList) - 1 /\ Len(r) = Len(markerList) - 1
        /\ \A j \in 1 .. Len(markerList) - 1 :
             r[j] = IF j < k THEN markerList[j] ELSE markerList[j + 1]
        /\ IsInjective(r)
        /\ ToSet(r) = ToSet(markerList) \ {markerList[k]}
    BY <1>1, <1>d, <1>4, TakeOut
  <1>6. markerList' = r
    BY <1>2, <1>k, <1>4
  <1> QED BY <1>3, <1>d, <1>5, <1>6

LEMMA TypeStep ==
  ASSUME AsInv, [AsNext]_asVars
  PROVE  CpuTypes'
  <1>0. CpuTypes /\ PageTypes /\ Nobody \notin CPU
    BY Types, AddressSpaceAssumption DEF AsInv
  <1>1. CASE UNCHANGED asVars
    BY <1>0, <1>1 DEF asVars, listVars, CpuTypes
  <1>2. ASSUME NEW c \in CPU,
               Map(c) \/ (\E v \in Page : PageFault(c, v) \/ UnmapClear(c, v)) \/ ReleaseOne(c)
        PROVE  CpuTypes'
    <2>1. UNCHANGED <<at, stay, tlb, unmapEpoch, markerList, enterEpoch, ulock>>
      BY <1>2 DEF Map, PageFault, UnmapClear, ReleaseOne, listVars
    <2> QED BY <1>0, <2>1 DEF CpuTypes
  <1>3. ASSUME NEW c \in CPU, NEW v \in Page, Fill(c, v) PROVE CpuTypes'
    <2>1. UNCHANGED <<at, stay, unmapEpoch, markerList, enterEpoch, ulock>>
      BY <1>3 DEF Fill, listVars
    <2>2. tlb' = [tlb EXCEPT ![c] = tlb[c] \cup {<<v, pte[v]>>}] /\ <<v, pte[v]>> \in Page \X Frame
      BY <1>3 DEF Fill
    <2>3. tlb' \in [CPU -> SUBSET (Page \X Frame)]
      BY <1>0, <2>2 DEF CpuTypes
    <2> QED BY <1>0, <2>1, <2>3 DEF CpuTypes
  <1>4. ASSUME NEW c \in CPU, NEW md \in unmapping, UnmapPost(c, md) PROVE CpuTypes'
    <2>1. UNCHANGED <<at, stay, tlb, markerList, enterEpoch, ulock>>
      BY <1>4 DEF UnmapPost
    <2>2. unmapEpoch' \in 0 .. EpochMod - 1
      <3>1. unmapEpoch' = IF unmapEpoch + 1 = EpochMod THEN 0 ELSE unmapEpoch + 1
        BY <1>0, <1>4, NextEpoch DEF UnmapPost, CpuTypes
      <3> QED BY <1>0, <3>1, AddressSpaceAssumption DEF CpuTypes
    <2> QED BY <1>0, <2>1, <2>2 DEF CpuTypes
  <1>5. ASSUME NEW c \in CPU, Arrive(c) PROVE CpuTypes'
    BY <1>0, <1>5 DEF Arrive, Goto, listVars, CpuTypes
  <1>6. ASSUME NEW c \in CPU, Depart(c) PROVE CpuTypes'
    BY <1>0, <1>6 DEF Depart, Goto, listVars, CpuTypes
  <1>7. ASSUME NEW c \in CPU, Enter(c) \/ Reenter(c) PROVE CpuTypes'
    <2>1. /\ at' = [at EXCEPT ![c] = "in"] /\ UNCHANGED <<stay, tlb, unmapEpoch>>
          /\ ulock' = Nobody
          /\ markerList' = Append(markerList, c)
          /\ enterEpoch' = [enterEpoch EXCEPT ![c] = unmapEpoch]
      BY <1>7 DEF Enter, Reenter, Entered, Goto
    <2>2. markerList' \in Seq(CPU)
      BY <1>0, <2>1, AppendFacts DEF CpuTypes
    <2> QED BY <1>0, <2>1, <2>2 DEF CpuTypes
  <1>8. ASSUME NEW c \in CPU, Leave(c) \/ SwitchSame(c) PROVE CpuTypes'
    <2>1. /\ at[c] \in {"in", "departing"} /\ TakeMarker(c)
          /\ \/ stay' = [stay EXCEPT ![c] = TRUE]
             \/ stay' = [stay EXCEPT ![c] = FALSE]
      BY <1>8 DEF Leave, SwitchSame
    <2>2. at' = [at EXCEPT ![c] = "release"] /\ ulock' = c /\ UNCHANGED <<unmapEpoch, enterEpoch>>
      BY <2>1 DEF TakeMarker, Goto
    <2>3. markerList' \in Seq(CPU)
      BY <2>1, TakeMarkerFacts
    <2>4. tlb' \in [CPU -> SUBSET (Page \X Frame)]
      <3>1. CASE Leave(c)
        BY <1>0, <3>1 DEF Leave, CpuTypes
      <3>2. CASE SwitchSame(c)
        <4>1. PICK P : tlb' = [tlb EXCEPT ![c] = {e \in tlb[c] : e[1] \notin P}]
          BY <3>2 DEF SwitchSame
        <4> QED BY <1>0, <4>1 DEF CpuTypes
      <3> QED BY <1>8, <3>1, <3>2
    <2> QED BY <1>0, <2>1, <2>2, <2>3, <2>4 DEF CpuTypes
  <1>9. ASSUME NEW c \in CPU, Left(c) PROVE CpuTypes'
    BY <1>0, <1>9 DEF Left, Goto, listVars, CpuTypes
  <1> QED
    BY <1>1, <1>2, <1>3, <1>4, <1>5, <1>6, <1>7, <1>8, <1>9 DEF AsNext

LEMMA MarkersStep ==
  ASSUME AsInv, [AsNext]_asVars
  PROVE  MarkersInv'
  <1>0. CpuTypes /\ PageTypes /\ MarkersInv /\ Nobody \notin CPU
    BY Types, AddressSpaceAssumption DEF AsInv
  <1>q. ASSUME UNCHANGED <<at, ulock, markerList>>, toRelease' = toRelease \/ ulock # Nobody
        PROVE  MarkersInv'
    BY <1>0, <1>q DEF MarkersInv
  <1>1. CASE UNCHANGED asVars
    BY <1>q, <1>1 DEF asVars, listVars
  <1>2. ASSUME NEW c \in CPU,
               Map(c) \/ (\E v \in Page : PageFault(c, v) \/ UnmapClear(c, v) \/ Fill(c, v))
        PROVE  MarkersInv'
    BY <1>q, <1>2 DEF Map, PageFault, UnmapClear, Fill, listVars
  <1>3. ASSUME NEW c \in CPU, NEW md \in unmapping, UnmapPost(c, md) PROVE MarkersInv'
    BY <1>q, <1>3 DEF UnmapPost
  <1>4. ASSUME NEW c \in CPU, ReleaseOne(c) PROVE MarkersInv'
    <2>1. at[c] = "release" /\ UNCHANGED <<at, ulock, markerList>>
      BY <1>4 DEF ReleaseOne
    <2>2. ulock # Nobody
      BY <1>0, <2>1 DEF MarkersInv
    <2> QED BY <1>q, <2>1, <2>2
  <1>a. ASSUME NEW c \in CPU, NEW l, Goto(c, l)
        PROVE  at'[c] = l /\ \A d \in CPU : d # c => at'[d] = at[d]
    BY <1>0, <1>a DEF Goto, CpuTypes
  <1>5. ASSUME NEW c \in CPU, Arrive(c) PROVE MarkersInv'
    <2>1. at[c] = "out" /\ Goto(c, "arriving") /\ UNCHANGED <<ulock, markerList, toRelease>>
      BY <1>5 DEF Arrive, listVars
    <2>2. at'[c] = "arriving" /\ \A d \in CPU : d # c => at'[d] = at[d]
      BY <1>a, <2>1
    <2> QED BY <1>0, <2>1, <2>2 DEF MarkersInv
  <1>6. ASSUME NEW c \in CPU, Depart(c) PROVE MarkersInv'
    <2>1. at[c] = "in" /\ Goto(c, "departing") /\ UNCHANGED <<ulock, markerList, toRelease>>
      BY <1>6 DEF Depart, listVars
    <2>2. at'[c] = "departing" /\ \A d \in CPU : d # c => at'[d] = at[d]
      BY <1>a, <2>1
    <2> QED BY <1>0, <2>1, <2>2 DEF MarkersInv
  <1>7. ASSUME NEW c \in CPU, Enter(c) \/ Reenter(c) PROVE MarkersInv'
    <2>1. /\ at[c] \in {"arriving", "release"} /\ Goto(c, "in")
          /\ ulock = Nobody \/ at[c] = "release"
          /\ ulock' = Nobody /\ toRelease' = toRelease
          /\ at[c] = "release" => toRelease = 0
          /\ markerList' = Append(markerList, c)
      BY <1>7 DEF Enter, Reenter, Entered
    <2>2. at'[c] = "in" /\ \A d \in CPU : d # c => at'[d] = at[d]
      BY <1>a, <2>1
    <2>3. ToSet(markerList') = ToSet(markerList) \cup {c}
      BY <1>0, <2>1, AppendFacts DEF CpuTypes
    <2>4. \A d \in CPU : d # c => at[d] # "release"
      BY <1>0, <2>1 DEF MarkersInv
    <2>5. toRelease' = 0
      BY <1>0, <2>1 DEF MarkersInv
    <2> QED BY <1>0, <2>1, <2>2, <2>3, <2>4, <2>5 DEF MarkersInv
  <1>8. ASSUME NEW c \in CPU, Leave(c) \/ SwitchSame(c) PROVE MarkersInv'
    <2>1. at[c] \in {"in", "departing"} /\ TakeMarker(c)
      BY <1>8 DEF Leave, SwitchSame
    <2>2. Goto(c, "release") /\ ulock' = c /\ ulock = Nobody
      BY <2>1 DEF TakeMarker
    <2>3. at'[c] = "release" /\ \A d \in CPU : d # c => at'[d] = at[d]
      BY <1>a, <2>2
    <2>4. ToSet(markerList') = ToSet(markerList) \ {c}
      BY <2>1, TakeMarkerFacts
    <2>5. \A d \in CPU : at[d] # "release"
      BY <1>0, <2>2 DEF MarkersInv
    <2> QED BY <1>0, <2>1, <2>2, <2>3, <2>4, <2>5 DEF MarkersInv
  <1>9. ASSUME NEW c \in CPU, Left(c) PROVE MarkersInv'
    <2>1. at[c] = "release" /\ toRelease = 0 /\ Goto(c, "out") /\ ulock' = Nobody
          /\ UNCHANGED <<markerList, toRelease>>
      BY <1>9 DEF Left, listVars
    <2>2. at'[c] = "out" /\ \A d \in CPU : d # c => at'[d] = at[d]
      BY <1>a, <2>1
    <2>3. \A d \in CPU : d # c => at[d] # "release"
      BY <1>0, <2>1 DEF MarkersInv
    <2> QED BY <1>0, <2>1, <2>2, <2>3 DEF MarkersInv
  <1> QED
    BY <1>1, <1>2, <1>3, <1>4, <1>5, <1>6, <1>7, <1>8, <1>9 DEF AsNext

-----------------------------------------------------------------------------
(* The window of epochs.  No marker is older than the list.                *)
LEMMA MarkerFacts ==
  ASSUME AsInv
  PROVE  /\ markerList \in Seq(CPU) /\ Len(markerList) \in Nat
         /\ DOMAIN markerList = 1 .. Len(markerList)
         /\ markerList # <<>> => Len(markerList) > 0 /\ Head(markerList) = markerList[1]
         /\ markerList = <<>> => Len(markerList) = 0
         /\ \A c \in CPU : Age(c) \in 0 .. EpochMod - 1
         /\ EpochMod \in Nat /\ NPages \in Nat /\ 2 * NPages < EpochMod
         /\ toRelease \in Nat
         /\ Len(memoryList) \in Nat /\ Len(memoryList) <= NPages
  <1>0. CpuTypes /\ PageTypes /\ DescriptorsInv /\ toRelease \in 0 .. NPages
    BY Types DEF AsInv, ConservedInv
  <1>1. markerList \in Seq(CPU)
    BY <1>0 DEF CpuTypes
  <1>2. Len(markerList) \in Nat /\ DOMAIN markerList = 1 .. Len(markerList)
    BY <1>1, LenProperties
  <1>3. markerList # <<>> => Len(markerList) > 0 /\ Head(markerList) = markerList[1]
    BY <1>1, <1>2, HeadTailProperties, EmptySeq
  <1>4. \A c \in CPU : Age(c) \in 0 .. EpochMod - 1
    BY <1>0, AgeType DEF CpuTypes, Age
  <1>5. EpochMod \in Nat /\ NPages \in Nat /\ 2 * NPages < EpochMod
    BY AddressSpaceAssumption
  <1>6. markerList = <<>> => Len(markerList) = 0
    BY <1>1, EmptySeq
  <1> QED BY <1>0, <1>1, <1>2, <1>3, <1>4, <1>5, <1>6, ListBound

LEMMA InWindow ==
  ASSUME AsInv, NEW c \in ToSet(markerList)
  PROVE  /\ c \in CPU /\ markerList # <<>>
         /\ toRelease + Age(c) <= Len(memoryList)
  <1>1. EpochWindow
    BY DEF AsInv
  <1>2. PICK i \in 1 .. Len(markerList) : markerList[i] = c
    BY MarkerFacts DEF ToSet
  <1>3. c \in CPU /\ markerList # <<>> /\ markerList[1] \in CPU
    BY <1>2, MarkerFacts
  <1>4. Age(markerList[1]) >= Age(c)
    <2>1. CASE i = 1
      BY <1>2, <1>3, <2>1, MarkerFacts
    <2>2. CASE i # 1
      <3>1. 1 \in DOMAIN markerList /\ i \in DOMAIN markerList /\ 1 < i
        BY <1>2, <2>2, MarkerFacts
      <3> QED BY <1>1, <1>2, <3>1 DEF EpochWindow
    <2> QED BY <2>1, <2>2
  <1>5. toRelease + Age(markerList[1]) = Len(memoryList)
    BY <1>1, <1>3, MarkerFacts DEF EpochWindow
  <1> QED BY <1>3, <1>4, <1>5, MarkerFacts

LEMMA UnmapPostWindow ==
  ASSUME AsInv, NEW c \in CPU, NEW md \in unmapping, UnmapPost(c, md)
  PROVE  /\ EpochWindow' /\ toRelease' \in 0 .. NPages
         /\ \A d \in ToSet(markerList) : Age(d)' = Age(d) + 1
         /\ Len(memoryList') = Len(memoryList) + 1
  <1>0. CpuTypes /\ PageTypes /\ ConservedInv /\ MarkersInv /\ EpochWindow
    BY Types DEF AsInv
  <1>1. /\ at[c] = "in" /\ ulock = Nobody /\ memoryList' = Append(memoryList, md)
        /\ unmapEpoch' = (unmapEpoch + 1) % EpochMod
        /\ UNCHANGED <<markerList, enterEpoch, toRelease>>
    BY DEF UnmapPost
  <1>2. toRelease = 0 /\ c \in ToSet(markerList)
    BY <1>0, <1>1 DEF MarkersInv
  <1>3. Len(memoryList') = Len(memoryList) + 1
    BY <1>0, <1>1, AppendFacts DEF PageTypes
  <1>4. Len(memoryList') <= NPages
    <2>1. PageTypes' /\ DescriptorsInv'
      BY <1>0, UnmapPostPages DEF ConservedInv
    <2>2. /\ memoryList' \in Seq(Descriptor) /\ IsInjective(memoryList')
          /\ \A x, y \in ToSet(memoryList') : x.vma = y.vma => x = y
      BY <2>1 DEF PageTypes, DescriptorsInv, Listed
    <2> QED BY <2>2, ShortList
  <1>5. ASSUME NEW d \in ToSet(markerList) PROVE Age(d)' = Age(d) + 1
    <2>1. d \in CPU /\ Age(d) <= Len(memoryList)
      BY <1>2, InWindow, MarkerFacts
    <2>2. Age(d) + 1 < EpochMod
      BY <1>3, <1>4, <2>1, MarkerFacts
    <2>3. unmapEpoch \in 0 .. EpochMod - 1 /\ enterEpoch[d] \in 0 .. EpochMod - 1
      BY <1>0, <2>1 DEF CpuTypes
    <2>4. Since((unmapEpoch + 1) % EpochMod, enterEpoch[d]) = Since(unmapEpoch, enterEpoch[d]) + 1
      BY <2>2, <2>3, Ageing DEF Age
    <2> QED BY <1>1, <2>4 DEF Age
  <1>6. \A i \in 1 .. Len(markerList) : markerList[i] \in ToSet(markerList) /\ markerList[i] \in CPU
    <2>1. markerList \in Seq(CPU) /\ DOMAIN markerList = 1 .. Len(markerList)
      BY MarkerFacts
    <2>2. \A i \in 1 .. Len(markerList) : markerList[i] \in CPU
      BY <2>1
    <2> QED BY <2>1, <2>2 DEF ToSet
  <1>7. markerList # <<>>
    BY <1>2, InWindow
  <1>8. \A i, j \in DOMAIN markerList' : i < j => Age(markerList[i])' >= Age(markerList[j])'
    <2> SUFFICES ASSUME NEW i \in 1 .. Len(markerList), NEW j \in 1 .. Len(markerList), i < j
                 PROVE  Age(markerList[i])' >= Age(markerList[j])'
      BY <1>1, MarkerFacts
    <2>1. Age(markerList[i]) >= Age(markerList[j])
      BY <1>0, MarkerFacts DEF EpochWindow
    <2>2. PICK x \in ToSet(markerList), y \in ToSet(markerList) :
            x = markerList[i] /\ y = markerList[j] /\ x \in CPU /\ y \in CPU
      BY <1>6
    <2>3. Age(x)' >= Age(y)'
      <3>1. Age(x)' = Age(x) + 1 /\ Age(y)' = Age(y) + 1
        BY <1>5
      <3>2. Age(x) \in 0 .. EpochMod - 1 /\ Age(y) \in 0 .. EpochMod - 1 /\ EpochMod \in Nat
        BY <2>2, MarkerFacts
      <3>3. Age(x) >= Age(y)
        BY <2>1, <2>2
      <3> QED BY <3>1, <3>2, <3>3
    <2>4. Age(markerList[i])' = Age(x)' /\ Age(markerList[j])' = Age(y)'
      BY <1>1, <2>2 DEF Age
    <2> QED BY <2>3, <2>4
  <1>9. toRelease' + Age(Head(markerList))' = Len(memoryList')
    <2>1. PICK h \in ToSet(markerList) : h = Head(markerList) /\ h \in CPU
      BY <1>6, <1>7, MarkerFacts
    <2>2. toRelease + Age(h) = Len(memoryList)
      BY <1>0, <1>7, <2>1 DEF EpochWindow
    <2>3. Age(Head(markerList))' = Age(h)'
      BY <1>1, <2>1 DEF Age
    <2>4. Age(h)' = Age(h) + 1
      BY <1>5
    <2> QED BY <1>1, <1>2, <1>3, <2>1, <2>2, <2>3, <2>4, MarkerFacts
  <1>10. IsInjective(markerList')
    BY <1>0, <1>1 DEF EpochWindow
  <1>11. EpochWindow'
    BY <1>1, <1>2, <1>3, <1>7, <1>8, <1>9, <1>10, MarkerFacts DEF EpochWindow
  <1> QED BY <1>1, <1>2, <1>3, <1>5, <1>11, MarkerFacts

LEMMA QuietWindow ==
  ASSUME EpochWindow, UNCHANGED <<listVars, toRelease>>
  PROVE  EpochWindow'
  BY DEF EpochWindow, Age, listVars

LEMMA TakeMarkerWindow ==
  ASSUME AsInv, NEW c \in CPU, at[c] \in {"in", "departing"}, TakeMarker(c)
  PROVE  /\ EpochWindow' /\ toRelease' \in 0 .. NPages
         /\ \A d \in CPU : Age(d)' = Age(d)
  <1>0. CpuTypes /\ MarkersInv /\ EpochWindow
    BY Types DEF AsInv
  <1>1. /\ ulock = Nobody /\ UNCHANGED <<memoryList, unmapEpoch, enterEpoch>>
        /\ toRelease' = IF Oldest(c)
                          THEN Since(IF markerList' = <<>> THEN unmapEpoch
                                     ELSE enterEpoch[Head(markerList')], enterEpoch[c])
                          ELSE 0
    BY DEF TakeMarker
  <1>2. toRelease = 0 /\ c \in ToSet(markerList)
    BY <1>0, <1>1 DEF MarkersInv
  <1>3. \A d \in CPU : Age(d)' = Age(d)
    BY <1>1 DEF Age
  <1>4. markerList # <<>>
    BY <1>2, InWindow
  <1>5. PICK r : r = markerList'
    OBVIOUS
  <1>6. PICK n \in Nat : n = Len(markerList) /\ n > 0 /\ DOMAIN markerList = 1 .. n
    BY <1>4, MarkerFacts
  <1>7. /\ r \in Seq(CPU) /\ DOMAIN r = 1 .. n - 1 /\ Len(r) = n - 1 /\ IsInjective(r)
    BY <1>5, <1>6, TakeMarkerFacts
  <1>8. PICK k \in 1 .. n :
          /\ markerList[k] = c
          /\ \A j \in 1 .. n - 1 : r[j] = IF j < k THEN markerList[j] ELSE markerList[j + 1]
    BY <1>5, <1>6, TakeMarkerFacts
  <1>9. \A i \in 1 .. n : markerList[i] \in CPU /\ Age(markerList[i]) \in Nat
    BY <1>6, MarkerFacts
  <1>10. ASSUME NEW i \in 1 .. n - 1, NEW j \in 1 .. n - 1, i < j
         PROVE  Age(r[i]) >= Age(r[j])
    <2>1. PICK x \in 1 .. n : r[i] = markerList[x] /\ x = IF i < k THEN i ELSE i + 1
      BY <1>8
    <2>2. PICK y \in 1 .. n : r[j] = markerList[y] /\ y = IF j < k THEN j ELSE j + 1
      BY <1>8
    <2>3. x < y
      BY <1>10, <2>1, <2>2
    <2>4. Age(markerList[x]) >= Age(markerList[y])
      BY <1>0, <1>6, <2>3 DEF EpochWindow
    <2> QED BY <2>1, <2>2, <2>4
  <1>11. \A i \in 1 .. n - 1 : r[i] \in CPU
    BY <1>7
  <1>12. \A i, j \in DOMAIN markerList' : i < j => Age(markerList[i])' >= Age(markerList[j])'
    <2> SUFFICES ASSUME NEW i \in 1 .. n - 1, NEW j \in 1 .. n - 1, i < j
                 PROVE  Age(markerList[i])' >= Age(markerList[j])'
      BY <1>5, <1>7
    <2>1. PICK x \in CPU, y \in CPU : x = r[i] /\ y = r[j]
      BY <1>11
    <2>2. Age(x)' >= Age(y)'
      BY <1>3, <1>10, <2>1
    <2>3. Age(markerList[i])' = Age(x)' /\ Age(markerList[j])' = Age(y)'
      BY <1>5, <2>1 DEF Age
    <2> QED BY <2>2, <2>3
  <1>13. Age(Head(markerList)) = Len(memoryList)
    BY <1>0, <1>2, <1>4, <1>6, <1>9, MarkerFacts DEF EpochWindow
  <1>14. Head(markerList) = markerList[1]
    BY <1>4, MarkerFacts
  <1>15. ASSUME n > 1
         PROVE  /\ r # <<>> /\ r[1] \in CPU /\ Head(r) = r[1]
                /\ Age(Head(markerList))' = Age(r[1])
    <2>1. r # <<>> /\ r[1] \in CPU /\ Head(r) = r[1]
      BY <1>7, <1>11, <1>15, HeadTailProperties, EmptySeq
    <2>2. PICK h \in CPU : h = r[1]
      BY <2>1
    <2>3. Age(Head(markerList))' = Age(h)'
      BY <1>5, <2>1, <2>2 DEF Age
    <2> QED BY <1>3, <2>1, <2>2, <2>3
  <1>16. n = 1 => r = <<>>
    BY <1>7, EmptySeq
  <1>17. /\ toRelease' \in Nat
         /\ toRelease' + (IF n = 1 THEN 0 ELSE Age(r[1])) = Len(memoryList)
    <2>1. CASE k = 1
      <3>1. Oldest(c) /\ Age(c) = Len(memoryList) /\ Len(memoryList) \in Nat
        BY <1>8, <1>13, <1>14, <2>1, MarkerFacts DEF Oldest
      <3>2. CASE n = 1
        <4>1. toRelease' = Age(c)
          BY <1>1, <1>5, <1>16, <3>1, <3>2 DEF Age
        <4> QED BY <3>1, <3>2, <4>1
      <3>3. CASE n # 1
        <4>1. n > 1
          BY <3>3
        <4>2. PICK h \in CPU : h = r[1] /\ Head(r) = h /\ r # <<>>
          BY <1>15, <4>1
        <4>3. toRelease' = Since(enterEpoch[h], enterEpoch[c])
          BY <1>1, <1>5, <3>1, <4>2
        <4>4. 1 \in 1 .. n - 1 /\ 1 \in 1 .. n /\ 2 \in 1 .. n /\ r[1] = markerList[2]
          <5>1. 1 \in 1 .. n - 1 /\ 1 \in 1 .. n /\ 2 \in 1 .. n /\ ~ (1 < k) /\ 1 + 1 = 2
            BY <2>1, <4>1
          <5> QED BY <1>8, <5>1
        <4>5. Age(c) >= Age(h)
          BY <1>0, <1>6, <1>8, <2>1, <4>2, <4>4 DEF EpochWindow
        <4>6. /\ unmapEpoch \in 0 .. EpochMod - 1 /\ enterEpoch[c] \in 0 .. EpochMod - 1
              /\ enterEpoch[h] \in 0 .. EpochMod - 1
          BY <1>0 DEF CpuTypes
        <4>7. Age(c) \in Nat /\ Age(h) \in Nat
          BY MarkerFacts
        <4>8. Since(unmapEpoch, enterEpoch[h]) <= Since(unmapEpoch, enterEpoch[c])
          BY <4>5, <4>7 DEF Age
        <4>9. toRelease' = Age(c) - Age(h)
          BY <4>3, <4>6, <4>8, AgeDifference DEF Age
        <4> QED BY <3>1, <3>3, <4>2, <4>5, <4>7, <4>9
      <3> QED BY <3>2, <3>3
    <2>2. CASE k # 1
      <3>1. n > 1 /\ 1 \in 1 .. n - 1 /\ 1 \in 1 .. n /\ 1 < k
        BY <2>2
      <3>2. r[1] = markerList[1] /\ markerList[1] # c
        <4>1. r[1] = markerList[1]
          BY <1>8, <3>1
        <4>2. IsInjective(markerList)
          BY <1>0 DEF EpochWindow
        <4>3. markerList[1] # markerList[k]
          BY <1>6, <2>2, <3>1, <4>2 DEF IsInjective
        <4> QED BY <1>8, <4>1, <4>3
      <3>3. toRelease' = 0
        BY <1>1, <1>14, <3>2 DEF Oldest
      <3> QED BY <1>13, <1>14, <3>1, <3>2, <3>3, MarkerFacts
    <2> QED BY <2>1, <2>2
  <1>18. toRelease' + (IF markerList' = <<>> THEN 0 ELSE Age(Head(markerList))') = Len(memoryList')
    <2>1. CASE n = 1
      BY <1>1, <1>5, <1>16, <1>17, <2>1
    <2>2. CASE n # 1
      <3>1. n > 1
        BY <2>2
      <3> QED BY <1>1, <1>5, <1>15, <1>17, <2>2, <3>1
    <2> QED BY <2>1, <2>2
  <1>19. toRelease' <= Len(memoryList') /\ toRelease' \in 0 .. NPages
    <2>1. n # 1 => 1 \in 1 .. n - 1
      OBVIOUS
    <2>2. n # 1 => Age(r[1]) \in Nat
      BY <1>11, <2>1, MarkerFacts
    <2> QED BY <1>1, <1>17, <2>2, MarkerFacts
  <1>20. IsInjective(markerList')
    BY <1>5, <1>7
  <1>21. EpochWindow'
    BY <1>12, <1>18, <1>19, <1>20 DEF EpochWindow
  <1> QED BY <1>3, <1>19, <1>21

LEMMA ReleaseWindow ==
  ASSUME AsInv, NEW c \in CPU, ReleaseOne(c)
  PROVE  /\ EpochWindow' /\ toRelease' \in 0 .. NPages
         /\ Len(memoryList) > 0
         /\ \A d \in CPU : Age(d)' = Age(d)
  <1>0. PageTypes /\ EpochWindow
    BY Types DEF AsInv
  <1>1. /\ toRelease > 0 /\ toRelease' = toRelease - 1 /\ memoryList' = Tail(memoryList)
        /\ UNCHANGED <<unmapEpoch, enterEpoch, markerList>>
    BY DEF ReleaseOne
  <1>2. Len(memoryList) > 0
    BY <1>0, <1>1, MarkerFacts DEF EpochWindow
  <1>3. Len(memoryList') = Len(memoryList) - 1
    BY <1>0, <1>1, <1>2, TailFacts DEF PageTypes
  <1>4. \A d \in CPU : Age(d)' = Age(d)
    BY <1>1 DEF Age
  <1>5. PICK a \in Int : a = IF markerList = <<>> THEN 0 ELSE Age(Head(markerList))
    BY MarkerFacts
  <1>6. a = IF markerList' = <<>> THEN 0 ELSE Age(Head(markerList))'
    BY <1>1, <1>5 DEF Age
  <1>7. toRelease' + a = Len(memoryList') /\ toRelease' <= Len(memoryList')
    <2>1. toRelease + a = Len(memoryList) /\ toRelease <= Len(memoryList)
      BY <1>0, <1>5 DEF EpochWindow
    <2>2. toRelease \in Nat /\ Len(memoryList) \in Nat
      BY MarkerFacts
    <2> QED BY <1>1, <1>3, <2>1, <2>2
  <1>8. /\ IsInjective(markerList')
        /\ \A i, j \in DOMAIN markerList' : i < j => Age(markerList[i])' >= Age(markerList[j])'
    BY <1>0, <1>1 DEF EpochWindow, Age
  <1>9. EpochWindow'
    BY <1>6, <1>7, <1>8 DEF EpochWindow
  <1>10. toRelease' \in 0 .. NPages
    <2>1. toRelease \in Nat /\ Len(memoryList) \in Nat /\ Len(memoryList) <= NPages /\ NPages \in Nat
      BY MarkerFacts
    <2> QED BY <1>1, <1>3, <1>7, <2>1
  <1> QED BY <1>2, <1>4, <1>9, <1>10

LEMMA EnteredWindow ==
  ASSUME AsInv, NEW c \in CPU, Entered(c), UNCHANGED <<memoryList, unmapEpoch, toRelease>>,
         toRelease = 0, c \notin ToSet(markerList)
  PROVE  /\ EpochWindow' /\ toRelease' \in 0 .. NPages
         /\ \A d \in CPU : d # c => Age(d)' = Age(d)
  <1>0. CpuTypes /\ EpochWindow
    BY Types DEF AsInv
  <1>1. /\ markerList' = Append(markerList, c)
        /\ enterEpoch' = [enterEpoch EXCEPT ![c] = unmapEpoch]
    BY DEF Entered
  <1>2. enterEpoch'[c] = unmapEpoch /\ \A d \in CPU : d # c => enterEpoch'[d] = enterEpoch[d]
    BY <1>0, <1>1 DEF CpuTypes
  <1>3. \A d \in CPU : d # c => Age(d)' = Age(d)
    BY <1>2 DEF Age
  <1>4. Age(c)' = 0
    BY <1>0, <1>2, NoAge DEF Age, CpuTypes
  <1>5. PICK r : r = markerList'
    OBVIOUS
  <1>6. PICK n \in Nat : n = Len(markerList) /\ DOMAIN markerList = 1 .. n
    BY MarkerFacts
  <1>7. /\ r \in Seq(CPU) /\ DOMAIN r = 1 .. n + 1 /\ Len(r) = n + 1
        /\ \A i \in 1 .. n : r[i] = markerList[i]
        /\ r[n + 1] = c
        /\ IsInjective(r)
    <2>1. IsInjective(markerList) /\ markerList \in Seq(CPU)
      BY <1>0 DEF CpuTypes, EpochWindow
    <2> QED BY <1>1, <1>5, <1>6, <2>1, AppendFacts
  <1>8. \A i \in 1 .. n : markerList[i] \in CPU /\ markerList[i] # c /\ Age(markerList[i]) \in Nat
    <2>1. \A i \in 1 .. n : markerList[i] \in CPU /\ markerList[i] \in ToSet(markerList)
      <3>1. markerList \in Seq(CPU)
        BY MarkerFacts
      <3>2. \A i \in 1 .. n : markerList[i] \in CPU
        BY <1>6, <3>1
      <3> QED BY <1>6, <3>2 DEF ToSet
    <2> QED BY <2>1, MarkerFacts
  <1>9. ASSUME NEW i \in 1 .. n + 1, NEW j \in 1 .. n + 1, i < j
        PROVE  Age(markerList[i])' >= Age(markerList[j])'
    <2>1. i \in 1 .. n
      BY <1>9
    <2>2. PICK x \in CPU : x = markerList[i] /\ x # c /\ Age(x) \in Nat
      BY <1>8, <2>1
    <2>3. Age(markerList[i])' = Age(x)' /\ Age(x)' = Age(x)
      <3>1. r[i] = x
        BY <1>7, <2>1, <2>2
      <3> QED BY <1>3, <1>5, <2>2, <3>1 DEF Age
    <2>4. CASE j \in 1 .. n
      <3>1. PICK y \in CPU : y = markerList[j] /\ y # c
        BY <1>8, <2>4
      <3>2. Age(markerList[j])' = Age(y)' /\ Age(y)' = Age(y)
        <4>1. r[j] = y
          BY <1>7, <2>4, <3>1
        <4> QED BY <1>3, <1>5, <3>1, <4>1 DEF Age
      <3>3. Age(x) >= Age(y)
        BY <1>0, <1>6, <1>9, <2>1, <2>2, <2>4, <3>1 DEF EpochWindow
      <3> QED BY <2>3, <3>2, <3>3
    <2>5. CASE j = n + 1
      <3>1. Age(markerList[j])' = Age(c)'
        BY <1>5, <1>7, <2>5 DEF Age
      <3> QED BY <1>4, <2>2, <2>3, <3>1
    <2> QED BY <2>4, <2>5
  <1>10. r # <<>> /\ Head(r) = r[1]
    BY <1>7, HeadTailProperties, EmptySeq
  <1>11. Age(Head(markerList))' = Len(memoryList')
    <2>1. CASE n = 0
      <3>1. markerList = <<>>
        BY <1>6, <2>1, MarkerFacts
      <3>2. Len(memoryList) = 0
        BY <1>0, <3>1, MarkerFacts DEF EpochWindow
      <3>3. Head(r) = c
        BY <1>7, <1>10, <2>1
      <3>4. Age(Head(markerList))' = Age(c)'
        BY <1>5, <3>3 DEF Age
      <3> QED BY <1>4, <3>2, <3>4
    <2>2. CASE n # 0
      <3>1. markerList # <<>> /\ 1 \in 1 .. n
        BY <1>6, <2>2, MarkerFacts
      <3>2. PICK h \in CPU : h = markerList[1] /\ h # c /\ Age(h) \in Nat
        BY <1>8, <3>1
      <3>3. Age(h) = Len(memoryList)
        BY <1>0, <3>1, <3>2, MarkerFacts DEF EpochWindow
      <3>4. Head(r) = h
        BY <1>7, <1>10, <3>1, <3>2
      <3>5. Age(Head(markerList))' = Age(h)'
        BY <1>5, <3>4 DEF Age
      <3> QED BY <1>3, <3>2, <3>3, <3>5
    <2> QED BY <2>1, <2>2
  <1>12. \A i, j \in DOMAIN markerList' : i < j => Age(markerList[i])' >= Age(markerList[j])'
    BY <1>5, <1>7, <1>9
  <1>13. EpochWindow'
    BY <1>5, <1>7, <1>10, <1>11, <1>12, MarkerFacts DEF EpochWindow
  <1> QED BY <1>3, <1>13, MarkerFacts

LEMMA WindowStep ==
  ASSUME AsInv, [AsNext]_asVars
  PROVE  EpochWindow' /\ toRelease' \in 0 .. NPages
  <1>0. MarkersInv /\ EpochWindow /\ toRelease \in 0 .. NPages
    BY Types DEF AsInv
  <1>1. CASE UNCHANGED <<listVars, toRelease>>
    BY <1>0, <1>1, QuietWindow
  <1>2. ASSUME NEW c \in CPU, NEW md \in unmapping, UnmapPost(c, md)
        PROVE  EpochWindow' /\ toRelease' \in 0 .. NPages
    BY <1>2, UnmapPostWindow
  <1>3. ASSUME NEW c \in CPU, Leave(c) \/ SwitchSame(c)
        PROVE  EpochWindow' /\ toRelease' \in 0 .. NPages
    BY <1>3, TakeMarkerWindow DEF Leave, SwitchSame
  <1>4. ASSUME NEW c \in CPU, ReleaseOne(c)
        PROVE  EpochWindow' /\ toRelease' \in 0 .. NPages
    BY <1>4, ReleaseWindow
  <1>5. ASSUME NEW c \in CPU, Enter(c) \/ Reenter(c)
        PROVE  EpochWindow' /\ toRelease' \in 0 .. NPages
    <2>1. /\ Entered(c) /\ UNCHANGED <<memoryList, unmapEpoch, toRelease>>
          /\ at[c] \in {"arriving", "release"}
          /\ ulock = Nobody \/ toRelease = 0
      BY <1>5 DEF Enter, Reenter
    <2>2. toRelease = 0 /\ c \notin ToSet(markerList)
      BY <1>0, <2>1 DEF MarkersInv
    <2> QED BY <2>1, <2>2, EnteredWindow
  <1>6. ASSUME NEW c \in CPU,
               \/ Map(c) \/ Arrive(c) \/ Depart(c) \/ Left(c)
               \/ \E v \in Page : PageFault(c, v) \/ UnmapClear(c, v) \/ Fill(c, v)
        PROVE  UNCHANGED <<listVars, toRelease>>
    BY <1>6 DEF Map, Arrive, Depart, Left, PageFault, UnmapClear, Fill
  <1> QED
    BY <1>1, <1>2, <1>3, <1>4, <1>5, <1>6 DEF AsNext, asVars

LEMMA PagesStep ==
  ASSUME AsInv, [AsNext]_asVars
  PROVE  PageTypes' /\ ConservedInv'
  <1>0. PageTypes /\ ConservedInv
    BY Types DEF AsInv
  <1>1. CASE UNCHANGED <<pte, unmapping, memoryList, vmVars, free>>
    BY <1>0, <1>1, QuietPages
  <1>2. ASSUME NEW c \in CPU, NEW md \in unmapping, UnmapPost(c, md)
        PROVE  PageTypes' /\ ConservedInv'
    BY <1>0, <1>2, UnmapPostPages
  <1>3. ASSUME NEW c \in CPU, Map(c) PROVE PageTypes' /\ ConservedInv'
    BY <1>0, <1>3, MapPages
  <1>4. ASSUME NEW c \in CPU, ReleaseOne(c) PROVE PageTypes' /\ ConservedInv'
    BY <1>0, <1>4, ReleaseWindow, ReleasePages
  <1>5. ASSUME NEW c \in CPU, NEW v \in Page, PageFault(c, v) PROVE PageTypes' /\ ConservedInv'
    BY <1>0, <1>5, PageFaultPages
  <1>6. ASSUME NEW c \in CPU, NEW v \in Page, UnmapClear(c, v) PROVE PageTypes' /\ ConservedInv'
    BY <1>0, <1>6, UnmapClearPages
  <1>7. ASSUME NEW c \in CPU,
               \/ Arrive(c) \/ Depart(c) \/ Left(c) \/ Enter(c) \/ Reenter(c)
               \/ Leave(c) \/ SwitchSame(c)
               \/ \E v \in Page : Fill(c, v)
        PROVE  UNCHANGED <<pte, unmapping, memoryList, vmVars, free>>
    BY <1>7 DEF Arrive, Depart, Left, Enter, Reenter, Leave, SwitchSame, TakeMarker, Fill, listVars
  <1> QED
    BY <1>1, <1>2, <1>3, <1>4, <1>5, <1>6, <1>7 DEF AsNext, asVars, listVars

-----------------------------------------------------------------------------
(* Translations, CPU by CPU.                                               *)
TlbOf(c) ==
  /\ tlb[c] = {} \/ at[c] = "in" \/ (at[c] = "release" /\ stay[c])
  /\ \A e \in tlb[c] :
       pte[e[1]] = e[2] \/ Cached(e) \in unmapping \/ (at[c] = "in" /\ Within(c, Cached(e)))

(* A CPU whose window of the list stays as it is keeps its translations.   *)
LEMMA TlbFrame ==
  ASSUME TlbInv, CpuTypes, NEW c \in CPU,
         tlb'[c] = {} \/ (tlb'[c] = tlb[c] /\ at'[c] = at[c] /\ (stay'[c] <=> stay[c])),
         Age(c)' = Age(c), memoryList' = memoryList,
         \A v \in Page : pte[v] \in Frame => pte'[v] = pte[v],
         unmapping \subseteq unmapping'
  PROVE  TlbOf(c)'
  <1>1. CASE tlb'[c] = {}
    BY <1>1 DEF TlbOf
  <1>2. CASE tlb'[c] = tlb[c] /\ at'[c] = at[c] /\ (stay'[c] <=> stay[c])
    <2>1. tlb'[c] = {} \/ at'[c] = "in" \/ (at'[c] = "release" /\ stay'[c])
      BY <1>2 DEF TlbInv
    <2>2. ASSUME NEW e \in tlb'[c]
          PROVE  \/ pte'[e[1]] = e[2] \/ Cached(e) \in unmapping'
                 \/ at'[c] = "in" /\ Within(c, Cached(e))'
      <3>1. e[1] \in Page /\ e[2] \in Frame /\ e \in tlb[c]
        BY <1>2, <2>2 DEF CpuTypes
      <3>2. \/ pte[e[1]] = e[2] \/ Cached(e) \in unmapping
            \/ at[c] = "in" /\ Within(c, Cached(e))
        BY <3>1 DEF TlbInv
      <3>3. Within(c, Cached(e)) => Within(c, Cached(e))'
        <4>1. PICK md : md = Cached(e)
          OBVIOUS
        <4>2. Within(c, md) => Within(c, md)'
          BY DEF Within
        <4>3. Cached(e)' = md
          BY <4>1 DEF Cached
        <4> QED BY <4>1, <4>2, <4>3 DEF Within
      <3> QED BY <1>2, <3>1, <3>2, <3>3
    <2>3. \A e \in tlb'[c] :
             pte'[e[1]] = e[2] \/ Cached(e)' \in unmapping' \/ (at'[c] = "in" /\ Within(c, Cached(e))')
      BY <2>2 DEF Cached
    <2> QED BY <2>1, <2>3 DEF TlbOf, Cached
  <1> QED BY <1>1, <1>2

LEMMA UnmapClearTlb ==
  ASSUME AsInv, NEW c \in CPU, NEW v \in Page, UnmapClear(c, v), NEW d \in CPU
  PROVE  TlbOf(d)'
  <1>0. TlbInv /\ CpuTypes /\ PageTypes
    BY Types DEF AsInv
  <1>1. /\ UNCHANGED <<at, stay, tlb, unmapEpoch, enterEpoch, memoryList>>
        /\ unmapping' = unmapping \cup {[vma |-> v, pma |-> pte[v]]}
        /\ \A w \in Page : w # v => pte'[w] = pte[w]
    BY <1>0 DEF UnmapClear, listVars, PageTypes
  <1>2. tlb'[d] = {} \/ at'[d] = "in" \/ (at'[d] = "release" /\ stay'[d])
    BY <1>0, <1>1 DEF TlbInv
  <1>3. ASSUME NEW e \in tlb'[d]
        PROVE  \/ pte'[e[1]] = e[2] \/ Cached(e)' \in unmapping'
               \/ at'[d] = "in" /\ Within(d, Cached(e))'
    <2>1. e[1] \in Page /\ e[2] \in Frame /\ e \in tlb[d]
      BY <1>0, <1>1, <1>3 DEF CpuTypes
    <2>2. \/ pte[e[1]] = e[2] \/ Cached(e) \in unmapping
          \/ at[d] = "in" /\ Within(d, Cached(e))
      BY <1>0, <2>1 DEF TlbInv
    <2>3. CASE pte[e[1]] = e[2]
      <3>1. CASE e[1] = v
        BY <1>1, <2>3, <3>1 DEF Cached
      <3>2. CASE e[1] # v
        BY <1>1, <2>1, <2>3, <3>2
      <3> QED BY <3>1, <3>2
    <2>4. CASE Cached(e) \in unmapping
      BY <1>1, <2>4 DEF Cached
    <2>5. CASE at[d] = "in" /\ Within(d, Cached(e))
      BY <1>1, <2>5 DEF Within, Age, Cached
    <2> QED BY <2>2, <2>3, <2>4, <2>5
  <1> QED BY <1>2, <1>3 DEF TlbOf

LEMMA UnmapPostTlb ==
  ASSUME AsInv, NEW c \in CPU, NEW md \in unmapping, UnmapPost(c, md), NEW d \in CPU
  PROVE  TlbOf(d)'
  <1>0. TlbInv /\ CpuTypes /\ PageTypes /\ MarkersInv /\ Nobody \notin CPU
    BY Types, AddressSpaceAssumption DEF AsInv
  <1>1. /\ ulock = Nobody /\ UNCHANGED <<at, stay, tlb, pte>>
        /\ unmapping' = unmapping \ {md} /\ memoryList' = Append(memoryList, md)
    BY DEF UnmapPost
  <1>2. tlb'[d] = {} \/ at'[d] = "in" \/ (at'[d] = "release" /\ stay'[d])
    BY <1>0, <1>1 DEF TlbInv
  <1>3. PICK n \in Nat : n = Len(memoryList) /\ DOMAIN memoryList = 1 .. n
    BY <1>0, AppendFacts DEF PageTypes
  <1>4. /\ DOMAIN memoryList' = 1 .. n + 1 /\ Len(memoryList') = n + 1
        /\ \A i \in 1 .. n : memoryList'[i] = memoryList[i]
        /\ memoryList'[n + 1] = md
    BY <1>0, <1>1, <1>3, AppendFacts DEF PageTypes
  <1>5. ASSUME NEW e \in tlb'[d]
        PROVE  \/ pte'[e[1]] = e[2] \/ Cached(e)' \in unmapping'
               \/ at'[d] = "in" /\ Within(d, Cached(e))'
    <2>1. e \in tlb[d] /\ at[d] = "in" /\ d \in ToSet(markerList)
      BY <1>0, <1>1, <1>5 DEF TlbInv, MarkersInv
    <2>2. \/ pte[e[1]] = e[2] \/ Cached(e) \in unmapping
          \/ Within(d, Cached(e))
      BY <1>0, <2>1 DEF TlbInv
    <2>3. PICK ne : ne = Cached(e) /\ ne = Cached(e)'
      BY DEF Cached
    <2>4. PICK a \in Nat : a = Age(d) /\ Age(d)' = a + 1
      BY <2>1, UnmapPostWindow, MarkerFacts
    <2>5. CASE ne = md
      <3>1. n + 1 \in 1 .. n + 1 /\ n + 1 > (n + 1) - (a + 1)
        OBVIOUS
      <3>2. Within(d, Cached(e))'
        BY <1>4, <2>3, <2>4, <2>5, <3>1 DEF Within
      <3> QED BY <1>1, <2>1, <3>2
    <2>6. CASE Within(d, ne)
      <3>1. PICK i \in 1 .. n : i > n - a /\ memoryList[i] = ne
        BY <1>3, <2>4, <2>6 DEF Within
      <3>2. i \in 1 .. n + 1 /\ i > (n + 1) - (a + 1) /\ memoryList'[i] = ne
        BY <1>4, <3>1
      <3>3. Within(d, Cached(e))'
        BY <1>4, <2>3, <2>4, <3>2 DEF Within
      <3> QED BY <1>1, <2>1, <3>3
    <2> QED BY <1>1, <2>2, <2>3, <2>5, <2>6
  <1> QED BY <1>2, <1>5 DEF TlbOf

LEMMA ReleaseTlb ==
  ASSUME AsInv, NEW c \in CPU, ReleaseOne(c), NEW d \in CPU
  PROVE  TlbOf(d)'
  <1>0. TlbInv /\ CpuTypes /\ PageTypes /\ MarkersInv
    BY Types DEF AsInv
  <1>1. /\ UNCHANGED <<at, stay, tlb, pte, unmapping>>
        /\ toRelease > 0 /\ memoryList' = Tail(memoryList)
    BY DEF ReleaseOne
  <1>2. tlb'[d] = {} \/ at'[d] = "in" \/ (at'[d] = "release" /\ stay'[d])
    BY <1>0, <1>1 DEF TlbInv
  <1>3. PICK n \in Nat : n = Len(memoryList) /\ n > 0 /\ DOMAIN memoryList = 1 .. n
    BY <1>0, ReleaseWindow, TailFacts DEF PageTypes
  <1>4. /\ DOMAIN memoryList' = 1 .. n - 1 /\ Len(memoryList') = n - 1
        /\ \A i \in 1 .. n - 1 : memoryList'[i] = memoryList[i + 1]
    BY <1>0, <1>1, <1>3, TailFacts DEF PageTypes
  <1>5. ASSUME NEW e \in tlb'[d]
        PROVE  \/ pte'[e[1]] = e[2] \/ Cached(e)' \in unmapping'
               \/ at'[d] = "in" /\ Within(d, Cached(e))'
    <2>1. e \in tlb[d]
      BY <1>1, <1>5
    <2>2. \/ pte[e[1]] = e[2] \/ Cached(e) \in unmapping
          \/ at[d] = "in" /\ Within(d, Cached(e))
      BY <1>0, <2>1 DEF TlbInv
    <2>3. PICK ne : ne = Cached(e) /\ ne = Cached(e)'
      BY DEF Cached
    <2>4. CASE at[d] = "in" /\ Within(d, ne)
      <3>1. d \in ToSet(markerList)
        BY <1>0, <2>4 DEF MarkersInv
      <3>2. PICK a \in Nat : a = Age(d) /\ Age(d)' = a
        BY MarkerFacts, ReleaseWindow
      <3>3. n - a >= 1
        <4>1. toRelease + a <= n
          BY <1>3, <3>1, <3>2, InWindow
        <4>2. toRelease \in Nat
          BY MarkerFacts
        <4> QED BY <1>1, <1>3, <3>2, <4>1, <4>2
      <3>4. PICK i \in 1 .. n : i > n - a /\ memoryList[i] = ne
        BY <1>3, <2>4, <3>2 DEF Within
      <3>5. i - 1 \in 1 .. n - 1 /\ i - 1 > (n - 1) - a /\ (i - 1) + 1 = i
        BY <3>3, <3>4
      <3>6. memoryList'[i - 1] = ne
        BY <1>4, <3>4, <3>5
      <3>7. Within(d, Cached(e))'
        BY <1>4, <2>3, <3>2, <3>5, <3>6 DEF Within
      <3> QED BY <1>1, <2>4, <3>7
    <2> QED BY <1>1, <2>2, <2>3, <2>4
  <1> QED BY <1>2, <1>5 DEF TlbOf

(* Switching threads invalidates all that the CPU's window holds.          *)
LEMMA SwitchSameTlb ==
  ASSUME AsInv, NEW c \in CPU, SwitchSame(c)
  PROVE  TlbOf(c)'
  <1>0. TlbInv /\ CpuTypes /\ PageTypes
    BY Types DEF AsInv
  <1>1. TakeMarker(c) /\ stay' = [stay EXCEPT ![c] = TRUE] /\ at[c] = "in"
    BY DEF SwitchSame
  <1>2. at'[c] = "release" /\ UNCHANGED <<pte, unmapping>>
    BY <1>0, <1>1 DEF TakeMarker, Goto, CpuTypes
  <1>3. stay'[c]
    BY <1>0, <1>1 DEF CpuTypes
  <1>4. PICK P : P = LastPages(Age(c))
    OBVIOUS
  <1>5. tlb'[c] = {e \in tlb[c] : e[1] \notin P}
    BY <1>0, <1>4 DEF SwitchSame, Age, CpuTypes
  <1>6. ASSUME NEW e \in tlb'[c]
        PROVE  pte'[e[1]] = e[2] \/ Cached(e)' \in unmapping'
    <2>1. e \in tlb[c] /\ e[1] \notin P /\ e[1] \in Page /\ e[2] \in Frame
      BY <1>0, <1>5, <1>6 DEF CpuTypes
    <2>2. ~ Within(c, Cached(e))
      <3> SUFFICES ASSUME Within(c, Cached(e)) PROVE e[1] \in P
        BY <2>1
      <3>1. PICK i \in DOMAIN memoryList : i > Len(memoryList) - Age(c) /\ memoryList[i] = Cached(e)
        BY DEF Within
      <3>2. memoryList[i].vma = e[1]
        BY <3>1 DEF Cached
      <3> QED BY <1>4, <3>1, <3>2 DEF LastPages
    <2>3. pte[e[1]] = e[2] \/ Cached(e) \in unmapping
      BY <1>0, <2>1, <2>2 DEF TlbInv
    <2> QED BY <1>2, <2>3 DEF Cached
  <1> QED BY <1>2, <1>3, <1>6 DEF TlbOf

LEMMA FillTlb ==
  ASSUME AsInv, NEW c \in CPU, NEW v \in Page, Fill(c, v)
  PROVE  TlbOf(c)'
  <1>0. TlbInv /\ CpuTypes /\ PageTypes
    BY Types DEF AsInv
  <1>1. at[c] = "in" /\ UNCHANGED <<at, stay, pte, unmapping, unmapEpoch, enterEpoch, memoryList>>
    BY DEF Fill, listVars
  <1>2. tlb'[c] = tlb[c] \cup {<<v, pte[v]>>}
    BY <1>0 DEF Fill, CpuTypes
  <1>3. ASSUME NEW e \in tlb'[c]
        PROVE  \/ pte'[e[1]] = e[2] \/ Cached(e)' \in unmapping'
               \/ at'[c] = "in" /\ Within(c, Cached(e))'
    <2>1. CASE e = <<v, pte[v]>>
      BY <1>1, <2>1
    <2>2. CASE e \in tlb[c]
      <3>1. \/ pte[e[1]] = e[2] \/ Cached(e) \in unmapping
            \/ at[c] = "in" /\ Within(c, Cached(e))
        BY <1>0, <2>2 DEF TlbInv
      <3> QED BY <1>1, <3>1 DEF Within, Age, Cached
    <2> QED BY <1>2, <1>3, <2>1, <2>2
  <1> QED BY <1>1, <1>3 DEF TlbOf

LEMMA ReenterTlb ==
  ASSUME AsInv, NEW c \in CPU, Reenter(c)
  PROVE  TlbOf(c)'
  <1>0. TlbInv /\ CpuTypes
    BY Types DEF AsInv
  <1>1. at[c] = "release" /\ at'[c] = "in" /\ UNCHANGED <<tlb, pte, unmapping>>
    BY <1>0 DEF Reenter, Goto, CpuTypes
  <1>2. \A e \in tlb[c] : pte[e[1]] = e[2] \/ Cached(e) \in unmapping
    BY <1>0, <1>1 DEF TlbInv
  <1>3. \A e \in tlb'[c] : pte'[e[1]] = e[2] \/ Cached(e)' \in unmapping'
    BY <1>1, <1>2 DEF Cached
  <1> QED BY <1>1, <1>3 DEF TlbOf

LEMMA TlbStep ==
  ASSUME AsInv, [AsNext]_asVars
  PROVE  TlbInv'
  <1>0. TlbInv /\ CpuTypes /\ PageTypes /\ ConservedInv /\ Absent \notin Frame /\ Lazy \notin Frame
    BY Types, AddressSpaceAssumption DEF AsInv
  <1> SUFFICES ASSUME NEW d \in CPU PROVE TlbOf(d)'
    BY DEF TlbInv, TlbOf
  <1>1. CASE UNCHANGED asVars
    <2>1. Age(d)' = Age(d)
      BY <1>1 DEF asVars, listVars, Age
    <2> QED BY <1>0, <1>1, <2>1, TlbFrame DEF asVars, listVars
  <1>2. ASSUME NEW c \in CPU, Map(c) \/ \E v \in Page : PageFault(c, v) PROVE TlbOf(d)'
    <2>1. /\ UNCHANGED <<at, stay, tlb, unmapping, memoryList, unmapEpoch, enterEpoch>>
          /\ \E v \in Page : pte[v] \notin Frame /\ \E x : pte' = [pte EXCEPT ![v] = x]
      <3>1. CASE Map(c)
        <4>1. mapStart - 1 \in Page /\ mapStart - 1 < mapStart
          BY <1>0, <3>1, AddressSpaceAssumption DEF Map, PageTypes, Page, mapTop
        <4>2. pte[mapStart - 1] = Absent
          BY <1>0, <4>1 DEF ConservedInv, RangesInv
        <4> QED BY <1>0, <3>1, <4>1, <4>2 DEF Map, listVars
      <3>2. CASE \E v \in Page : PageFault(c, v)
        BY <1>0, <3>2 DEF PageFault, listVars
      <3> QED BY <1>2, <3>1, <3>2
    <2>2. \A v \in Page : pte[v] \in Frame => pte'[v] = pte[v]
      BY <1>0, <2>1 DEF PageTypes
    <2>3. Age(d)' = Age(d)
      BY <2>1 DEF Age
    <2> QED BY <1>0, <2>1, <2>2, <2>3, TlbFrame
  <1>3. ASSUME NEW c \in CPU, NEW v \in Page, UnmapClear(c, v) PROVE TlbOf(d)'
    BY <1>3, UnmapClearTlb
  <1>4. ASSUME NEW c \in CPU, NEW md \in unmapping, UnmapPost(c, md) PROVE TlbOf(d)'
    BY <1>4, UnmapPostTlb
  <1>5. ASSUME NEW c \in CPU, ReleaseOne(c) PROVE TlbOf(d)'
    BY <1>5, ReleaseTlb
  <1>q. ASSUME NEW c \in CPU, UNCHANGED <<pte, unmapping, memoryList>>, Age(d)' = Age(d),
               d # c => tlb'[d] = tlb[d] /\ at'[d] = at[d] /\ (stay'[d] <=> stay[d]),
               d = c => tlb'[d] = {} \/ TlbOf(d)'
        PROVE  TlbOf(d)'
    BY <1>0, <1>q, TlbFrame
  <1>6. ASSUME NEW c \in CPU, NEW v \in Page, Fill(c, v) PROVE TlbOf(d)'
    <2>1. UNCHANGED <<pte, unmapping, memoryList, at, stay, unmapEpoch, enterEpoch>>
      BY <1>6 DEF Fill, listVars
    <2>2. d # c => tlb'[d] = tlb[d]
      BY <1>0, <1>6 DEF Fill, CpuTypes
    <2>3. d = c => TlbOf(d)'
      BY <1>6, FillTlb
    <2>4. Age(d)' = Age(d)
      BY <2>1 DEF Age
    <2> QED BY <1>q, <2>1, <2>2, <2>3, <2>4
  <1>e. ASSUME NEW c \in CPU, at[c] \notin {"in", "release"} PROVE tlb[c] = {}
    BY <1>0, <1>e DEF TlbInv
  <1>a. ASSUME NEW c \in CPU, NEW l, Goto(c, l), d # c PROVE at'[d] = at[d]
    BY <1>0, <1>a DEF Goto, CpuTypes
  <1>7. ASSUME NEW c \in CPU, Arrive(c) PROVE TlbOf(d)'
    <2>1. UNCHANGED <<pte, unmapping, memoryList, tlb, stay, unmapEpoch, enterEpoch>>
      BY <1>7 DEF Arrive, listVars
    <2>2. Age(d)' = Age(d)
      BY <2>1 DEF Age
    <2>3. at[c] = "out" /\ Goto(c, "arriving")
      BY <1>7 DEF Arrive
    <2> QED BY <1>q, <1>e, <1>a, <2>1, <2>2, <2>3
  <1>8. ASSUME NEW c \in CPU, Depart(c) PROVE TlbOf(d)'
    <2>1. UNCHANGED <<pte, unmapping, memoryList, stay, unmapEpoch, enterEpoch>>
      BY <1>8 DEF Depart, listVars
    <2>2. Age(d)' = Age(d)
      BY <2>1 DEF Age
    <2>3. tlb'[c] = {} /\ (d # c => tlb'[d] = tlb[d]) /\ Goto(c, "departing")
      BY <1>0, <1>8 DEF Depart, CpuTypes
    <2> QED BY <1>q, <1>a, <2>1, <2>2, <2>3
  <1>9. ASSUME NEW c \in CPU, Left(c) PROVE TlbOf(d)'
    <2>1. UNCHANGED <<pte, unmapping, memoryList, tlb, stay, unmapEpoch, enterEpoch>>
      BY <1>9 DEF Left, listVars
    <2>2. Age(d)' = Age(d)
      BY <2>1 DEF Age
    <2>3. at[c] = "release" /\ ~ stay[c] /\ Goto(c, "out")
      BY <1>9 DEF Left
    <2>4. tlb[c] = {}
      BY <1>0, <2>3 DEF TlbInv
    <2> QED BY <1>q, <1>a, <2>1, <2>2, <2>3, <2>4
  <1>10. ASSUME NEW c \in CPU, Enter(c) \/ Reenter(c) PROVE TlbOf(d)'
    <2>1. UNCHANGED <<pte, unmapping, memoryList, tlb, stay, unmapEpoch>> /\ Goto(c, "in")
      BY <1>10 DEF Enter, Reenter
    <2>2. d # c => Age(d)' = Age(d)
      <3>1. d # c => enterEpoch'[d] = enterEpoch[d]
        BY <1>0, <1>10 DEF Enter, Reenter, Entered, CpuTypes
      <3> QED BY <2>1, <3>1 DEF Age
    <2>3. CASE d # c
      BY <1>q, <1>a, <2>1, <2>2, <2>3
    <2>4. CASE d = c
      <3>1. CASE Reenter(c)
        BY <2>4, <3>1, ReenterTlb
      <3>2. CASE Enter(c)
        <4>1. tlb'[c] = {}
          BY <1>e, <2>1, <3>2 DEF Enter
        <4> QED BY <2>4, <4>1 DEF TlbOf
      <3> QED BY <1>10, <3>1, <3>2
    <2> QED BY <2>3, <2>4
  <1>11. ASSUME NEW c \in CPU, Leave(c) \/ SwitchSame(c) PROVE TlbOf(d)'
    <2>1. at[c] \in {"in", "departing"} /\ TakeMarker(c)
      BY <1>11 DEF Leave, SwitchSame
    <2>2. Age(d)' = Age(d)
      BY <2>1, TakeMarkerWindow
    <2>3. UNCHANGED <<pte, unmapping, memoryList>> /\ Goto(c, "release")
      BY <2>1 DEF TakeMarker
    <2>4. ASSUME d # c PROVE tlb'[d] = tlb[d]
      BY <1>0, <1>11, <2>4 DEF Leave, SwitchSame, CpuTypes
    <2>5. ASSUME d # c PROVE stay'[d] <=> stay[d]
      <3>1. stay' = [stay EXCEPT ![c] = TRUE] \/ stay' = [stay EXCEPT ![c] = FALSE]
        BY <1>11 DEF Leave, SwitchSame
      <3> QED BY <1>0, <2>5, <3>1 DEF CpuTypes
    <2>6. SwitchSame(c) /\ d = c => TlbOf(d)'
      BY SwitchSameTlb
    <2>7. Leave(c) /\ d = c => tlb'[d] = {}
      BY <1>e DEF Leave
    <2> QED BY <1>q, <1>a, <1>11, <2>2, <2>3, <2>4, <2>5, <2>6, <2>7
  <1> QED
    BY <1>1, <1>2, <1>3, <1>4, <1>5, <1>6, <1>7, <1>8, <1>9, <1>10, <1>11 DEF AsNext

-----------------------------------------------------------------------------
LEMMA InitInv == AsInit => AsInv
  <1> SUFFICES ASSUME AsInit PROVE AsInv
    OBVIOUS
  <1> USE AddressSpaceAssumption
  <1>0. NPages \in Nat /\ EpochMod \in Nat /\ EpochMod > 0 /\ mapTop = NPages + 1
    BY DEF mapTop
  <1>1. /\ ToSet(memoryList) = {} /\ ToSet(markerList) = {} /\ Listed = {}
        /\ Len(memoryList) = 0 /\ IsInjective(memoryList) /\ IsInjective(markerList)
    BY DEF AsInit, ToSet, Listed, IsInjective
  <1>2. TypeOK
    BY <1>0 DEF AsInit, TypeOK
  <1>3. MarkersInv
    BY <1>1 DEF AsInit, MarkersInv
  <1>4. ConservedInv
    <2>1. DescriptorsInv
      BY <1>1 DEF AsInit, DescriptorsInv
    <2>2. RangesInv
      BY <1>0, <1>1 DEF AsInit, RangesInv, Page
    <2>3. FramesInv
      BY <1>1 DEF AsInit, FramesInv
    <2> QED BY <2>1, <2>2, <2>3 DEF ConservedInv
  <1>5. EpochWindow
    BY <1>1 DEF AsInit, EpochWindow
  <1>6. TlbInv
    BY DEF AsInit, TlbInv
  <1> QED BY <1>2, <1>3, <1>4, <1>5, <1>6 DEF AsInv

(* AsInv holds in every reachable state: the markers say which CPUs may    *)
(* know which part of memoryList, and pages and frames are each in one     *)
(* place (AddressSpace.h unmapRegion, enter, leave, switchTo).             *)
THEOREM AsInvariance == AsSpec => []AsInv
  <1>1. AsInv /\ [AsNext]_asVars => AsInv'
    <2> SUFFICES ASSUME AsInv, [AsNext]_asVars PROVE AsInv'
      OBVIOUS
    <2>1. TypeOK' <=> (PageTypes /\ CpuTypes)' /\ toRelease' \in 0 .. NPages
      BY DEF TypeOK, PageTypes, CpuTypes
    <2>2. TypeOK'
      BY <2>1, TypeStep, PagesStep, WindowStep
    <2> QED BY <2>2, MarkersStep, PagesStep, WindowStep, TlbStep DEF AsInv
  <1> QED BY <1>1, InitInv, PTL DEF AsSpec

(* No CPU reaches a frame or an address through a translation that has     *)
(* outlived them, and the loops of leave stay inside memoryList, also when *)
(* the epoch counter wraps around (AddressSpace.h leave, runInvalidation). *)
THEOREM TranslationsSound == AsSpec => []TlbSound
  <1>1. AsInv => TlbSound
    <2> SUFFICES ASSUME AsInv PROVE NoStaleTranslation
      BY DEF AsInv, TlbSound
    <2>0. TlbInv /\ CpuTypes /\ PageTypes /\ RangesInv /\ FramesInv
      BY Types DEF AsInv, ConservedInv
    <2> SUFFICES ASSUME NEW c \in CPU, NEW e \in tlb[c]
                 PROVE  /\ e[2] \notin free
                        /\ \A v \in Page : pte[v] = e[2] => v = e[1]
                        /\ pte[e[1]] \in {Absent, e[2]}
      BY DEF NoStaleTranslation
    <2>1. e[1] \in Page /\ e[2] \in Frame
      BY <2>0 DEF CpuTypes
    <2>2. CASE pte[e[1]] = e[2]
      BY <2>0, <2>1, <2>2 DEF FramesInv
    <2>3. CASE Cached(e) \in Listed
      <3>1. Cached(e).vma = e[1] /\ Cached(e).pma = e[2]
        BY DEF Cached
      <3>2. pte[e[1]] = Absent
        BY <2>0, <2>3, <3>1 DEF RangesInv
      <3>3. e[2] \notin free /\ \A v \in Page : pte[v] # e[2]
        BY <2>0, <2>1, <2>3, <3>1 DEF FramesInv
      <3> QED BY <3>2, <3>3
    <2>4. Cached(e) \in unmapping \/ Within(c, Cached(e)) => Cached(e) \in Listed
      BY DEF Within, Listed, ToSet
    <2> QED BY <2>0, <2>2, <2>3, <2>4 DEF TlbInv
  <1> QED BY <1>1, AsInvariance, PTL

(* Frames, addresses and descriptors are each in one place, and an address *)
(* space that every CPU has left holds none (AddressSpace.h unmapRegion,   *)
(* leave, putVmRange and the assertions of the destructor).                *)
THEOREM PagesStayConserved == AsSpec => []PagesConserved
  <1>1. AsInv => PagesConserved
    <2> SUFFICES ASSUME AsInv PROVE PagesConserved
      OBVIOUS
    <2>0. /\ TypeOK /\ MarkersInv /\ EpochWindow /\ DescriptorsInv /\ RangesInv /\ FramesInv
          /\ PageTypes
      BY Types DEF AsInv, ConservedInv
    <2>c. ASSUME NEW S, NEW x PROVE
            /\ Cardinality({}) = 0
            /\ S = {x} => Cardinality(S) = 1
      BY FS_EmptySet, FS_Singleton
    <2>1. ASSUME NEW f \in Frame
          PROVE  Cardinality({v \in Page : pte[v] = f}) +
                 Cardinality({md \in Listed : md.pma = f}) +
                 (IF f \in free THEN 1 ELSE 0) = 1
      <3> DEFINE V == {v \in Page : pte[v] = f}
                 L == {md \in Listed : md.pma = f}
      <3>1. CASE f \in free
        <4>1. V = {} /\ L = {}
          BY <2>0, <3>1 DEF FramesInv
        <4> HIDE DEF V, L
        <4>2. Cardinality(V) + Cardinality(L) + (IF f \in free THEN 1 ELSE 0) = 1
          BY <2>c, <3>1, <4>1
        <4> QED BY <4>2 DEF V, L
      <3>2. CASE \E v \in Page : pte[v] = f
        <4>1. PICK v \in Page : pte[v] = f
          BY <3>2
        <4>2. V = {v} /\ L = {} /\ f \notin free
          BY <2>0, <4>1 DEF FramesInv
        <4> HIDE DEF V, L
        <4>3. Cardinality(V) + Cardinality(L) + (IF f \in free THEN 1 ELSE 0) = 1
          BY <2>c, <4>2
        <4> QED BY <4>3 DEF V, L
      <3>3. CASE \E md \in Listed : md.pma = f
        <4>1. PICK md \in Listed : md.pma = f
          BY <3>3
        <4>2. V = {} /\ L = {md} /\ f \notin free
          BY <2>0, <4>1 DEF FramesInv, DescriptorsInv
        <4> HIDE DEF V, L
        <4>3. Cardinality(V) + Cardinality(L) + (IF f \in free THEN 1 ELSE 0) = 1
          <5>1. Cardinality(V) = 0 /\ Cardinality(L) = 1
            BY <2>c, <4>2
          <5> QED BY <4>2, <5>1
        <4> QED BY <4>3 DEF V, L
      <3> QED BY <2>0, <3>1, <3>2, <3>3 DEF FramesInv
    <2>2. ASSUME NEW v \in Page
          PROVE  Cardinality({md \in Listed : md.vma = v}) +
                 (IF pte[v] # Absent THEN 1 ELSE 0) +
                 (IF v \in unmapSet THEN 1 ELSE 0) = (IF v < mapStart THEN 0 ELSE 1)
      <3> DEFINE L == {md \in Listed : md.vma = v}
      <3>n. v \in Int /\ mapStart \in Int
        BY <2>0, AddressSpaceAssumption DEF PageTypes, Page, mapTop
      <3>1. CASE \E md \in Listed : md.vma = v
        <4>1. PICK md \in Listed : md.vma = v
          BY <3>1
        <4>2. L = {md} /\ pte[v] = Absent /\ v \notin unmapSet /\ v >= mapStart
          BY <2>0, <4>1 DEF RangesInv, DescriptorsInv
        <4> HIDE DEF L
        <4>3. Cardinality(L) + (IF pte[v] # Absent THEN 1 ELSE 0) +
                (IF v \in unmapSet THEN 1 ELSE 0) = (IF v < mapStart THEN 0 ELSE 1)
          BY <2>c, <3>n, <4>2
        <4> QED BY <4>3 DEF L
      <3>2. CASE ~ \E md \in Listed : md.vma = v
        <4>1. L = {}
          BY <3>2
        <4> HIDE DEF L
        <4>2. Cardinality(L) = 0
          BY <2>c, <4>1
        <4>3. /\ v \in unmapSet => pte[v] = Absent /\ v > mapStart
              /\ v < mapStart => pte[v] = Absent
              /\ v >= mapStart => pte[v] # Absent \/ v \in unmapSet
          BY <2>0, <3>2 DEF RangesInv
        <4>4. Cardinality(L) + (IF pte[v] # Absent THEN 1 ELSE 0) +
                (IF v \in unmapSet THEN 1 ELSE 0) = (IF v < mapStart THEN 0 ELSE 1)
          BY <3>n, <4>2, <4>3
        <4> QED BY <4>4 DEF L
      <3> QED BY <3>1, <3>2
    <2>3. mapStart \notin unmapSet
      BY <2>0, AddressSpaceAssumption DEF RangesInv, PageTypes, mapTop
    <2>4. EmptyWhenLeft
      <3> SUFFICES ASSUME markerList = <<>>, ulock = Nobody PROVE memoryList = <<>>
        BY DEF EmptyWhenLeft
      <3>1. toRelease = 0 /\ Len(memoryList) = 0
        BY <2>0, MarkerFacts DEF MarkersInv, EpochWindow
      <3> QED BY <2>0, <3>1, EmptySeq DEF PageTypes
    <2> QED BY <2>0, <2>1, <2>2, <2>3, <2>4 DEF PagesConserved, FramesConserved, RangesConserved
  <1> QED BY <1>1, AsInvariance, PTL

-----------------------------------------------------------------------------
(***************************************************************************)
(* Entering and leaving the kernel (module Isr).                           *)
(***************************************************************************)
Lowered(s) == SubSeq(s, 1, Len(s) - 1)

(* The number of locks on a stack, one activation more or less.            *)
LEMMA LocksCounted ==
  ASSUME NEW s \in Seq(Frames)
  PROVE  /\ LocksOn(s) \in Nat
         /\ LocksOn(s) = 0 <=> \A i \in 1 .. Len(s) : s[i].kind \notin Locking
  <1>1. PICK L : L = {i \in DOMAIN s : s[i].kind \in Locking}
    OBVIOUS
  <1>2. IsFiniteSet(L)
    <2>1. IsFiniteSet(1 .. Len(s))
      BY FS_Interval
    <2> QED BY <1>1, <2>1, FS_Subset
  <1>3. Cardinality(L) \in Nat /\ (Cardinality(L) = 0 <=> L = {})
    BY <1>2, FS_CardinalityType, FS_EmptySet
  <1> QED BY <1>1, <1>3 DEF LocksOn

LEMMA LocksPushed ==
  ASSUME NEW s \in Seq(Frames), NEW f \in Frames
  PROVE  LocksOn(Append(s, f)) = LocksOn(s) + (IF f.kind \in Locking THEN 1 ELSE 0)
  <1>1. PICK L, M : /\ L = {i \in DOMAIN s : s[i].kind \in Locking}
                    /\ M = {i \in DOMAIN Append(s, f) : Append(s, f)[i].kind \in Locking}
    OBVIOUS
  <1>2. IsFiniteSet(L) /\ Cardinality(L) \in Nat
    <2>1. IsFiniteSet(1 .. Len(s))
      BY FS_Interval
    <2> QED BY <1>1, <2>1, FS_Subset, FS_CardinalityType
  <1>3. Len(s) \in Nat /\ DOMAIN s = 1 .. Len(s) /\ DOMAIN Append(s, f) = 1 .. Len(s) + 1
        /\ Append(s, f)[Len(s) + 1] = f /\ \A i \in 1 .. Len(s) : Append(s, f)[i] = s[i]
    OBVIOUS
  <1>4. CASE f.kind \in Locking
    <2>1. M = L \cup {Len(s) + 1} /\ Len(s) + 1 \notin L
      BY <1>1, <1>3, <1>4
    <2>2. Cardinality(M) = Cardinality(L) + 1
      BY <1>2, <2>1, FS_AddElement
    <2> QED BY <1>1, <1>4, <2>2 DEF LocksOn
  <1>5. CASE f.kind \notin Locking
    <2>1. M = L
      BY <1>1, <1>3, <1>5
    <2>2. LocksOn(Append(s, f)) = LocksOn(s) /\ LocksOn(s) \in Nat
      BY <1>1, <1>2, <2>1 DEF LocksOn
    <2> QED BY <1>5, <2>2
  <1> QED BY <1>4, <1>5

LEMMA PopIs ==
  ASSUME NEW s \in Seq(Frames), s # <<>>
  PROVE  /\ Lowered(s) \in Seq(Frames) /\ Len(Lowered(s)) = Len(s) - 1 /\ Len(s) \in Nat /\ Len(s) >= 1
         /\ \A i \in 1 .. Len(s) - 1 : Lowered(s)[i] = s[i]
         /\ s = Append(Lowered(s), s[Len(s)]) /\ s[Len(s)] \in Frames
         /\ Lowered(s) = <<>> <=> Len(s) = 1
  <1>1. Len(s) \in Nat /\ Len(s) >= 1 /\ s[Len(s)] \in Frames
    <2>1. Len(s) \in Nat /\ Len(s) # 0
      OBVIOUS
    <2>2. Len(s) \in 1 .. Len(s)
      BY <2>1
    <2>3. \A i \in 1 .. Len(s) : s[i] \in Frames
      OBVIOUS
    <2> QED BY <2>1, <2>2, <2>3
  <1>2. Lowered(s) \in Seq(Frames) /\ Len(Lowered(s)) = Len(s) - 1 /\ \A i \in 1 .. Len(s) - 1 : Lowered(s)[i] = s[i]
    <2>1. PICK n : n = Len(s) - 1
      OBVIOUS
    <2>2. n \in Int /\ n >= 0 /\ 1 \in Int /\ \A i \in 1 .. n : s[i] \in Frames
      BY <1>1, <2>1
    <2>3. /\ SubSeq(s, 1, n) \in Seq(Frames) /\ Len(SubSeq(s, 1, n)) = (IF 1 <= n THEN n - 1 + 1 ELSE 0)
          /\ \A i \in 1 .. n - 1 + 1 : SubSeq(s, 1, n)[i] = s[1 + i - 1]
      BY <2>2, SubSeqProperties
    <2>4. /\ Len(SubSeq(s, 1, n)) = n
          /\ \A i \in 1 .. n : SubSeq(s, 1, n)[i] = s[i]
      BY <2>2, <2>3
    <2> QED BY <2>1, <2>3, <2>4 DEF Lowered
  <1>3. Lowered(s) = <<>> <=> Len(s) = 1
    BY <1>1, <1>2
  <1>4. s = Append(Lowered(s), s[Len(s)])
    <2>1. PICK p, f : p = Lowered(s) /\ f = s[Len(s)]
      OBVIOUS
    <2>2. PICK q : q = Append(p, f)
      OBVIOUS
    <2>3. q \in Seq(Frames) /\ Len(q) = Len(s) /\ q[Len(s)] = f /\ \A i \in 1 .. Len(s) - 1 : q[i] = s[i]
      BY <1>1, <1>2, <2>1, <2>2
    <2>4. \A i \in 1 .. Len(s) : q[i] = s[i]
      BY <1>1, <2>1, <2>3
    <2> QED BY <2>1, <2>2, <2>3, <2>4
  <1> QED BY <1>1, <1>2, <1>3, <1>4

LEMMA LocksPopped ==
  ASSUME NEW s \in Seq(Frames), s # <<>>
  PROVE  LocksOn(Lowered(s)) = LocksOn(s) - (IF s[Len(s)].kind \in Locking THEN 1 ELSE 0)
  <1>1. PICK p, f : p = Lowered(s) /\ f = s[Len(s)]
    OBVIOUS
  <1>2. p \in Seq(Frames) /\ f \in Frames /\ s = Append(p, f)
    BY <1>1, PopIs
  <1>3. LocksOn(s) = LocksOn(p) + (IF f.kind \in Locking THEN 1 ELSE 0) /\ LocksOn(p) \in Nat
    BY <1>2, LocksPushed, LocksCounted
  <1> QED BY <1>1, <1>3

(* A stack stays well-formed when a proper activation is pushed, and when  *)
(* one is popped.                                                          *)
LEMMA PushSound ==
  ASSUME NEW s \in Seq(Frames), StackSound(s), NEW f \in Frames,
         f.user <=> s = <<>> /\ f.kind # "base",
         f.kind \in {"base", "sys"} => s = <<>>,
         f.kind = "lock" => s # <<>>,
         f.kind \in {"irq", "exc"} => (f.flag <=> LocksOn(s) = 0),
         f.kind = "irq" => f.flag
  PROVE  StackSound(Append(s, f))
  <1>1. PICK q, n : q = Append(s, f) /\ n = Len(s) + 1
    OBVIOUS
  <1>2. n \in Nat /\ Len(q) = n /\ q[n] = f /\ (\A i \in 1 .. n - 1 : q[i] = s[i]) /\ (s = <<>> <=> n = 1)
        /\ n - 1 = Len(s)
    BY <1>1
  <1>3. LocksOn(s) = 0 <=> \A j \in 1 .. n - 1 : q[j].kind \notin Locking
    BY <1>2, LocksCounted
  <1>4. FrameSound(q, n)
    BY <1>2, <1>3 DEF FrameSound
  <1>5. ASSUME NEW i \in 1 .. n, i # n PROVE FrameSound(q, i)
    <2>1. i \in 1 .. Len(s) /\ q[i] = s[i] /\ (\A j \in 1 .. i - 1 : q[j] = s[j])
      BY <1>2, <1>5
    <2>2. FrameSound(s, i)
      BY <2>1 DEF StackSound
    <2> QED BY <2>1, <2>2 DEF FrameSound
  <1> QED BY <1>1, <1>2, <1>4, <1>5 DEF StackSound

LEMMA PopSound ==
  ASSUME NEW s \in Seq(Frames), s # <<>>, StackSound(s)
  PROVE  StackSound(Lowered(s))
  <1>1. PICK p : p = Lowered(s)
    OBVIOUS
  <1>2. Len(p) = Len(s) - 1 /\ Len(s) \in Nat /\ \A i \in 1 .. Len(p) : p[i] = s[i]
    BY <1>1, PopIs
  <1>3. ASSUME NEW i \in 1 .. Len(p) PROVE FrameSound(p, i)
    <2>1. i \in 1 .. Len(s) /\ p[i] = s[i] /\ (\A j \in 1 .. i - 1 : p[j] = s[j])
      BY <1>2, <1>3
    <2>2. FrameSound(s, i)
      BY <2>1 DEF StackSound
    <2> QED BY <2>1, <2>2 DEF FrameSound
  <1> QED BY <1>1, <1>3 DEF StackSound

-----------------------------------------------------------------------------
(* The stacks threads begin with.                                          *)
LEMMA NewStackSound ==
  /\ <<Base>> \in Seq(Frames) /\ <<Base>> # <<>> /\ StackSound(<<Base>>) /\ LocksOn(<<Base>>) = 0
  /\ <<Base>>[1].kind = "base"
  /\ NewStack \in Seq(Frames) /\ NewStack # <<>> /\ StackSound(NewStack) /\ LocksOn(NewStack) = 1
  <1>1. PICK b, l : b = Base /\ l = LockFrame
    OBVIOUS
  <1>2. /\ b \in Frames /\ l \in Frames /\ b.kind = "base" /\ ~ b.user /\ l.kind = "lock" /\ ~ l.user
        /\ "base" \notin Locking /\ "lock" \in Locking
    BY <1>1 DEF Base, LockFrame, Activation, Frames, Locking
  <1>3. PICK one, two : one = <<b>> /\ two = <<b, l>>
    OBVIOUS
  <1>4. /\ one \in Seq(Frames) /\ one # <<>> /\ two \in Seq(Frames) /\ two # <<>>
        /\ LocksOn(one) = 0 /\ LocksOn(two) = 1 /\ StackSound(one) /\ StackSound(two) /\ one[1] = b
    <2>1. one = Append(<<>>, b) /\ one[1] = b /\ one # <<>>
      BY <1>3
    <2>2. two = Append(one, l)
      BY <1>3
    <2>3. <<>> \in Seq(Frames) /\ LocksOn(<<>>) = 0
      <3>1. PICK e : e = <<>>
        OBVIOUS
      <3>2. e \in Seq(Frames) /\ Len(e) = 0
        BY <3>1
      <3>3. LocksOn(e) = 0
        <4>1. \A i \in 1 .. Len(e) : FALSE
          BY <3>2
        <4>2. LocksOn(e) = 0 <=> \A i \in 1 .. Len(e) : e[i].kind \notin Locking
          BY <3>2, LocksCounted
        <4> QED BY <4>1, <4>2
      <3> QED BY <3>1, <3>2, <3>3
    <2>4. one \in Seq(Frames) /\ LocksOn(one) = 0
      <3>1. LocksOn(Append(<<>>, b)) = LocksOn(<<>>) + (IF b.kind \in Locking THEN 1 ELSE 0)
        BY <1>2, <2>3, LocksPushed
      <3>2. Append(<<>>, b) \in Seq(Frames)
        BY <1>2, <2>3
      <3> QED BY <1>2, <2>1, <2>3, <3>1, <3>2
    <2>5. two \in Seq(Frames) /\ LocksOn(two) = 1 /\ two # <<>>
      <3>1. LocksOn(Append(one, l)) = LocksOn(one) + (IF l.kind \in Locking THEN 1 ELSE 0)
        BY <1>2, <2>4, LocksPushed
      <3> QED BY <1>2, <2>2, <2>4, <3>1
    <2>6. StackSound(one)
      <3>1. \A i \in 1 .. Len(one) : i = 1
        BY <2>1
      <3> QED BY <1>2, <2>1, <3>1 DEF StackSound, FrameSound, Locking
    <2>7. StackSound(two)
      BY <1>2, <2>1, <2>2, <2>4, <2>6, PushSound
    <2> QED BY <2>1, <2>4, <2>5, <2>6, <2>7
  <1> QED BY <1>1, <1>2, <1>3, <1>4 DEF NewStack

LEMMA IsrInvInit == IsrInit => IsrInv
  <1> SUFFICES ASSUME IsrInit PROVE IsrInv
    OBVIOUS
  <1>0. /\ IdleOf \in [IsrCpu -> IdleThread] /\ IdleThread \subseteq IsrThread
        /\ \A c, d \in IsrCpu : IdleOf[c] = IdleOf[d] => c = d
    BY IsrAssumption DEF IsrThread
  <1>3. PICK one, two : one = <<Base>> /\ two = NewStack
    OBVIOUS
  <1>4. /\ one \in Seq(Frames) /\ one # <<>> /\ StackSound(one) /\ LocksOn(one) = 0 /\ one[1].kind = "base"
        /\ two \in Seq(Frames) /\ two # <<>> /\ StackSound(two) /\ LocksOn(two) = 1
    BY <1>3, NewStackSound
  <1>6. /\ kstack = [t \in IsrThread |-> IF t \in IdleThread THEN one ELSE two]
        /\ running = IdleOf
    BY <1>3 DEF IsrInit
  <1>7. IsrTypeOK
    BY <1>0, <1>4, <1>6 DEF IsrInit, IsrTypeOK
  <1>8. ThreadsInv
    <2>1. \A t \in IsrThread : StackSound(kstack[t])
      BY <1>4, <1>6
    <2>2. \A t \in IdleThread : kstack[t] # <<>> /\ kstack[t][1].kind = "base"
      BY <1>0, <1>4, <1>6
    <2>3. \A c, d \in IsrCpu : running[c] = running[d] => c = d
      BY <1>0, <1>6
    <2>4. ASSUME NEW t \in IsrThread, Resting(t) PROVE kstack[t] # <<>> /\ LocksOf(t) = 1
      <3>1. t \notin IdleThread
        BY <1>6, <2>4 DEF Resting, IdleThread
      <3>2. kstack[t] = two
        BY <1>6, <3>1
      <3> QED BY <1>4, <3>2 DEF LocksOf
    <2> QED BY <2>1, <2>2, <2>3, <2>4 DEF ThreadsInv
  <1>9. ASSUME NEW c \in IsrCpu PROVE CpuAt(c)
    <2>1. kstack[running[c]] = one
      BY <1>0, <1>6
    <2>2. count[c] = 0 /\ flag[c] /\ gs[c] = "kernel"
      BY DEF IsrInit
    <2> QED BY <1>4, <2>1, <2>2 DEF CpuAt, InUser, Stack, LocksOf
  <1> QED BY <1>7, <1>8, <1>9 DEF IsrInv

(* A step of one processor that keeps its thread: what has to be shown     *)
(* about the new stack of the thread and the processor's other state.      *)
LEMMA StackStep ==
  ASSUME IsrInv, NEW c \in IsrCpu, state[c] = "run",
         NEW s \in Seq(Frames),
         kstack' = [kstack EXCEPT ![running[c]] = s], running' = running,
         StackSound(s), running[c] \in IdleThread => s # <<>> /\ s[1].kind = "base",
         gs' \in [IsrCpu -> {"kernel", "user"}], flag' \in [IsrCpu -> BOOLEAN], count' \in [IsrCpu -> Nat],
         rsp0' \in [IsrCpu -> IsrThread], state' \in [IsrCpu -> {"run", "reboot", "stopped"}],
         stopIPI' \in SUBSET IsrCpu,
         \A d \in IsrCpu : d # c =>
           /\ gs'[d] = gs[d] /\ (flag'[d] <=> flag[d]) /\ count'[d] = count[d] /\ rsp0'[d] = rsp0[d]
           /\ state'[d] = state[d],
         state'[c] = "run" =>
           /\ s = <<>> => gs'[c] = "user" /\ rsp0'[c] = running[c]
           /\ s # <<>> => gs'[c] = "kernel"
           /\ count'[c] = LocksOn(s)
           /\ flag'[c] <=> count'[c] = 0
  PROVE  IsrInv'
  <1>0. IsrTypeOK /\ ThreadsInv /\ (\A d \in IsrCpu : CpuAt(d)) /\ running[c] \in IsrThread
        /\ kstack \in [IsrThread -> Seq(Frames)] /\ running \in [IsrCpu -> IsrThread] /\ IdleThread \subseteq IsrThread
    BY DEF IsrInv, IsrTypeOK, IsrThread
  <1>1. kstack' \in [IsrThread -> Seq(Frames)] /\ kstack'[running[c]] = s
        /\ \A t \in IsrThread : t # running[c] => kstack'[t] = kstack[t]
    BY <1>0
  <1>2. IsrTypeOK'
    BY <1>0, <1>1 DEF IsrTypeOK
  <1>3. ThreadsInv'
    <2>1. \A t \in IsrThread : StackSound(kstack'[t])
      BY <1>0, <1>1 DEF ThreadsInv
    <2>2. \A t \in IdleThread : kstack'[t] # <<>> /\ kstack'[t][1].kind = "base"
      BY <1>0, <1>1 DEF ThreadsInv
    <2>3. \A t \in IsrThread : Resting(t)' => kstack'[t] # <<>> /\ LocksOn(kstack'[t]) = 1
      <3>1. \A t \in IsrThread : Resting(t)' => Resting(t) /\ t # running[c]
        BY DEF Resting
      <3> QED BY <1>0, <1>1, <3>1 DEF ThreadsInv, LocksOf
    <2> QED BY <1>0, <2>1, <2>2, <2>3 DEF ThreadsInv, LocksOf
  <1>4. ASSUME NEW d \in IsrCpu, d # c PROVE CpuAt(d)'
    <2>1. running[d] # running[c] /\ running[d] \in IsrThread
      BY <1>0, <1>4 DEF ThreadsInv
    <2>2. kstack'[running'[d]] = kstack[running[d]] /\ running'[d] = running[d]
      BY <1>1, <2>1
    <2>3. CpuAt(d)
      BY <1>0
    <2>4. /\ gs'[d] = gs[d] /\ (flag'[d] <=> flag[d]) /\ count'[d] = count[d] /\ rsp0'[d] = rsp0[d]
          /\ state'[d] = state[d]
      BY <1>4
    <2> QED BY <2>2, <2>3, <2>4 DEF CpuAt, InUser, Stack, LocksOf
  <1>5. CpuAt(c)'
    <2>1. kstack'[running'[c]] = s /\ running'[c] = running[c]
      BY <1>1
    <2> QED BY <2>1 DEF CpuAt, InUser, Stack, LocksOf
  <1> QED BY <1>2, <1>3, <1>4, <1>5 DEF IsrInv

(* What is known of a processor that is up and the thread it runs.         *)
LEMMA UpFacts ==
  ASSUME IsrInv, NEW c \in IsrCpu, state[c] = "run"
  PROVE  /\ running[c] \in IsrThread /\ Stack(c) = kstack[running[c]] /\ Stack(c) \in Seq(Frames)
         /\ StackSound(Stack(c)) /\ (InUser(c) <=> Stack(c) = <<>>)
         /\ running[c] \in IdleThread => Stack(c) # <<>> /\ Stack(c)[1].kind = "base"
         /\ Stack(c) = <<>> => gs[c] = "user" /\ rsp0[c] = running[c]
         /\ Stack(c) # <<>> => gs[c] = "kernel"
         /\ count[c] = LocksOn(Stack(c)) /\ (flag[c] <=> LocksOn(Stack(c)) = 0) /\ count[c] \in Nat
         /\ TopFrame(c) = Stack(c)[Len(Stack(c))]
         /\ Stack(c) # <<>> => FrameSound(Stack(c), Len(Stack(c))) /\ TopFrame(c) \in Frames
  <1>1. IsrTypeOK /\ ThreadsInv /\ CpuAt(c) /\ running[c] \in IsrThread /\ kstack[running[c]] \in Seq(Frames)
        /\ count[c] \in Nat
    BY DEF IsrInv, IsrTypeOK
  <1>2. Stack(c) = kstack[running[c]] /\ (InUser(c) <=> Stack(c) = <<>>)
    BY DEF Stack, InUser
  <1>3. StackSound(Stack(c)) /\ (running[c] \in IdleThread => Stack(c) # <<>> /\ Stack(c)[1].kind = "base")
    BY <1>1, <1>2 DEF ThreadsInv
  <1>4. /\ Stack(c) = <<>> => gs[c] = "user" /\ rsp0[c] = running[c]
        /\ Stack(c) # <<>> => gs[c] = "kernel"
        /\ count[c] = LocksOn(Stack(c)) /\ (flag[c] <=> LocksOn(Stack(c)) = 0)
    BY <1>1, <1>2 DEF CpuAt, LocksOf
  <1>5. PICK s : s = Stack(c)
    OBVIOUS
  <1>6. s # <<>> => s[Len(s)] \in Frames /\ FrameSound(s, Len(s))
    <2>1. ASSUME s # <<>> PROVE s[Len(s)] \in Frames /\ Len(s) \in 1 .. Len(s)
      <3>1. s \in Seq(Frames)
        BY <1>1, <1>2, <1>5
      <3> QED BY <2>1, <3>1, PopIs
    <2> QED BY <1>3, <1>5, <2>1 DEF StackSound
  <1> QED BY <1>1, <1>2, <1>3, <1>4, <1>5, <1>6 DEF TopFrame

(* Pushing and popping an activation.                                      *)
LEMMA Pushes ==
  ASSUME IsrInv, NEW c \in IsrCpu, state[c] = "run", NEW f \in Frames, PushFrame(c, f),
         f.user <=> Stack(c) = <<>> /\ f.kind # "base",
         f.kind \in {"base", "sys"} => Stack(c) = <<>>,
         f.kind = "lock" => Stack(c) # <<>>,
         f.kind \in {"irq", "exc"} => (f.flag <=> LocksOn(Stack(c)) = 0),
         f.kind = "irq" => f.flag
  PROVE  \E s \in Seq(Frames) :
           /\ kstack' = [kstack EXCEPT ![running[c]] = s]
           /\ StackSound(s) /\ s # <<>> /\ (running[c] \in IdleThread => s[1].kind = "base")
           /\ LocksOn(s) = LocksOn(Stack(c)) + (IF f.kind \in Locking THEN 1 ELSE 0)
           /\ LocksOn(Stack(c)) \in Nat
  <1>1. PICK S, s : S = Stack(c) /\ s = Append(S, f)
    OBVIOUS
  <1>2. S \in Seq(Frames) /\ StackSound(S) /\ (running[c] \in IdleThread => S # <<>> /\ S[1].kind = "base")
        /\ S = kstack[running[c]]
    BY <1>1, UpFacts
  <1>3. s \in Seq(Frames) /\ s # <<>> /\ (S # <<>> => s[1] = S[1])
    BY <1>1, <1>2
  <1>4. kstack' = [kstack EXCEPT ![running[c]] = s]
    BY <1>1, <1>2 DEF PushFrame
  <1>5. StackSound(s)
    BY <1>1, <1>2, PushSound
  <1>6. LocksOn(s) = LocksOn(S) + (IF f.kind \in Locking THEN 1 ELSE 0) /\ LocksOn(S) \in Nat
    BY <1>1, <1>2, LocksPushed, LocksCounted
  <1> QED BY <1>1, <1>2, <1>3, <1>4, <1>5, <1>6

LEMMA Pops ==
  ASSUME IsrInv, NEW c \in IsrCpu, state[c] = "run", Stack(c) # <<>>, PopFrame(c),
         running[c] \in IdleThread => Len(Stack(c)) # 1
  PROVE  \E s \in Seq(Frames) :
           /\ kstack' = [kstack EXCEPT ![running[c]] = s]
           /\ StackSound(s) /\ (running[c] \in IdleThread => s # <<>> /\ s[1].kind = "base")
           /\ LocksOn(s) = LocksOn(Stack(c)) - (IF TopFrame(c).kind \in Locking THEN 1 ELSE 0)
           /\ LocksOn(s) \in Nat /\ (s = <<>> <=> Len(Stack(c)) = 1)
           /\ LocksOn(s) = 0 <=> \A j \in 1 .. Len(Stack(c)) - 1 : Stack(c)[j].kind \notin Locking
  <1>1. PICK S, s : S = Stack(c) /\ s = Lowered(S)
    OBVIOUS
  <1>2. S \in Seq(Frames) /\ S # <<>> /\ StackSound(S) /\ (running[c] \in IdleThread => S[1].kind = "base")
        /\ S = kstack[running[c]] /\ TopFrame(c) = S[Len(S)]
    BY <1>1, UpFacts
  <1>3. /\ s \in Seq(Frames) /\ Len(s) = Len(S) - 1 /\ Len(S) \in Nat /\ Len(S) >= 1
        /\ (\A i \in 1 .. Len(S) - 1 : s[i] = S[i]) /\ (s = <<>> <=> Len(S) = 1)
    BY <1>1, <1>2, PopIs
  <1>4. kstack' = [kstack EXCEPT ![running[c]] = s]
    BY <1>1, <1>2 DEF PopFrame, Lowered
  <1>5. StackSound(s)
    BY <1>1, <1>2, PopSound
  <1>6. LocksOn(s) = LocksOn(S) - (IF S[Len(S)].kind \in Locking THEN 1 ELSE 0)
    BY <1>1, <1>2, LocksPopped
  <1>7. LocksOn(s) \in Nat /\ (LocksOn(s) = 0 <=> \A i \in 1 .. Len(s) : s[i].kind \notin Locking)
    BY <1>3, LocksCounted
  <1>8. LocksOn(s) = 0 <=> \A j \in 1 .. Len(S) - 1 : S[j].kind \notin Locking
    BY <1>3, <1>7
  <1>9. running[c] \in IdleThread => s # <<>> /\ s[1].kind = "base"
    BY <1>1, <1>2, <1>3
  <1> QED BY <1>1, <1>2, <1>3, <1>4, <1>5, <1>6, <1>7, <1>8, <1>9

(* Entries.                                                                *)
LEMMA EnterStep ==
  ASSUME IsrInv, NEW c \in IsrCpu, state[c] = "run",
         LockCpu(c) \/ Irq(c) \/ IsrPageFault(c) \/ Fatal(c) \/ Syscall(c)
  PROVE  IsrInv'
  <1>0. /\ kstack \in [IsrThread -> Seq(Frames)] /\ running \in [IsrCpu -> IsrThread]
        /\ gs \in [IsrCpu -> {"kernel", "user"}] /\ flag \in [IsrCpu -> BOOLEAN]
        /\ count \in [IsrCpu -> Nat] /\ rsp0 \in [IsrCpu -> IsrThread]
        /\ state \in [IsrCpu -> {"run", "reboot", "stopped"}] /\ stopIPI \in SUBSET IsrCpu
    BY DEF IsrInv, IsrTypeOK
  <1>1. PICK S : S = Stack(c)
    OBVIOUS
  <1>2. /\ (InUser(c) <=> S = <<>>) /\ count[c] = LocksOn(S) /\ (flag[c] <=> LocksOn(S) = 0)
        /\ count[c] \in Nat /\ (S # <<>> => gs[c] = "kernel")
    BY <1>1, UpFacts
  <1>3. ASSUME NEW kind \in {"irq", "exc"}, IsrEnter(c, kind), kind = "irq" => flag[c],
               state' \in [IsrCpu -> {"run", "reboot", "stopped"}], stopIPI' \in SUBSET IsrCpu,
               \A d \in IsrCpu : d # c => state'[d] = state[d]
        PROVE  IsrInv'
    <2>1. PICK f : f = Activation(kind, InUser(c), flag[c])
      OBVIOUS
    <2>2. f \in Frames /\ f.kind = kind /\ (f.user <=> S = <<>>) /\ (f.flag <=> LocksOn(S) = 0) /\ kind \in Locking
      <3>1. InUser(c) \in BOOLEAN /\ flag[c] \in BOOLEAN
        BY <1>0 DEF InUser
      <3> QED BY <1>2, <2>1, <3>1 DEF Activation, Frames, Locking
    <2>3. PushFrame(c, f)
      BY <1>3, <2>1 DEF IsrEnter
    <2>4. PICK s \in Seq(Frames) :
            /\ kstack' = [kstack EXCEPT ![running[c]] = s]
            /\ StackSound(s) /\ s # <<>> /\ (running[c] \in IdleThread => s[1].kind = "base")
            /\ LocksOn(s) = LocksOn(S) + 1
      BY <1>1, <1>2, <1>3, <2>2, <2>3, Pushes
    <2>5. /\ running' = running /\ rsp0' = rsp0
          /\ gs' = [gs EXCEPT ![c] = IF InUser(c) THEN "kernel" ELSE gs[c]]
          /\ flag' = [flag EXCEPT ![c] = FALSE] /\ count' = [count EXCEPT ![c] = count[c] + 1]
      BY <1>3 DEF IsrEnter, LockFake
    <2>6. /\ gs' \in [IsrCpu -> {"kernel", "user"}] /\ flag' \in [IsrCpu -> BOOLEAN]
          /\ count' \in [IsrCpu -> Nat] /\ rsp0' \in [IsrCpu -> IsrThread]
      BY <1>0, <1>2, <2>5
    <2>7. /\ gs'[c] = "kernel" /\ ~ flag'[c] /\ count'[c] = LocksOn(s) /\ count'[c] # 0
          /\ \A d \in IsrCpu : d # c =>
               gs'[d] = gs[d] /\ (flag'[d] <=> flag[d]) /\ count'[d] = count[d] /\ rsp0'[d] = rsp0[d]
      BY <1>0, <1>2, <2>4, <2>5
    <2>8. \A d \in IsrCpu : d # c =>
            /\ gs'[d] = gs[d] /\ (flag'[d] <=> flag[d]) /\ count'[d] = count[d] /\ rsp0'[d] = rsp0[d]
            /\ state'[d] = state[d]
      BY <1>3, <2>7
    <2>9. /\ s = <<>> => gs'[c] = "user" /\ rsp0'[c] = running[c]
          /\ s # <<>> => gs'[c] = "kernel"
          /\ count'[c] = LocksOn(s)
          /\ flag'[c] <=> count'[c] = 0
      BY <2>4, <2>7
    <2> QED BY <1>3, <2>4, <2>5, <2>6, <2>8, <2>9, StackStep
  <1>4. CASE Irq(c) \/ IsrPageFault(c)
    BY <1>0, <1>3, <1>4 DEF Irq, IsrPageFault
  <1>5. CASE Fatal(c)
    <2>1. /\ state' \in [IsrCpu -> {"run", "reboot", "stopped"}] /\ stopIPI' \in SUBSET IsrCpu
          /\ \A d \in IsrCpu : d # c => state'[d] = state[d]
      BY <1>0, <1>5 DEF Fatal
    <2> QED BY <1>3, <1>5, <2>1 DEF Fatal
  <1>6. CASE LockCpu(c)
    <2>1. PICK f : f = LockFrame
      OBVIOUS
    <2>2. f \in Frames /\ f.kind = "lock" /\ ~ f.user /\ "lock" \in Locking /\ S # <<>> /\ PushFrame(c, f)
      BY <1>2, <1>6, <2>1 DEF LockCpu, LockFrame, Activation, Frames, Locking
    <2>4. PICK s \in Seq(Frames) :
            /\ kstack' = [kstack EXCEPT ![running[c]] = s]
            /\ StackSound(s) /\ s # <<>> /\ (running[c] \in IdleThread => s[1].kind = "base")
            /\ LocksOn(s) = LocksOn(S) + 1
      BY <1>1, <2>2, Pushes
    <2>5. /\ UNCHANGED <<running, gs, rsp0, state, stopIPI>>
          /\ flag' = [flag EXCEPT ![c] = flag[c] /\ count[c] # 0] /\ count' = [count EXCEPT ![c] = count[c] + 1]
      BY <1>6 DEF LockCpu
    <2>6. flag' \in [IsrCpu -> BOOLEAN] /\ count' \in [IsrCpu -> Nat]
      BY <1>0, <1>2, <2>5
    <2>7. /\ ~ flag'[c] /\ count'[c] = LocksOn(s) /\ count'[c] # 0
          /\ \A d \in IsrCpu : d # c => (flag'[d] <=> flag[d]) /\ count'[d] = count[d]
      <3>1. flag[c] \in BOOLEAN /\ ~ (flag[c] /\ count[c] # 0)
        BY <1>0, <1>2
      <3>2. flag'[c] <=> flag[c] /\ count[c] # 0
        BY <1>0, <2>5, <3>1
      <3>3. count'[c] = LocksOn(s) /\ count'[c] # 0
        BY <1>0, <1>2, <2>4, <2>5
      <3>4. \A d \in IsrCpu : d # c => (flag'[d] <=> flag[d]) /\ count'[d] = count[d]
        BY <1>0, <2>5
      <3> QED BY <3>1, <3>2, <3>3, <3>4
    <2> QED BY <1>0, <1>2, <2>2, <2>4, <2>5, <2>6, <2>7, StackStep
  <1>7. CASE Syscall(c)
    <2>1. PICK f : f = Activation("sys", TRUE, TRUE)
      OBVIOUS
    <2>2. f \in Frames /\ f.kind = "sys" /\ f.user /\ "sys" \notin Locking /\ S = <<>> /\ PushFrame(c, f)
      BY <1>2, <1>7, <2>1 DEF Syscall, Activation, Frames, Locking
    <2>4. PICK s \in Seq(Frames) :
            /\ kstack' = [kstack EXCEPT ![running[c]] = s]
            /\ StackSound(s) /\ s # <<>> /\ (running[c] \in IdleThread => s[1].kind = "base")
            /\ LocksOn(s) = LocksOn(S)
      <3>1. /\ f.user <=> Stack(c) = <<>> /\ f.kind # "base"
            /\ f.kind \in {"base", "sys"} => Stack(c) = <<>>
            /\ f.kind # "lock" /\ f.kind \notin {"irq", "exc"} /\ f.kind # "irq"
        BY <1>1, <2>2
      <3>2. PICK s \in Seq(Frames) :
              /\ kstack' = [kstack EXCEPT ![running[c]] = s]
              /\ StackSound(s) /\ s # <<>> /\ (running[c] \in IdleThread => s[1].kind = "base")
              /\ LocksOn(s) = LocksOn(Stack(c)) + (IF f.kind \in Locking THEN 1 ELSE 0)
              /\ LocksOn(Stack(c)) \in Nat
        BY <2>2, <3>1, Pushes
      <3>3. LocksOn(s) = LocksOn(Stack(c)) + 0
        <4>1. f.kind \notin Locking
          BY <2>2
        <4> QED BY <3>2, <4>1
      <3>4. LocksOn(Stack(c)) + 0 = LocksOn(Stack(c))
        BY <3>2
      <3>5. LocksOn(s) = LocksOn(S)
        BY <1>1, <3>3, <3>4
      <3> QED BY <3>2, <3>5
    <2>5. UNCHANGED <<running, flag, count, rsp0, state, stopIPI>> /\ gs' = [gs EXCEPT ![c] = "kernel"]
      BY <1>7 DEF Syscall
    <2>6. gs' \in [IsrCpu -> {"kernel", "user"}] /\ gs'[c] = "kernel" /\ \A d \in IsrCpu : d # c => gs'[d] = gs[d]
      BY <1>0, <2>5
    <2> QED BY <1>0, <1>2, <2>4, <2>5, <2>6, StackStep
  <1> QED BY <1>4, <1>5, <1>6, <1>7

(* Leaving: unlocking, the end of a handler or of a system call, and the  *)
(* first return to user code.                                              *)
LEMMA LeaveStep ==
  ASSUME IsrInv, NEW c \in IsrCpu, state[c] = "run",
         UnlockCpu(c) \/ IsrLeave(c) \/ Sysret(c) \/ StartUserCode(c)
  PROVE  IsrInv'
  <1>0. /\ kstack \in [IsrThread -> Seq(Frames)] /\ running \in [IsrCpu -> IsrThread]
        /\ gs \in [IsrCpu -> {"kernel", "user"}] /\ flag \in [IsrCpu -> BOOLEAN]
        /\ count \in [IsrCpu -> Nat] /\ rsp0 \in [IsrCpu -> IsrThread]
        /\ state \in [IsrCpu -> {"run", "reboot", "stopped"}] /\ stopIPI \in SUBSET IsrCpu
    BY DEF IsrInv, IsrTypeOK
  <1>1. PICK S, f : S = Stack(c) /\ f = TopFrame(c)
    OBVIOUS
  <1>2. /\ count[c] = LocksOn(S) /\ (flag[c] <=> LocksOn(S) = 0) /\ count[c] \in Nat
        /\ (InUser(c) <=> S = <<>>) /\ f = S[Len(S)] /\ S \in Seq(Frames) /\ StackSound(S)
        /\ (S # <<>> => FrameSound(S, Len(S)) /\ f \in Frames)
        /\ (running[c] \in IdleThread => S[1].kind = "base") /\ (S # <<>> => gs[c] = "kernel")
        /\ running[c] \in IsrThread
    BY <1>1, UpFacts
  <1>3. S # <<>> /\ PopFrame(c) /\ running' = running /\ state' = state /\ stopIPI' = stopIPI
    <2>1. CASE StartUserCode(c)
      BY <1>1, <2>1 DEF StartUserCode
    <2>2. CASE UnlockCpu(c) \/ IsrLeave(c) \/ Sysret(c)
      BY <1>1, <1>2, <2>2 DEF UnlockCpu, IsrLeave, Sysret, TopIs
    <2> QED BY <2>1, <2>2
  <1>4. Len(S) \in Nat /\ Len(S) >= 1
    BY <1>2, <1>3, PopIs
  <1>5. running[c] \in IdleThread => Len(S) # 1
    <2>1. SUFFICES ASSUME running[c] \in IdleThread, Len(S) = 1 PROVE FALSE
      OBVIOUS
    <2>2. f.kind = "base"
      BY <1>2, <2>1
    <2>3. CASE StartUserCode(c)
      BY <2>1, <2>3, IsrAssumption DEF StartUserCode
    <2>4. CASE UnlockCpu(c) \/ IsrLeave(c) \/ Sysret(c)
      BY <1>1, <2>2, <2>4 DEF UnlockCpu, IsrLeave, Sysret, TopIs
    <2> QED BY <2>3, <2>4
  <1>6. PICK s \in Seq(Frames) :
          /\ kstack' = [kstack EXCEPT ![running[c]] = s]
          /\ StackSound(s) /\ (running[c] \in IdleThread => s # <<>> /\ s[1].kind = "base")
          /\ LocksOn(s) = LocksOn(S) - (IF f.kind \in Locking THEN 1 ELSE 0)
          /\ LocksOn(s) \in Nat /\ (s = <<>> <=> Len(S) = 1)
          /\ LocksOn(s) = 0 <=> \A j \in 1 .. Len(S) - 1 : S[j].kind \notin Locking
    BY <1>1, <1>3, <1>5, Pops
  <1>7. CASE UnlockCpu(c)
    <2>1. /\ UNCHANGED <<running, gs, rsp0, state, stopIPI>>
          /\ count' = [count EXCEPT ![c] = count[c] - 1]
          /\ flag' = [flag EXCEPT ![c] = flag[c] \/ count[c] = 1] /\ f.kind = "lock" /\ "lock" \in Locking
      BY <1>1, <1>7 DEF UnlockCpu, TopIs, Locking
    <2>2. s # <<>>
      BY <1>2, <1>3, <1>6, <2>1 DEF FrameSound
    <2>3. LocksOn(s) = count[c] - 1 /\ count[c] - 1 \in Nat
      <3>1. LocksOn(s) = LocksOn(S) - 1
        BY <1>6, <2>1
      <3> QED BY <1>2, <1>6, <3>1
    <2>4. count' \in [IsrCpu -> Nat] /\ count'[c] = LocksOn(s) /\ (\A d \in IsrCpu : d # c => count'[d] = count[d])
      BY <1>0, <2>1, <2>3
    <2>5. PICK b \in BOOLEAN : b <=> flag[c] \/ count[c] = 1
      OBVIOUS
    <2>6. flag' = [flag EXCEPT ![c] = b]
      <3>1. (flag[c] \/ count[c] = 1) = b
        BY <1>0, <2>5
      <3> QED BY <2>1, <3>1
    <2>7. flag' \in [IsrCpu -> BOOLEAN] /\ (flag'[c] <=> b) /\ (\A d \in IsrCpu : d # c => (flag'[d] <=> flag[d]))
      BY <1>0, <2>6
    <2>8. b <=> LocksOn(s) = 0
      BY <1>2, <2>3, <2>5
    <2>9. /\ s = <<>> => gs'[c] = "user" /\ rsp0'[c] = running[c]
          /\ s # <<>> => gs'[c] = "kernel"
          /\ count'[c] = LocksOn(s)
          /\ flag'[c] <=> count'[c] = 0
      BY <1>2, <1>3, <2>1, <2>2, <2>4, <2>7, <2>8
    <2>10. \A d \in IsrCpu : d # c =>
            /\ gs'[d] = gs[d] /\ (flag'[d] <=> flag[d]) /\ count'[d] = count[d] /\ rsp0'[d] = rsp0[d]
            /\ state'[d] = state[d]
      BY <2>1, <2>4, <2>7
    <2>11. gs' \in [IsrCpu -> {"kernel", "user"}] /\ rsp0' \in [IsrCpu -> IsrThread]
           /\ state' \in [IsrCpu -> {"run", "reboot", "stopped"}] /\ stopIPI' \in SUBSET IsrCpu
      BY <1>0, <2>1
    <2> QED BY <1>3, <1>6, <2>4, <2>7, <2>9, <2>10, <2>11, StackStep
  <1>8. CASE IsrLeave(c)
    <2>1. /\ count' = [count EXCEPT ![c] = count[c] - 1] /\ flag' = [flag EXCEPT ![c] = f.flag]
          /\ f.kind \in {"irq", "exc"} /\ f.kind \in Locking
      BY <1>1, <1>8 DEF IsrLeave, TopIs, Locking
    <2>2. f.user <=> s = <<>>
      BY <1>2, <1>3, <1>4, <1>6, <2>1 DEF FrameSound
    <2>3. f.flag <=> LocksOn(s) = 0
      BY <1>2, <1>3, <1>6, <2>1 DEF FrameSound
    <2>4. LocksOn(s) = count[c] - 1 /\ count[c] - 1 \in Nat
      <3>1. LocksOn(s) = LocksOn(S) - 1
        BY <1>6, <2>1
      <3> QED BY <1>2, <1>6, <3>1
    <2>5. count' \in [IsrCpu -> Nat] /\ count'[c] = LocksOn(s) /\ (\A d \in IsrCpu : d # c => count'[d] = count[d])
      BY <1>0, <2>1, <2>4
    <2>6. f.flag \in BOOLEAN
      BY <1>2, <1>3 DEF Frames
    <2>7. flag' \in [IsrCpu -> BOOLEAN] /\ (flag'[c] <=> f.flag) /\ (\A d \in IsrCpu : d # c => (flag'[d] <=> flag[d]))
      BY <1>0, <2>1, <2>6
    <2>8. /\ gs' \in [IsrCpu -> {"kernel", "user"}] /\ rsp0' \in [IsrCpu -> IsrThread]
          /\ s = <<>> => gs'[c] = "user" /\ rsp0'[c] = running[c]
          /\ s # <<>> => gs'[c] = "kernel"
          /\ \A d \in IsrCpu : d # c => gs'[d] = gs[d] /\ rsp0'[d] = rsp0[d]
      <3>1. CASE f.user
        <4>1. gs' = [gs EXCEPT ![c] = "user"] /\ rsp0' = [rsp0 EXCEPT ![c] = running[c]]
          BY <1>1, <1>8, <3>1 DEF IsrLeave, SetKernelStack
        <4> QED BY <1>0, <1>2, <2>2, <3>1, <4>1
      <3>2. CASE ~ f.user
        <4>1. gs' = gs /\ rsp0' = rsp0
          BY <1>1, <1>8, <3>2 DEF IsrLeave
        <4> QED BY <1>0, <1>2, <1>3, <2>2, <3>2, <4>1
      <3> QED BY <3>1, <3>2
    <2>9. /\ s = <<>> => gs'[c] = "user" /\ rsp0'[c] = running[c]
          /\ s # <<>> => gs'[c] = "kernel"
          /\ count'[c] = LocksOn(s)
          /\ flag'[c] <=> count'[c] = 0
      BY <2>3, <2>5, <2>7, <2>8
    <2>10. \A d \in IsrCpu : d # c =>
            /\ gs'[d] = gs[d] /\ (flag'[d] <=> flag[d]) /\ count'[d] = count[d] /\ rsp0'[d] = rsp0[d]
            /\ state'[d] = state[d]
      BY <1>3, <2>5, <2>7, <2>8
    <2>11. state' \in [IsrCpu -> {"run", "reboot", "stopped"}] /\ stopIPI' \in SUBSET IsrCpu
      BY <1>0, <1>3
    <2> QED BY <1>3, <1>6, <2>5, <2>7, <2>8, <2>9, <2>10, <2>11, StackStep
  <1>9. CASE Sysret(c) \/ StartUserCode(c)
    <2>1. /\ gs' = [gs EXCEPT ![c] = "user"] /\ rsp0' = [rsp0 EXCEPT ![c] = running[c]] /\ count' = count
          /\ flag' = flag \/ flag' = [flag EXCEPT ![c] = TRUE]
      BY <1>9 DEF Sysret, StartUserCode
    <2>2. f.kind \in {"base", "sys"} /\ f.kind \notin Locking
      <3>1. CASE Sysret(c)
        BY <1>1, <3>1 DEF Sysret, TopIs, Locking
      <3>2. CASE StartUserCode(c)
        <4>1. S = <<Base>> /\ f = S[Len(S)]
          BY <1>1, <1>2, <3>2 DEF StartUserCode
        <4>2. f = Base
          BY <4>1
        <4> QED BY <4>2 DEF Base, Activation, Locking
      <3> QED BY <1>9, <3>1, <3>2
    <2>3. Len(S) = 1 /\ s = <<>>
      BY <1>2, <1>3, <1>6, <2>2 DEF FrameSound
    <2>4. LocksOn(s) = 0
      BY <1>6, <2>3, <1>4
    <2>5. LocksOn(S) = 0
      <3>1. LocksOn(s) = LocksOn(S) - 0
        BY <1>6, <2>2
      <3> QED BY <1>2, <2>4, <3>1
    <2>6. flag[c] /\ count[c] = 0
      BY <1>2, <2>5
    <2>7. flag' \in [IsrCpu -> BOOLEAN] /\ flag'[c] /\ (\A d \in IsrCpu : d # c => (flag'[d] <=> flag[d]))
      BY <1>0, <2>1, <2>6
    <2>8. /\ gs' \in [IsrCpu -> {"kernel", "user"}] /\ rsp0' \in [IsrCpu -> IsrThread]
          /\ gs'[c] = "user" /\ rsp0'[c] = running[c]
          /\ \A d \in IsrCpu : d # c => gs'[d] = gs[d] /\ rsp0'[d] = rsp0[d]
      BY <1>0, <1>2, <2>1
    <2>9. /\ s = <<>> => gs'[c] = "user" /\ rsp0'[c] = running[c]
          /\ s # <<>> => gs'[c] = "kernel"
          /\ count'[c] = LocksOn(s)
          /\ flag'[c] <=> count'[c] = 0
      BY <2>1, <2>3, <2>4, <2>6, <2>7, <2>8
    <2>10. \A d \in IsrCpu : d # c =>
            /\ gs'[d] = gs[d] /\ (flag'[d] <=> flag[d]) /\ count'[d] = count[d] /\ rsp0'[d] = rsp0[d]
            /\ state'[d] = state[d]
      BY <1>3, <2>1, <2>7, <2>8
    <2>11. state' \in [IsrCpu -> {"run", "reboot", "stopped"}] /\ stopIPI' \in SUBSET IsrCpu
           /\ count' \in [IsrCpu -> Nat]
      BY <1>0, <1>3, <2>1
    <2> QED BY <1>3, <1>6, <2>7, <2>8, <2>9, <2>10, <2>11, StackStep
  <1> QED BY <1>7, <1>8, <1>9
(* One handler above activations that lock nothing locks once.             *)
LEMMA OneHandler ==
  ASSUME NEW S \in Seq(Frames), S # <<>>, S[Len(S)].kind = "irq",
         \A j \in 1 .. Len(S) - 1 : S[j].kind \notin Locking
  PROVE  LocksOn(S) = 1
  <1>1. PICK s : s = Lowered(S)
    OBVIOUS
  <1>2. s \in Seq(Frames) /\ Len(s) = Len(S) - 1 /\ Len(S) \in Nat /\ (\A i \in 1 .. Len(S) - 1 : s[i] = S[i])
    BY <1>1, PopIs
  <1>3. LocksOn(s) = 0
    <2>1. \A i \in 1 .. Len(s) : s[i].kind \notin Locking
      BY <1>2
    <2> QED BY <1>2, <2>1, LocksCounted
  <1>4. LocksOn(s) = LocksOn(S) - 1
    <2>1. S[Len(S)].kind \in Locking
      BY DEF Locking
    <2>2. LocksOn(s) = LocksOn(S) - (IF S[Len(S)].kind \in Locking THEN 1 ELSE 0)
      BY <1>1, LocksPopped
    <2> QED BY <2>1, <2>2
  <1>5. LocksOn(S) \in Nat
    BY LocksCounted
  <1> QED BY <1>3, <1>4, <1>5

(* A processor that stops keeps its thread, which so never runs again.     *)
LEMMA StopStep ==
  ASSUME IsrInv, NEW c \in IsrCpu, state[c] = "run", Stop(c)
  PROVE  IsrInv'
  <1>0. /\ kstack \in [IsrThread -> Seq(Frames)] /\ running \in [IsrCpu -> IsrThread]
        /\ gs \in [IsrCpu -> {"kernel", "user"}] /\ flag \in [IsrCpu -> BOOLEAN]
        /\ count \in [IsrCpu -> Nat] /\ rsp0 \in [IsrCpu -> IsrThread]
        /\ state \in [IsrCpu -> {"run", "reboot", "stopped"}] /\ stopIPI \in SUBSET IsrCpu
    BY DEF IsrInv, IsrTypeOK
  <1>1. PICK s : s = kstack[running[c]]
    OBVIOUS
  <1>2. s \in Seq(Frames) /\ StackSound(s) /\ (running[c] \in IdleThread => s # <<>> /\ s[1].kind = "base")
    BY <1>1, UpFacts
  <1>3. /\ kstack' = kstack /\ running' = running /\ gs' = gs /\ count' = count /\ rsp0' = rsp0
        /\ flag' = [flag EXCEPT ![c] = FALSE] /\ state' = [state EXCEPT ![c] = "stopped"]
        /\ stopIPI' \in SUBSET IsrCpu
    BY <1>0 DEF Stop
  <1>4. kstack' = [kstack EXCEPT ![running[c]] = s]
    BY <1>0, <1>1, <1>3
  <1>5. /\ flag' \in [IsrCpu -> BOOLEAN] /\ state' \in [IsrCpu -> {"run", "reboot", "stopped"}]
        /\ state'[c] # "run" /\ \A d \in IsrCpu : d # c => (flag'[d] <=> flag[d]) /\ state'[d] = state[d]
    BY <1>0, <1>3
  <1> QED BY <1>0, <1>2, <1>3, <1>4, <1>5, StackStep

(* A switch: both the thread that leaves and the one that comes are in the *)
(* kernel with preemption disabled once, so the lock count, the interrupt  *)
(* flag and the %gs base of the processor are right for the other one.     *)
LEMMA SwitchStep ==
  ASSUME IsrInv, NEW c \in IsrCpu, state[c] = "run", NEW t \in IsrThread, Switch(c, t)
  PROVE  IsrInv'
  <1>0. /\ IsrTypeOK /\ ThreadsInv /\ (\A d \in IsrCpu : CpuAt(d)) /\ kstack \in [IsrThread -> Seq(Frames)]
        /\ running \in [IsrCpu -> IsrThread] /\ IdleThread \subseteq IsrThread
    BY DEF IsrInv, IsrTypeOK, IsrThread
  <1>1. PICK S, f, u : S = Stack(c) /\ f = TopFrame(c) /\ u = running[c]
    OBVIOUS
  <1>2. /\ count[c] = LocksOn(S) /\ (flag[c] <=> LocksOn(S) = 0) /\ S = kstack[u] /\ S \in Seq(Frames)
        /\ (InUser(c) <=> S = <<>>) /\ f = S[Len(S)] /\ StackSound(S) /\ u \in IsrThread
        /\ (S # <<>> => FrameSound(S, Len(S)) /\ gs[c] = "kernel")
    BY <1>1, UpFacts
  <1>3. S # <<>>
    BY <1>2 DEF Switch, MayBlock, TopIs
  <1>4. LocksOn(S) = 1
    <2>1. CASE MayBlock(c)
      BY <1>2, <2>1 DEF MayBlock
    <2>2. CASE TopIs(c, {"irq"})
      <3>1. f.kind = "irq" /\ f.kind \in Locking
        BY <1>1, <2>2 DEF TopIs, Locking
      <3>2. \A j \in 1 .. Len(S) - 1 : S[j].kind \notin Locking
        BY <1>2, <1>3, <3>1 DEF FrameSound
      <3> QED BY <1>2, <1>3, <3>1, <3>2, OneHandler
    <2> QED BY <2>1, <2>2 DEF Switch
  <1>5. /\ \A d \in IsrCpu : running[d] # t
        /\ running' = [running EXCEPT ![c] = t]
        /\ UNCHANGED <<gs, flag, count, rsp0, state, stopIPI>>
        /\ \/ kstack' = kstack
           \/ u \in UserThread /\ kstack' = [kstack EXCEPT ![u] = NewStack]
    BY <1>1 DEF Switch
  <1>6. Resting(t) /\ t # u /\ kstack[t] # <<>> /\ LocksOn(kstack[t]) = 1
    BY <1>0, <1>1, <1>5 DEF Resting, ThreadsInv, LocksOf
  <1>7. /\ NewStack \in Seq(Frames) /\ NewStack # <<>> /\ StackSound(NewStack) /\ LocksOn(NewStack) = 1
    BY NewStackSound
  <1>8. /\ kstack' \in [IsrThread -> Seq(Frames)]
        /\ \A v \in IsrThread : v # u => kstack'[v] = kstack[v]
        /\ kstack'[u] # <<>> /\ StackSound(kstack'[u]) /\ LocksOn(kstack'[u]) = 1
        /\ u \in IdleThread => kstack'[u] = kstack[u]
    <2>1. CASE kstack' = kstack
      BY <1>0, <1>2, <1>3, <1>4, <2>1
    <2>2. CASE u \in UserThread /\ kstack' = [kstack EXCEPT ![u] = NewStack]
      <3>1. kstack'[u] = NewStack /\ u \notin IdleThread
        BY <1>0, <1>2, <2>2, IsrAssumption
      <3> QED BY <1>0, <1>2, <1>7, <2>2, <3>1
    <2> QED BY <1>5, <2>1, <2>2
  <1>9. running' \in [IsrCpu -> IsrThread] /\ running'[c] = t /\ (\A d \in IsrCpu : d # c => running'[d] = running[d])
    BY <1>0, <1>5
  <1>10. IsrTypeOK'
    BY <1>0, <1>5, <1>8, <1>9 DEF IsrTypeOK
  <1>11. ThreadsInv'
    <2>1. \A v \in IsrThread : StackSound(kstack'[v])
      BY <1>0, <1>8 DEF ThreadsInv
    <2>2. \A v \in IdleThread : kstack'[v] # <<>> /\ kstack'[v][1].kind = "base"
      BY <1>0, <1>8 DEF ThreadsInv
    <2>3. \A d, e \in IsrCpu : running'[d] = running'[e] => d = e
      BY <1>0, <1>5, <1>9 DEF ThreadsInv
    <2>4. ASSUME NEW v \in IsrThread, Resting(v)' PROVE kstack'[v] # <<>> /\ LocksOn(kstack'[v]) = 1
      <3>1. CASE v = u
        BY <1>8, <3>1
      <3>2. CASE v # u
        <4>1. Resting(v)
          BY <1>1, <1>9, <2>4, <3>2 DEF Resting
        <4>2. kstack[v] # <<>> /\ LocksOn(kstack[v]) = 1
          BY <1>0, <4>1 DEF ThreadsInv, LocksOf
        <4> QED BY <1>8, <3>2, <4>2
      <3> QED BY <3>1, <3>2
    <2> QED BY <2>1, <2>2, <2>3, <2>4 DEF ThreadsInv, LocksOf
  <1>12. ASSUME NEW d \in IsrCpu PROVE CpuAt(d)'
    <2>1. CASE d = c
      <3>1. kstack'[running'[d]] = kstack[t] /\ count'[d] = 1 /\ ~ flag'[d] /\ gs'[d] = "kernel"
        BY <1>2, <1>3, <1>4, <1>5, <1>6, <1>8, <1>9, <2>1
      <3> QED BY <1>6, <3>1 DEF CpuAt, InUser, Stack, LocksOf
    <2>2. CASE d # c
      <3>1. running'[d] = running[d] /\ running[d] # u /\ running[d] \in IsrThread
        BY <1>0, <1>1, <1>9, <2>2 DEF ThreadsInv
      <3>2. kstack'[running'[d]] = kstack[running[d]]
        BY <1>8, <3>1
      <3>3. CpuAt(d)
        BY <1>0
      <3> QED BY <1>5, <3>1, <3>2, <3>3 DEF CpuAt, InUser, Stack, LocksOf
    <2> QED BY <2>1, <2>2
  <1> QED BY <1>10, <1>11, <1>12 DEF IsrInv

LEMMA IsrStep ==
  ASSUME IsrInv, [IsrNext]_isrVars
  PROVE  IsrInv'
  <1>1. CASE UNCHANGED isrVars
    BY <1>1 DEF isrVars, IsrInv, IsrTypeOK, ThreadsInv, CpuAt, Resting, LocksOf, InUser, Stack
  <1>2. ASSUME NEW c \in IsrCpu, CpuStep(c) PROVE IsrInv'
    <2>1. state[c] = "run"
      BY <1>2 DEF CpuStep
    <2>2. CASE LockCpu(c) \/ Irq(c) \/ IsrPageFault(c) \/ Fatal(c) \/ Syscall(c)
      BY <2>1, <2>2, EnterStep
    <2>3. CASE UnlockCpu(c) \/ IsrLeave(c) \/ Sysret(c) \/ StartUserCode(c)
      BY <2>1, <2>3, LeaveStep
    <2>4. CASE \E t \in IsrThread : Switch(c, t)
      BY <2>1, <2>4, SwitchStep
    <2>5. CASE Stop(c)
      BY <2>1, <2>5, StopStep
    <2> QED BY <1>2, <2>2, <2>3, <2>4, <2>5 DEF CpuStep
  <1> QED BY <1>1, <1>2 DEF IsrNext, AllStopped

(* What the invariant says at the border and inside a handler.             *)
LEMMA IsrInvSound ==
  ASSUME IsrInv
  PROVE  IsrSound
  <1>1. ASSUME NEW c \in IsrCpu, state[c] = "run"
        PROVE  /\ InUser(c) => gs[c] = "user" /\ rsp0[c] = running[c] /\ count[c] = 0 /\ flag[c]
               /\ ~InUser(c) => gs[c] = "kernel"
               /\ count[c] = LocksOf(running[c])
               /\ flag[c] <=> count[c] = 0
               /\ TopIs(c, {"irq"}) => count[c] = 1
    <2>1. PICK S, f : S = Stack(c) /\ f = TopFrame(c)
      OBVIOUS
    <2>2. /\ count[c] = LocksOn(S) /\ (flag[c] <=> LocksOn(S) = 0) /\ S = kstack[running[c]] /\ S \in Seq(Frames)
          /\ (InUser(c) <=> S = <<>>) /\ f = S[Len(S)]
          /\ (S = <<>> => gs[c] = "user" /\ rsp0[c] = running[c])
          /\ (S # <<>> => FrameSound(S, Len(S)) /\ gs[c] = "kernel")
      BY <1>1, <2>1, UpFacts
    <2>3. InUser(c) => LocksOn(S) = 0
      <3>1. ASSUME S = <<>> PROVE \A i \in 1 .. Len(S) : S[i].kind \notin Locking
        BY <3>1
      <3> QED BY <2>2, <3>1, LocksCounted
    <2>4. ASSUME TopIs(c, {"irq"}) PROVE LocksOn(S) = 1
      <3>1. f.kind = "irq" /\ S # <<>>
        BY <2>1, <2>2, <2>4 DEF TopIs
      <3>2. \A j \in 1 .. Len(S) - 1 : S[j].kind \notin Locking
        BY <2>2, <3>1 DEF FrameSound
      <3> QED BY <2>2, <3>1, <3>2, OneHandler
    <2> QED BY <2>2, <2>3, <2>4 DEF LocksOf
  <1> QED BY <1>1 DEF IsrSound, BorderSound, LockCountTrue, Up

(* At the border of the kernel each processor has the %gs base, the kernel *)
(* stack, the interrupt flag and the lock count the next entry needs, for  *)
(* any number of processors and threads and any depth of nested handlers   *)
(* (Machine.cc IsrEntry, syscall_wrapper.S, Processor.h).                  *)
THEOREM KernelEntrySound == IsrSpec => []IsrSound
  <1>1. IsrInit => IsrInv
    BY IsrInvInit
  <1>2. IsrInv /\ [IsrNext]_isrVars => IsrInv'
    BY IsrStep
  <1>3. IsrInv => IsrSound
    BY IsrInvSound
  <1> QED BY <1>1, <1>2, <1>3, PTL DEF IsrSpec

-----------------------------------------------------------------------------
(***************************************************************************)
(* The kernel heap and the kernel address space (module KernelHeap).       *)
(***************************************************************************)
(* A list of segments that is made from a set, extended or shortened.      *)
LEMMA SetToList ==
  ASSUME NEW S, IsFiniteSet(S)
  PROVE  SetToSeq(S) \in Seq(S) /\ ToSet(SetToSeq(S)) = S /\ IsInjective(SetToSeq(S))
  <1>1. PICK n : n = Cardinality(S)
    OBVIOUS
  <1>2. n \in Nat /\ ExistsBijection(1 .. n, S)
    BY <1>1, FS_CardinalityType
  <1>3. \E f \in [1 .. n -> S] : IsInjective(f)
    BY <1>2 DEF ExistsBijection, Bijection, Injection
  <1>4. PICK f : f = SetToSeq(S)
    OBVIOUS
  <1>5. f \in [1 .. n -> S] /\ IsInjective(f)
    BY <1>1, <1>3, <1>4 DEF SetToSeq
  <1>6. f \in Injection(1 .. n, S)
    BY <1>5 DEF Injection
  <1>7. IsFiniteSet(1 .. n) /\ Cardinality(1 .. n) = n
    BY <1>2, FS_Interval
  <1>8. f \in Surjection(1 .. n, S)
    BY <1>1, <1>6, <1>7, FS_Injection
  <1>9. f \in Seq(S)
    BY <1>2, <1>5
  <1>10. ToSet(f) = S
    BY <1>5, <1>8 DEF Surjection, ToSet
  <1> QED BY <1>4, <1>5, <1>9, <1>10

LEMMA TailList ==
  ASSUME NEW S, NEW s \in Seq(S), s # <<>>, IsInjective(s)
  PROVE  /\ Head(s) \in S /\ Tail(s) \in Seq(S) /\ IsInjective(Tail(s))
         /\ ToSet(s) = {Head(s)} \cup ToSet(Tail(s)) /\ Head(s) \notin ToSet(Tail(s))
  <1>1. PICK t, h : t = Tail(s) /\ h = Head(s)
    OBVIOUS
  <1>2. /\ t \in Seq(S) /\ Len(t) = Len(s) - 1 /\ Len(s) \in Nat /\ Len(s) >= 1 /\ h \in S /\ h = s[1]
        /\ \A i \in 1 .. Len(t) : t[i] = s[i + 1]
    BY <1>1, HeadTailProperties
  <1>3. DOMAIN s = 1 .. Len(s) /\ DOMAIN t = 1 .. Len(s) - 1 /\ \A i \in 1 .. Len(s) - 1 : t[i] = s[i + 1]
    BY <1>2
  <1>4. IsInjective(t)
    <2>1. \A i, j \in 1 .. Len(s) : s[i] = s[j] => i = j
      BY <1>3 DEF IsInjective
    <2>2. ASSUME NEW i \in 1 .. Len(s) - 1, NEW j \in 1 .. Len(s) - 1, t[i] = t[j] PROVE i = j
      <3>1. i + 1 \in 1 .. Len(s) /\ j + 1 \in 1 .. Len(s) /\ s[i + 1] = s[j + 1]
        BY <1>2, <1>3, <2>2
      <3>2. i + 1 = j + 1
        BY <2>1, <3>1
      <3> QED BY <1>2, <3>2
    <2> QED BY <1>3, <2>2 DEF IsInjective
  <1>5. h \notin ToSet(t)
    BY <1>2, <1>3 DEF IsInjective, ToSet
  <1>6. ToSet(s) = {h} \cup ToSet(t)
    <2>1. ASSUME NEW x \in ToSet(s) PROVE x \in {h} \cup ToSet(t)
      <3>1. PICK i \in 1 .. Len(s) : x = s[i]
        BY <1>3, <2>1 DEF ToSet
      <3>2. CASE i = 1
        BY <1>2, <3>1, <3>2
      <3>3. CASE i # 1
        <4>1. i - 1 \in DOMAIN t /\ t[i - 1] = s[i]
          BY <1>2, <1>3, <3>1, <3>3
        <4> QED BY <3>1, <4>1 DEF ToSet
      <3> QED BY <3>2, <3>3
    <2>2. ASSUME NEW x \in {h} \cup ToSet(t) PROVE x \in ToSet(s)
      <3>1. CASE x = h
        BY <1>2, <1>3, <3>1 DEF ToSet
      <3>2. CASE x \in ToSet(t)
        <4>1. PICK i \in 1 .. Len(s) - 1 : x = s[i + 1]
          BY <1>3, <3>2 DEF ToSet
        <4>2. i + 1 \in DOMAIN s
          BY <1>2, <1>3, <4>1
        <4> QED BY <4>1, <4>2 DEF ToSet
      <3> QED BY <2>2, <3>1, <3>2
    <2> QED BY <2>1, <2>2
  <1> QED BY <1>1, <1>2, <1>4, <1>5, <1>6

LEMMA JoinedLists ==
  ASSUME NEW S, NEW s \in Seq(S), NEW t \in Seq(S), IsInjective(s), IsInjective(t),
         ToSet(s) \cap ToSet(t) = {}
  PROVE  s \o t \in Seq(S) /\ IsInjective(s \o t) /\ ToSet(s \o t) = ToSet(s) \cup ToSet(t)
  <1>1. PICK q, m, n : q = s \o t /\ m = Len(s) /\ n = Len(t)
    OBVIOUS
  <1>2. /\ q \in Seq(S) /\ m \in Nat /\ n \in Nat /\ Len(q) = m + n
        /\ DOMAIN s = 1 .. m /\ DOMAIN t = 1 .. n /\ DOMAIN q = 1 .. m + n
        /\ \A i \in 1 .. m + n : q[i] = IF i <= m THEN s[i] ELSE t[i - m]
    <2>1. m \in Nat /\ n \in Nat /\ DOMAIN s = 1 .. m /\ DOMAIN t = 1 .. n
      BY <1>1
    <2>2. q \in Seq(S) /\ Len(q) = m + n /\ \A i \in 1 .. m + n : q[i] = IF i <= m THEN s[i] ELSE t[i - m]
      BY <1>1, ConcatProperties
    <2> QED BY <2>1, <2>2
  <1>3. /\ \A i \in 1 .. m : q[i] = s[i] /\ s[i] \in ToSet(s)
        /\ \A i \in 1 .. m + n : i > m => i - m \in 1 .. n /\ q[i] = t[i - m] /\ t[i - m] \in ToSet(t)
    <2>1. \A i \in 1 .. m : i \in 1 .. m + n /\ i <= m
      BY <1>2
    <2>2. \A i \in 1 .. m : q[i] = s[i]
      BY <1>2, <2>1
    <2>3. \A i \in 1 .. m + n : i > m => i - m \in 1 .. n /\ ~ (i <= m)
      BY <1>2
    <2>4. \A i \in 1 .. m + n : i > m => q[i] = t[i - m]
      BY <1>2, <2>3
    <2> QED BY <1>2, <2>2, <2>3, <2>4 DEF ToSet
  <1>4. ASSUME NEW i \in 1 .. m + n, NEW j \in 1 .. m + n, q[i] = q[j] PROVE i = j
    <2>0. /\ \A a, b \in 1 .. m : s[a] = s[b] => a = b
          /\ \A a, b \in 1 .. n : t[a] = t[b] => a = b
      BY <1>2 DEF IsInjective
    <2>1. CASE i <= m /\ j <= m
      <3>1. i \in 1 .. m /\ j \in 1 .. m
        BY <1>2, <2>1
      <3>2. s[i] = s[j]
        BY <1>3, <1>4, <3>1
      <3> QED BY <2>0, <3>1, <3>2
    <2>2. CASE i > m /\ j > m
      <3>1. i - m \in 1 .. n /\ j - m \in 1 .. n /\ t[i - m] = t[j - m]
        BY <1>3, <1>4, <2>2
      <3>2. i - m = j - m
        BY <2>0, <3>1
      <3> QED BY <1>2, <3>2
    <2>3. CASE i <= m /\ j > m
      BY <1>2, <1>3, <1>4, <2>3
    <2>4. CASE i > m /\ j <= m
      BY <1>2, <1>3, <1>4, <2>4
    <2> QED BY <1>2, <2>1, <2>2, <2>3, <2>4
  <1>5. ToSet(q) = ToSet(s) \cup ToSet(t)
    <2>1. ASSUME NEW x \in ToSet(q) PROVE x \in ToSet(s) \cup ToSet(t)
      <3>1. PICK i \in 1 .. m + n : x = q[i]
        BY <1>2, <2>1 DEF ToSet
      <3>2. CASE i <= m
        <4>1. i \in 1 .. m
          BY <1>2, <3>2
        <4> QED BY <1>3, <3>1, <4>1
      <3>3. CASE i > m
        BY <1>3, <3>1, <3>3
      <3> QED BY <1>2, <3>2, <3>3
    <2>2. ASSUME NEW x \in ToSet(s) PROVE x \in ToSet(q)
      <3>1. PICK i \in 1 .. m : x = s[i]
        BY <1>2, <2>2 DEF ToSet
      <3>2. i \in 1 .. m + n /\ q[i] = x
        BY <1>2, <1>3, <3>1
      <3> QED BY <1>2, <3>2 DEF ToSet
    <2>3. ASSUME NEW x \in ToSet(t) PROVE x \in ToSet(q)
      <3>1. PICK i \in 1 .. n : x = t[i]
        BY <1>2, <2>3 DEF ToSet
      <3>2. i + m \in 1 .. m + n /\ i + m > m /\ (i + m) - m = i
        BY <1>2
      <3>3. q[i + m] = t[i]
        BY <1>3, <3>2
      <3> QED BY <1>2, <3>1, <3>2, <3>3 DEF ToSet
    <2> QED BY <2>1, <2>2, <2>3
  <1> QED BY <1>1, <1>2, <1>4, <1>5 DEF IsInjective

-----------------------------------------------------------------------------
LEMMA HeapInvInit == HeapInit => HeapInv
  <1> SUFFICES ASSUME HeapInit PROVE HeapInv
    OBVIOUS
  <1>0. HeapCpu \subseteq Nat \ {0} /\ NoCpu \notin HeapCpu
    BY KernelHeapAssumption DEF NoCpu
  <1>1. PICK e : e = <<>>
    OBVIOUS
  <1>2. e \in Seq(Segment) /\ ToSet(e) = {} /\ IsInjective(e)
    BY <1>1 DEF ToSet, IsInjective
  <1>3. /\ owner = [l \in HeapLocks |-> NoCpu] /\ heapAt = [c \in HeapCpu |-> "out"] /\ mapped = {}
        /\ mallocUnmapList = NoCpu /\ ulist = [c \in HeapCpu |-> e] /\ posting = [c \in HeapCpu |-> {}]
        /\ unmapped = e /\ mdCache = 0 /\ ranges = Segment
    BY <1>1 DEF HeapInit
  <1>4. HeapTypeOK
    BY <1>2, <1>3 DEF HeapTypeOK, Places
  <1>5. \A c \in HeapCpu : Handled(c) = {} /\ ulist[c] = e /\ posting[c] = {} /\ heapAt[c] = "out"
    BY <1>2, <1>3 DEF Handled
  <1>6. PlacedOnce
    BY <1>2, <1>3, <1>5 DEF PlacedOnce
  <1>7. ASSUME NEW c \in HeapCpu PROVE HolderAt(c) /\ UnmapAt(c)
    <2>1. owner["ulock"] # c /\ owner["mallocLock"] # c /\ owner["vlock"] # c
      BY <1>0, <1>3 DEF HeapLocks
    <2> QED BY <1>1, <1>5, <2>1 DEF HolderAt, UnmapAt, Unmapping
  <1> QED BY <1>4, <1>6, <1>7 DEF HeapInv

(* A step of one CPU: its own part of the invariant has to be shown, and   *)
(* for the others that the step takes no lock of theirs and leaves a list  *)
(* that somebody works on alone.                                           *)
LEMMA HeapOthers ==
  ASSUME HeapInv, NEW c \in HeapCpu,
         \A d \in HeapCpu : d # c => heapAt'[d] = heapAt[d] /\ posting'[d] = posting[d] /\ ulist'[d] = ulist[d],
         \A l \in HeapLocks : \A d \in HeapCpu : d # c => (owner'[l] = d <=> owner[l] = d),
         unmapped = <<>> \/ unmapped' # <<>> \/ owner["ulock"] = c,
         mallocUnmapList' = mallocUnmapList \/ owner["mallocLock"] = c \/ owner["mallocLock"] = NoCpu,
         HolderAt(c)', UnmapAt(c)'
  PROVE  \A d \in HeapCpu : HolderAt(d)' /\ UnmapAt(d)'
  <1>1. ASSUME NEW d \in HeapCpu, d # c PROVE HolderAt(d)' /\ UnmapAt(d)'
    <2>0. NoCpu \notin HeapCpu
      BY KernelHeapAssumption DEF NoCpu
    <2>1. HolderAt(d) /\ UnmapAt(d)
      BY DEF HeapInv
    <2>2. heapAt'[d] = heapAt[d] /\ posting'[d] = posting[d] /\ ulist'[d] = ulist[d]
      BY <1>1
    <2>3. /\ owner'["ulock"] = d <=> owner["ulock"] = d
          /\ owner'["mallocLock"] = d <=> owner["mallocLock"] = d
          /\ owner'["vlock"] = d <=> owner["vlock"] = d
      BY <1>1 DEF HeapLocks
    <2>4. HolderAt(d)'
      <3>1. owner'["vlock"] = d /\ heapAt'[d] = "leave" => unmapped' # <<>>
        BY <1>1, <2>1, <2>2, <2>3 DEF HolderAt
      <3> QED BY <2>1, <2>2, <2>3, <3>1 DEF HolderAt
    <2>5. heapAt'[d] = "in free" => mallocUnmapList' = d
      BY <1>1, <2>0, <2>1, <2>2 DEF HolderAt, UnmapAt
    <2> QED BY <2>1, <2>2, <2>4, <2>5 DEF UnmapAt
  <1> QED BY <1>1

(* What the invariant says of the CPU that moves.                          *)
LEMMA HeapFacts ==
  ASSUME HeapInv, NEW c \in HeapCpu
  PROVE  /\ owner \in [HeapLocks -> HeapCpu \cup {NoCpu}] /\ heapAt \in [HeapCpu -> Places]
         /\ ulist \in [HeapCpu -> Seq(Segment)] /\ posting \in [HeapCpu -> SUBSET Segment]
         /\ mapped \subseteq Segment /\ ranges \subseteq Segment /\ unmapped \in Seq(Segment)
         /\ mallocUnmapList \in HeapCpu \cup {NoCpu} /\ mdCache \in Nat
         /\ PlacedOnce /\ HolderAt(c) /\ UnmapAt(c) /\ NoCpu \notin HeapCpu /\ NoCpu # c
  BY KernelHeapAssumption DEF HeapInv, HeapTypeOK, NoCpu

(* Taking and releasing locks, without touching any segment.               *)
LEMMA QuietStep ==
  ASSUME HeapInv, NEW c \in HeapCpu, NEW a \in Places,
         UNCHANGED <<mapped, ulist, posting, unmapped, ranges>>,
         heapAt' = [heapAt EXCEPT ![c] = a],
         owner' \in [HeapLocks -> HeapCpu \cup {NoCpu}],
         \A l \in HeapLocks : \A d \in HeapCpu : d # c => (owner'[l] = d <=> owner[l] = d),
         mallocUnmapList' = mallocUnmapList
           \/ (mallocUnmapList' \in HeapCpu \cup {NoCpu} /\ (owner["mallocLock"] = c \/ owner["mallocLock"] = NoCpu)),
         mdCache' \in Nat,
         HolderAt(c)', UnmapAt(c)'
  PROVE  HeapInv'
  <1>1. /\ owner \in [HeapLocks -> HeapCpu \cup {NoCpu}] /\ heapAt \in [HeapCpu -> Places]
        /\ ulist \in [HeapCpu -> Seq(Segment)] /\ posting \in [HeapCpu -> SUBSET Segment]
        /\ mapped \subseteq Segment /\ ranges \subseteq Segment /\ unmapped \in Seq(Segment)
        /\ mallocUnmapList \in HeapCpu \cup {NoCpu} /\ PlacedOnce
    BY HeapFacts
  <1>2. heapAt' \in [HeapCpu -> Places] /\ \A d \in HeapCpu : d # c => heapAt'[d] = heapAt[d]
    BY <1>1
  <1>3. mallocUnmapList' \in HeapCpu \cup {NoCpu}
    BY <1>1
  <1>4. HeapTypeOK'
    BY <1>1, <1>2, <1>3 DEF HeapTypeOK
  <1>5. PlacedOnce'
    BY <1>1 DEF PlacedOnce, Handled
  <1>6. \A d \in HeapCpu : HolderAt(d)' /\ UnmapAt(d)'
    BY <1>2, HeapOthers
  <1> QED BY <1>4, <1>5, <1>6 DEF HeapInv

(* Where malloc returns to: the descriptor it was called for, or its caller. *)
LEMMA AfterMallocGoes ==
  ASSUME HeapInv, NEW c \in HeapCpu, InMalloc(c)
  PROVE  /\ owner["mallocLock"] = c /\ AfterMalloc(c) \in Places
         /\ \/ heapAt[c] = "in malloc" /\ AfterMalloc(c) = "out"
            \/ heapAt[c] = "in post malloc" /\ AfterMalloc(c) = "post"
  <1>1. HolderAt(c)
    BY HeapFacts
  <1>2. owner["mallocLock"] = c
    BY <1>1 DEF HolderAt, InMalloc
  <1>3. CASE heapAt[c] = "in malloc"
    <2>1. owner["ulock"] # c
      BY <1>1, <1>3 DEF HolderAt
    <2>2. AfterMalloc(c) = "out"
      BY <2>1 DEF AfterMalloc
    <2> QED BY <1>2, <1>3, <2>2 DEF Places
  <1>4. CASE heapAt[c] = "in post malloc"
    <2>1. owner["ulock"] = c
      BY <1>1, <1>4 DEF HolderAt
    <2>2. AfterMalloc(c) = "post"
      BY <2>1 DEF AfterMalloc
    <2> QED BY <1>2, <1>4, <2>2 DEF Places
  <1> QED BY <1>3, <1>4 DEF InMalloc

LEMMA QuietActions ==
  ASSUME HeapInv, NEW c \in HeapCpu,
         \/ \E a \in {"malloc", "free", "invalidate"} : Calls(c, a)
         \/ MallocLock(c) \/ MallocHas(c) \/ DlMmapLock(c) \/ FreeLock(c) \/ UnmapLock(c) \/ InvalidateLock(c)
  PROVE  HeapInv'
  <1>1. /\ owner \in [HeapLocks -> HeapCpu \cup {NoCpu}] /\ heapAt \in [HeapCpu -> Places]
        /\ mallocUnmapList \in HeapCpu \cup {NoCpu} /\ mdCache \in Nat
        /\ HolderAt(c) /\ UnmapAt(c) /\ NoCpu \notin HeapCpu /\ NoCpu # c
    BY HeapFacts
  <1>t. ASSUME NEW l \in HeapLocks, TakeLock(c, l)
        PROVE  /\ owner' \in [HeapLocks -> HeapCpu \cup {NoCpu}] /\ owner'[l] = c /\ owner[l] = NoCpu
               /\ \A k \in HeapLocks : k # l => owner'[k] = owner[k]
               /\ \A k \in HeapLocks : \A d \in HeapCpu : d # c => (owner'[k] = d <=> owner[k] = d)
    BY <1>1, <1>t DEF TakeLock
  <1>d. ASSUME NEW l \in HeapLocks, DropLock(l), owner[l] = c
        PROVE  /\ owner' \in [HeapLocks -> HeapCpu \cup {NoCpu}] /\ owner'[l] = NoCpu
               /\ \A k \in HeapLocks : k # l => owner'[k] = owner[k]
               /\ \A k \in HeapLocks : \A d \in HeapCpu : d # c => (owner'[k] = d <=> owner[k] = d)
    BY <1>1, <1>d DEF DropLock
  <1>l. /\ HeapLocks = {"ulock", "mallocLock", "vlock"} /\ "ulock" \in HeapLocks /\ "mallocLock" \in HeapLocks
        /\ "vlock" \in HeapLocks
    BY DEF HeapLocks
  <1>2. ASSUME NEW a \in {"malloc", "free", "invalidate"}, Calls(c, a) PROVE HeapInv'
    <2>1. /\ heapAt[c] = "out" /\ heapAt' = [heapAt EXCEPT ![c] = a] /\ a \in Places
          /\ UNCHANGED <<owner, mapped, mallocUnmapList, ulist, posting, unmapped, mdCache, ranges>>
      BY <1>2 DEF Calls, GoTo, Places
    <2>2. heapAt'[c] = a
      BY <1>1, <2>1
    <2>3. HolderAt(c)' /\ UnmapAt(c)'
      BY <1>1, <1>2, <2>1, <2>2 DEF HolderAt, UnmapAt, Unmapping
    <2> QED BY <1>1, <2>1, <2>3, QuietStep
  <1>3. CASE MallocLock(c)
    <2>1. /\ heapAt[c] \in {"malloc", "post malloc"} /\ TakeLock(c, "mallocLock")
          /\ heapAt' = [heapAt EXCEPT ![c] = IF heapAt[c] = "malloc" THEN "in malloc" ELSE "in post malloc"]
          /\ UNCHANGED <<mapped, mallocUnmapList, ulist, posting, unmapped, mdCache, ranges>>
      BY <1>3 DEF MallocLock, GoTo
    <2>2. ASSUME NEW a \in Places, heapAt' = [heapAt EXCEPT ![c] = a],
                 \/ heapAt[c] = "malloc" /\ a = "in malloc"
                 \/ heapAt[c] = "post malloc" /\ a = "in post malloc"
          PROVE  HeapInv'
      <3>1. heapAt'[c] = a
        BY <1>1, <2>2
      <3>2. HolderAt(c)' /\ UnmapAt(c)'
        BY <1>1, <1>t, <1>l, <2>1, <2>2, <3>1 DEF HolderAt, UnmapAt, Unmapping
      <3> QED BY <1>1, <1>t, <1>l, <2>1, <2>2, <3>2, QuietStep
    <2>3. "in malloc" \in Places /\ "in post malloc" \in Places
      BY DEF Places
    <2>4. CASE heapAt[c] = "malloc"
      <3>1. heapAt' = [heapAt EXCEPT ![c] = "in malloc"]
        BY <2>1, <2>4
      <3> QED BY <2>2, <2>3, <2>4, <3>1
    <2>5. CASE heapAt[c] = "post malloc"
      <3>1. heapAt' = [heapAt EXCEPT ![c] = "in post malloc"]
        BY <2>1, <2>5
      <3> QED BY <2>2, <2>3, <2>5, <3>1
    <2> QED BY <2>1, <2>4, <2>5
  <1>4. CASE MallocHas(c)
    <2>1. PICK a : a = AfterMalloc(c)
      OBVIOUS
    <2>2. /\ InMalloc(c) /\ owner["vlock"] # c /\ DropLock("mallocLock")
          /\ heapAt' = [heapAt EXCEPT ![c] = a]
          /\ UNCHANGED <<mapped, mallocUnmapList, ulist, posting, unmapped, mdCache, ranges>>
      BY <1>4, <2>1 DEF MallocHas, GoTo
    <2>3. /\ owner["mallocLock"] = c /\ a \in Places
          /\ \/ heapAt[c] = "in malloc" /\ a = "out"
             \/ heapAt[c] = "in post malloc" /\ a = "post"
      BY <2>1, <2>2, AfterMallocGoes
    <2>4. heapAt'[c] = a
      BY <1>1, <2>2
    <2>5. HolderAt(c)' /\ UnmapAt(c)'
      BY <1>1, <1>d, <1>l, <2>2, <2>3, <2>4 DEF HolderAt, UnmapAt, Unmapping
    <2> QED BY <1>1, <1>d, <1>l, <2>2, <2>3, <2>5, QuietStep
  <1>5. CASE DlMmapLock(c)
    <2>1. PICK a : a = heapAt[c]
      OBVIOUS
    <2>2. /\ InMalloc(c) /\ TakeLock(c, "vlock") /\ heapAt' = heapAt
          /\ UNCHANGED <<mapped, mallocUnmapList, ulist, posting, unmapped, mdCache, ranges>>
      BY <1>5 DEF DlMmapLock
    <2>3. heapAt' = [heapAt EXCEPT ![c] = a] /\ a \in Places /\ heapAt'[c] = heapAt[c]
      BY <1>1, <2>1, <2>2
    <2>4. HolderAt(c)' /\ UnmapAt(c)'
      BY <1>1, <1>t, <1>l, <2>2, <2>3 DEF HolderAt, UnmapAt, InMalloc
    <2> QED BY <1>1, <1>t, <1>l, <2>2, <2>3, <2>4, QuietStep
  <1>6. CASE FreeLock(c)
    <2>1. /\ heapAt[c] = "free" /\ TakeLock(c, "mallocLock") /\ mallocUnmapList' = c
          /\ heapAt' = [heapAt EXCEPT ![c] = "in free"] /\ "in free" \in Places
          /\ UNCHANGED <<mapped, ulist, posting, unmapped, mdCache, ranges>>
      BY <1>6 DEF FreeLock, FreeEnter, GoTo, Places
    <2>2. heapAt'[c] = "in free" /\ mallocUnmapList' \in HeapCpu \cup {NoCpu} /\ owner["mallocLock"] = NoCpu
      <3>1. owner["mallocLock"] = NoCpu
        BY <2>1 DEF TakeLock
      <3> QED BY <1>1, <2>1, <3>1
    <2>3. HolderAt(c)' /\ UnmapAt(c)'
      BY <1>1, <1>t, <1>l, <2>1, <2>2 DEF HolderAt, UnmapAt, Unmapping
    <2> QED BY <1>1, <1>t, <1>l, <2>1, <2>2, <2>3, QuietStep
  <1>7. CASE UnmapLock(c)
    <2>1. /\ heapAt[c] = "ulock" /\ TakeLock(c, "ulock")
          /\ IF mdCache = 0 THEN heapAt' = [heapAt EXCEPT ![c] = "post malloc"] /\ mdCache' = mdCache
             ELSE heapAt' = [heapAt EXCEPT ![c] = "post"] /\ mdCache' = mdCache - 1
          /\ UNCHANGED <<mapped, mallocUnmapList, ulist, posting, unmapped, ranges>>
      BY <1>7 DEF UnmapLock, GoTo
    <2>2. ASSUME NEW a \in Places, heapAt' = [heapAt EXCEPT ![c] = a], a \in {"post malloc", "post"},
                 mdCache' \in Nat
          PROVE  HeapInv'
      <3>1. heapAt'[c] = a
        BY <1>1, <2>2
      <3>2. HolderAt(c)' /\ UnmapAt(c)'
        BY <1>1, <1>t, <1>l, <2>1, <2>2, <3>1 DEF HolderAt, UnmapAt, Unmapping
      <3> QED BY <1>1, <1>t, <1>l, <2>1, <2>2, <3>2, QuietStep
    <2>3. "post malloc" \in Places /\ "post" \in Places
      BY DEF Places
    <2>4. CASE mdCache = 0
      <3>1. heapAt' = [heapAt EXCEPT ![c] = "post malloc"] /\ mdCache' \in Nat
        BY <1>1, <2>1, <2>4
      <3> QED BY <2>2, <2>3, <3>1
    <2>5. CASE mdCache # 0
      <3>1. heapAt' = [heapAt EXCEPT ![c] = "post"] /\ mdCache' = mdCache - 1
        BY <2>1, <2>5
      <3>2. mdCache' \in Nat
        BY <1>1, <2>5, <3>1
      <3> QED BY <2>2, <2>3, <3>1, <3>2
    <2> QED BY <2>4, <2>5
  <1>8. CASE InvalidateLock(c)
    <2>1. /\ heapAt[c] = "invalidate" /\ TakeLock(c, "ulock")
          /\ heapAt' = [heapAt EXCEPT ![c] = "leave"] /\ "leave" \in Places
          /\ UNCHANGED <<mapped, mallocUnmapList, ulist, posting, unmapped, mdCache, ranges>>
      BY <1>8 DEF InvalidateLock, GoTo, Places
    <2>2. heapAt'[c] = "leave"
      BY <1>1, <2>1
    <2>3. HolderAt(c)' /\ UnmapAt(c)'
      BY <1>1, <1>t, <1>l, <2>1, <2>2 DEF HolderAt, UnmapAt, Unmapping
    <2> QED BY <1>1, <1>t, <1>l, <2>1, <2>3, QuietStep
  <1> QED BY <1>2, <1>3, <1>4, <1>5, <1>6, <1>7, <1>8

(* A step that moves segments between the moving CPU's lists, the heap,    *)
(* the address space's list and the free ranges, and loses none.           *)
LEMMA SegmentsMove ==
  ASSUME HeapInv, NEW c \in HeapCpu,
         \A d \in HeapCpu : d # c => posting'[d] = posting[d] /\ ulist'[d] = ulist[d],
         mapped' \cup ranges' \cup ToSet(unmapped') \cup Handled(c)'
           = mapped \cup ranges \cup ToSet(unmapped) \cup Handled(c),
         mapped' \cap ranges' = {}, (mapped' \cup ranges') \cap ToSet(unmapped') = {},
         Handled(c)' \cap (mapped' \cup ranges' \cup ToSet(unmapped')) = {},
         posting'[c] \cap ToSet(ulist'[c]) = {}, IsInjective(ulist'[c]), IsInjective(unmapped')
  PROVE  PlacedOnce'
  <1>1. PlacedOnce
    BY HeapFacts
  <1>2. PICK A, B : A = mapped \cup ranges \cup ToSet(unmapped) /\ B = mapped' \cup ranges' \cup ToSet(unmapped')
    OBVIOUS
  <1>3. \A d \in HeapCpu : d # c => Handled(d)' = Handled(d)
    BY DEF Handled
  <1>4. B \cup Handled(c)' = A \cup Handled(c) /\ Handled(c)' \cap B = {}
    BY <1>2
  <1>5. /\ A \cup UNION {Handled(d) : d \in HeapCpu} = Segment
        /\ \A d \in HeapCpu : Handled(d) \cap A = {}
        /\ \A d, e \in HeapCpu : d # e => Handled(d) \cap Handled(e) = {}
        /\ \A d \in HeapCpu : posting[d] \cap ToSet(ulist[d]) = {} /\ IsInjective(ulist[d])
    BY <1>1, <1>2 DEF PlacedOnce
  <1>6. B \cup UNION {Handled(d)' : d \in HeapCpu} = Segment
    <2>1. ASSUME NEW x PROVE x \in B \cup UNION {Handled(d)' : d \in HeapCpu}
                          <=> x \in A \cup UNION {Handled(d) : d \in HeapCpu}
      <3>1. x \in UNION {Handled(d)' : d \in HeapCpu} <=> \E d \in HeapCpu : x \in Handled(d)'
        OBVIOUS
      <3>2. x \in UNION {Handled(d) : d \in HeapCpu} <=> \E d \in HeapCpu : x \in Handled(d)
        OBVIOUS
      <3>3. x \in B \/ x \in Handled(c)' <=> x \in A \/ x \in Handled(c)
        BY <1>4
      <3> QED BY <1>3, <3>1, <3>2, <3>3
    <2> QED BY <1>5, <2>1
  <1>7. ASSUME NEW d \in HeapCpu PROVE Handled(d)' \cap B = {}
    <2>1. CASE d = c
      BY <1>4, <2>1
    <2>2. CASE d # c
      <3>1. Handled(d)' = Handled(d) /\ Handled(d) \cap A = {} /\ Handled(d) \cap Handled(c) = {}
        BY <1>3, <1>5, <2>2
      <3> QED BY <1>4, <3>1
    <2> QED BY <2>1, <2>2
  <1>8. ASSUME NEW d \in HeapCpu, NEW e \in HeapCpu, d # e PROVE Handled(d)' \cap Handled(e)' = {}
    <2>1. ASSUME NEW f \in HeapCpu, f # c PROVE Handled(f)' \cap Handled(c)' = {}
      <3>1. Handled(f)' = Handled(f) /\ Handled(f) \cap A = {} /\ Handled(f) \cap Handled(c) = {}
        BY <1>3, <1>5, <2>1
      <3> QED BY <1>4, <3>1
    <2>2. CASE d # c /\ e # c
      BY <1>3, <1>5, <1>8, <2>2
    <2> QED BY <1>8, <2>1, <2>2
  <1>9. \A d \in HeapCpu : posting'[d] \cap ToSet(ulist'[d]) = {} /\ IsInjective(ulist'[d])
    BY <1>5
  <1> QED BY <1>2, <1>6, <1>7, <1>8, <1>9 DEF PlacedOnce

(* What PlacedOnce says of one CPU.                                        *)
LEMMA PlacedFacts ==
  ASSUME HeapInv, NEW c \in HeapCpu
  PROVE  /\ mapped \cap ranges = {} /\ (mapped \cup ranges) \cap ToSet(unmapped) = {}
         /\ Handled(c) \cap (mapped \cup ranges \cup ToSet(unmapped)) = {}
         /\ posting[c] \cap ToSet(ulist[c]) = {} /\ IsInjective(ulist[c]) /\ IsInjective(unmapped)
         /\ Handled(c) = posting[c] \cup ToSet(ulist[c])
  BY HeapFacts DEF PlacedOnce, Handled

LEMMA EmptyList == <<>> \in Seq(Segment) /\ ToSet(<<>>) = {} /\ IsInjective(<<>>)
  <1>1. PICK e : e = <<>>
    OBVIOUS
  <1> QED BY <1>1 DEF ToSet, IsInjective

(* dl_mmap takes a segment from the free ranges.                           *)
LEMMA DlMmapStep ==
  ASSUME HeapInv, NEW c \in HeapCpu, DlMmap(c)
  PROVE  HeapInv'
  <1>1. /\ owner \in [HeapLocks -> HeapCpu \cup {NoCpu}] /\ heapAt \in [HeapCpu -> Places]
        /\ ulist \in [HeapCpu -> Seq(Segment)] /\ posting \in [HeapCpu -> SUBSET Segment]
        /\ mapped \subseteq Segment /\ ranges \subseteq Segment /\ unmapped \in Seq(Segment)
        /\ mallocUnmapList \in HeapCpu \cup {NoCpu} /\ mdCache \in Nat
        /\ HolderAt(c) /\ UnmapAt(c) /\ NoCpu \notin HeapCpu /\ NoCpu # c
    BY HeapFacts
  <1>2. PICK a : a = AfterMalloc(c)
    OBVIOUS
  <1>3. PICK s \in ranges : mapped' = mapped \cup {s} /\ ranges' = ranges \ {s}
    BY DEF DlMmap
  <1>4. /\ InMalloc(c) /\ owner["vlock"] = c /\ heapAt' = [heapAt EXCEPT ![c] = a]
        /\ owner' = [owner EXCEPT !["vlock"] = NoCpu, !["mallocLock"] = NoCpu]
        /\ UNCHANGED <<mallocUnmapList, ulist, posting, unmapped, mdCache>>
    BY <1>2 DEF DlMmap, GoTo
  <1>5. /\ owner["mallocLock"] = c /\ a \in Places
        /\ \/ heapAt[c] = "in malloc" /\ a = "out"
           \/ heapAt[c] = "in post malloc" /\ a = "post"
    BY <1>2, <1>4, AfterMallocGoes
  <1>6. /\ heapAt' \in [HeapCpu -> Places] /\ heapAt'[c] = a /\ \A d \in HeapCpu : d # c => heapAt'[d] = heapAt[d]
    BY <1>1, <1>4, <1>5
  <1>7. /\ owner' \in [HeapLocks -> HeapCpu \cup {NoCpu}]
        /\ owner'["vlock"] = NoCpu /\ owner'["mallocLock"] = NoCpu /\ owner'["ulock"] = owner["ulock"]
    BY <1>1, <1>4 DEF HeapLocks
  <1>8. \A l \in HeapLocks : \A d \in HeapCpu : d # c => (owner'[l] = d <=> owner[l] = d)
    BY <1>1, <1>4, <1>5, <1>7 DEF HeapLocks
  <1>9. HolderAt(c)' /\ UnmapAt(c)'
    BY <1>1, <1>4, <1>5, <1>6, <1>7 DEF HolderAt, UnmapAt, Unmapping
  <1>10. \A d \in HeapCpu : HolderAt(d)' /\ UnmapAt(d)'
    BY <1>4, <1>6, <1>8, <1>9, HeapOthers
  <1>11. HeapTypeOK'
    BY <1>1, <1>3, <1>4, <1>6, <1>7 DEF HeapTypeOK
  <1>12. PlacedOnce'
    <2>1. Handled(c)' = Handled(c) /\ ulist'[c] = ulist[c] /\ posting'[c] = posting[c] /\ unmapped' = unmapped
      BY <1>4 DEF Handled
    <2>2. PICK U, H : U = ToSet(unmapped) /\ H = Handled(c)
      OBVIOUS
    <2>3. mapped \cap ranges = {} /\ (mapped \cup ranges) \cap U = {} /\ H \cap (mapped \cup ranges \cup U) = {}
      BY <2>2, PlacedFacts
    <2>4. /\ mapped' \cup ranges' \cup U \cup H = mapped \cup ranges \cup U \cup H
          /\ mapped' \cap ranges' = {} /\ (mapped' \cup ranges') \cap U = {}
          /\ H \cap (mapped' \cup ranges' \cup U) = {}
      BY <1>3, <2>3
    <2>5. posting[c] \cap ToSet(ulist[c]) = {} /\ IsInjective(ulist[c]) /\ IsInjective(unmapped)
      BY PlacedFacts
    <2> QED BY <1>4, <2>1, <2>2, <2>4, <2>5, SegmentsMove
  <1> QED BY <1>10, <1>11, <1>12 DEF HeapInv

(* legacy_free puts what dlmalloc gives back on the CPU's own list.        *)
LEMMA HeapFreeStep ==
  ASSUME HeapInv, NEW c \in HeapCpu, HeapFree(c)
  PROVE  HeapInv'
  <1>1. /\ owner \in [HeapLocks -> HeapCpu \cup {NoCpu}] /\ heapAt \in [HeapCpu -> Places]
        /\ ulist \in [HeapCpu -> Seq(Segment)] /\ posting \in [HeapCpu -> SUBSET Segment]
        /\ mapped \subseteq Segment /\ ranges \subseteq Segment /\ unmapped \in Seq(Segment)
        /\ mallocUnmapList \in HeapCpu \cup {NoCpu} /\ mdCache \in Nat
        /\ HolderAt(c) /\ UnmapAt(c) /\ NoCpu \notin HeapCpu /\ NoCpu # c
    BY HeapFacts
  <1>2. heapAt[c] = "in free"
    BY DEF HeapFree
  <1>3. mallocUnmapList = c /\ ulist[c] = <<>> /\ posting[c] = {} /\ owner["mallocLock"] = c
    BY <1>1, <1>2 DEF HolderAt, UnmapAt, Unmapping
  <1>4. PICK S \in SUBSET mapped : mapped' = mapped \ S /\ ulist' = [ulist EXCEPT ![c] = @ \o SetToSeq(S)]
    BY <1>1, <1>3 DEF HeapFree
  <1>5. /\ mallocUnmapList' = NoCpu /\ owner' = [owner EXCEPT !["mallocLock"] = NoCpu]
        /\ heapAt' = [heapAt EXCEPT ![c] = "drain"]
        /\ UNCHANGED <<posting, unmapped, mdCache, ranges>>
    BY DEF HeapFree, UnlockedHeap, GoTo
  <1>6. PICK q : q = SetToSeq(S)
    OBVIOUS
  <1>7. q \in Seq(S) /\ ToSet(q) = S /\ IsInjective(q)
    <2>1. IsFiniteSet(S)
      BY <1>1, <1>4, FS_Subset, KernelHeapAssumption
    <2> QED BY <1>6, <2>1, SetToList
  <1>8. q \in Seq(Segment)
    BY <1>1, <1>7
  <1>9. ulist'[c] = q /\ ulist' \in [HeapCpu -> Seq(Segment)] /\ \A d \in HeapCpu : d # c => ulist'[d] = ulist[d]
    <2>1. <<>> \o q = q
      BY <1>8
    <2>2. ulist' = [ulist EXCEPT ![c] = q]
      BY <1>1, <1>3, <1>4, <1>6, <2>1
    <2> QED BY <1>1, <1>8, <2>2
  <1>10. /\ heapAt' \in [HeapCpu -> Places] /\ heapAt'[c] = "drain"
         /\ \A d \in HeapCpu : d # c => heapAt'[d] = heapAt[d]
    BY <1>1, <1>5 DEF Places
  <1>11. /\ owner' \in [HeapLocks -> HeapCpu \cup {NoCpu}]
         /\ owner'["mallocLock"] = NoCpu /\ owner'["vlock"] = owner["vlock"] /\ owner'["ulock"] = owner["ulock"]
    BY <1>1, <1>5 DEF HeapLocks
  <1>12. \A l \in HeapLocks : \A d \in HeapCpu : d # c => (owner'[l] = d <=> owner[l] = d)
    BY <1>1, <1>3, <1>11 DEF HeapLocks
  <1>13. HolderAt(c)' /\ UnmapAt(c)'
    BY <1>1, <1>2, <1>3, <1>5, <1>10, <1>11 DEF HolderAt, UnmapAt, Unmapping
  <1>14. \A d \in HeapCpu : HolderAt(d)' /\ UnmapAt(d)'
    BY <1>3, <1>5, <1>9, <1>10, <1>12, <1>13, HeapOthers
  <1>15. HeapTypeOK'
    BY <1>1, <1>4, <1>5, <1>9, <1>10, <1>11 DEF HeapTypeOK
  <1>16. PlacedOnce'
    <2>1. PICK U : U = ToSet(unmapped)
      OBVIOUS
    <2>2. mapped \cap ranges = {} /\ (mapped \cup ranges) \cap U = {} /\ IsInjective(unmapped)
      BY <2>1, PlacedFacts
    <2>3. Handled(c) = {} /\ Handled(c)' = S /\ posting'[c] = {} /\ unmapped' = unmapped
      BY <1>3, <1>5, <1>7, <1>9, EmptyList DEF Handled
    <2>4. /\ mapped' \cup ranges' \cup U \cup S = mapped \cup ranges \cup U
          /\ mapped' \cap ranges' = {} /\ (mapped' \cup ranges') \cap U = {}
          /\ S \cap (mapped' \cup ranges' \cup U) = {}
      BY <1>4, <1>5, <2>2
    <2> QED BY <1>5, <1>7, <1>9, <2>1, <2>2, <2>3, <2>4, SegmentsMove
  <1> QED BY <1>14, <1>15, <1>16 DEF HeapInv

(* munmap takes the next segment of its own list.                          *)
LEMMA MunmapStep ==
  ASSUME HeapInv, NEW c \in HeapCpu, Munmap(c)
  PROVE  HeapInv'
  <1>1. /\ owner \in [HeapLocks -> HeapCpu \cup {NoCpu}] /\ heapAt \in [HeapCpu -> Places]
        /\ ulist \in [HeapCpu -> Seq(Segment)] /\ posting \in [HeapCpu -> SUBSET Segment]
        /\ mapped \subseteq Segment /\ ranges \subseteq Segment /\ unmapped \in Seq(Segment)
        /\ mallocUnmapList \in HeapCpu \cup {NoCpu} /\ mdCache \in Nat
        /\ HolderAt(c) /\ UnmapAt(c) /\ NoCpu \notin HeapCpu /\ NoCpu # c
    BY HeapFacts
  <1>2. heapAt[c] = "drain" /\ UNCHANGED <<owner, mapped, mallocUnmapList, unmapped, mdCache, ranges>>
    BY DEF Munmap
  <1>3. posting[c] = {}
    BY <1>1, <1>2 DEF UnmapAt, Unmapping
  <1>4. "out" \in Places /\ "ulock" \in Places
    BY DEF Places
  <1>5. CASE ulist[c] = <<>>
    <2>1. heapAt' = [heapAt EXCEPT ![c] = "out"] /\ UNCHANGED <<ulist, posting>>
      BY <1>5 DEF Munmap, GoTo
    <2>2. heapAt'[c] = "out"
      BY <1>1, <2>1
    <2>3. HolderAt(c)' /\ UnmapAt(c)'
      BY <1>1, <1>2, <1>3, <1>5, <2>1, <2>2 DEF HolderAt, UnmapAt, Unmapping
    <2> QED BY <1>1, <1>2, <1>4, <2>1, <2>3, QuietStep
  <1>6. CASE ulist[c] # <<>>
    <2>1. PICK q, h, t : q = ulist[c] /\ h = Head(q) /\ t = Tail(q)
      OBVIOUS
    <2>2. q \in Seq(Segment) /\ q # <<>> /\ IsInjective(q)
      BY <1>1, <1>6, <2>1, PlacedFacts
    <2>3. /\ h \in Segment /\ t \in Seq(Segment) /\ IsInjective(t)
          /\ ToSet(q) = {h} \cup ToSet(t) /\ h \notin ToSet(t)
      BY <2>1, <2>2, TailList
    <2>4. /\ posting' = [posting EXCEPT ![c] = {h}] /\ ulist' = [ulist EXCEPT ![c] = t]
          /\ heapAt' = [heapAt EXCEPT ![c] = "ulock"]
      BY <1>1, <1>6, <2>1 DEF Munmap, GoTo
    <2>5. /\ posting' \in [HeapCpu -> SUBSET Segment] /\ ulist' \in [HeapCpu -> Seq(Segment)]
          /\ heapAt' \in [HeapCpu -> Places]
          /\ posting'[c] = {h} /\ ulist'[c] = t /\ heapAt'[c] = "ulock"
          /\ \A d \in HeapCpu : d # c => heapAt'[d] = heapAt[d] /\ posting'[d] = posting[d] /\ ulist'[d] = ulist[d]
      BY <1>1, <1>4, <2>3, <2>4
    <2>6. HolderAt(c)' /\ UnmapAt(c)'
      BY <1>1, <1>2, <2>5 DEF HolderAt, UnmapAt, Unmapping
    <2>7. \A d \in HeapCpu : HolderAt(d)' /\ UnmapAt(d)'
      BY <1>2, <2>5, <2>6, HeapOthers
    <2>8. HeapTypeOK'
      BY <1>1, <1>2, <2>5 DEF HeapTypeOK
    <2>9. PlacedOnce'
      <3>1. Handled(c)' = Handled(c)
        BY <1>3, <2>1, <2>3, <2>5 DEF Handled
      <3>2. posting'[c] \cap ToSet(ulist'[c]) = {} /\ IsInjective(ulist'[c])
        BY <2>3, <2>5
      <3>3. /\ mapped \cap ranges = {} /\ (mapped \cup ranges) \cap ToSet(unmapped) = {}
            /\ Handled(c) \cap (mapped \cup ranges \cup ToSet(unmapped)) = {} /\ IsInjective(unmapped)
        BY PlacedFacts
      <3> QED BY <1>2, <2>5, <3>1, <3>2, <3>3, SegmentsMove
    <2> QED BY <2>7, <2>8, <2>9 DEF HeapInv
  <1> QED BY <1>5, <1>6

(* postUnmap: the segment goes on the address space's list.                *)
LEMMA PostStep ==
  ASSUME HeapInv, NEW c \in HeapCpu, Post(c)
  PROVE  HeapInv'
  <1>1. /\ owner \in [HeapLocks -> HeapCpu \cup {NoCpu}] /\ heapAt \in [HeapCpu -> Places]
        /\ ulist \in [HeapCpu -> Seq(Segment)] /\ posting \in [HeapCpu -> SUBSET Segment]
        /\ mapped \subseteq Segment /\ ranges \subseteq Segment /\ unmapped \in Seq(Segment)
        /\ mallocUnmapList \in HeapCpu \cup {NoCpu} /\ mdCache \in Nat
        /\ HolderAt(c) /\ UnmapAt(c) /\ NoCpu \notin HeapCpu /\ NoCpu # c
    BY HeapFacts
  <1>2. PICK P, q, u : P = posting[c] /\ q = SetToSeq(P) /\ u = unmapped \o q
    OBVIOUS
  <1>3. /\ heapAt[c] = "post" /\ unmapped' = u /\ posting' = [posting EXCEPT ![c] = {}]
        /\ owner' = [owner EXCEPT !["ulock"] = NoCpu] /\ heapAt' = [heapAt EXCEPT ![c] = "drain"]
        /\ UNCHANGED <<mapped, mallocUnmapList, ulist, mdCache, ranges>>
    BY <1>2 DEF Post, DropLock, GoTo
  <1>4. owner["ulock"] = c
    BY <1>1, <1>3 DEF HolderAt
  <1>5. P \subseteq Segment /\ q \in Seq(Segment) /\ ToSet(q) = P /\ IsInjective(q)
    <2>1. P \subseteq Segment
      BY <1>1, <1>2
    <2>2. IsFiniteSet(P)
      BY <2>1, FS_Subset, KernelHeapAssumption
    <2>3. q \in Seq(P) /\ ToSet(q) = P /\ IsInjective(q)
      BY <1>2, <2>2, SetToList
    <2> QED BY <2>1, <2>3
  <1>6. PICK U, H, L : U = ToSet(unmapped) /\ H = Handled(c) /\ L = ToSet(ulist[c])
    OBVIOUS
  <1>7. /\ mapped \cap ranges = {} /\ (mapped \cup ranges) \cap U = {} /\ H \cap (mapped \cup ranges \cup U) = {}
        /\ P \cap L = {} /\ IsInjective(ulist[c]) /\ IsInjective(unmapped) /\ H = P \cup L
    BY <1>2, <1>6, PlacedFacts
  <1>8. u \in Seq(Segment) /\ IsInjective(u) /\ ToSet(u) = U \cup P
    <2>1. ToSet(unmapped) \cap ToSet(q) = {}
      BY <1>5, <1>6, <1>7
    <2> QED BY <1>1, <1>2, <1>5, <1>6, <1>7, <2>1, JoinedLists
  <1>9. /\ posting' \in [HeapCpu -> SUBSET Segment] /\ heapAt' \in [HeapCpu -> Places]
        /\ posting'[c] = {} /\ heapAt'[c] = "drain" /\ ulist' = ulist
        /\ \A d \in HeapCpu : d # c => heapAt'[d] = heapAt[d] /\ posting'[d] = posting[d] /\ ulist'[d] = ulist[d]
    BY <1>1, <1>3 DEF Places
  <1>10. /\ owner' \in [HeapLocks -> HeapCpu \cup {NoCpu}]
         /\ owner'["ulock"] = NoCpu /\ owner'["vlock"] = owner["vlock"]
         /\ owner'["mallocLock"] = owner["mallocLock"]
    BY <1>1, <1>3 DEF HeapLocks
  <1>11. \A l \in HeapLocks : \A d \in HeapCpu : d # c => (owner'[l] = d <=> owner[l] = d)
    BY <1>1, <1>4, <1>10 DEF HeapLocks
  <1>12. HolderAt(c)' /\ UnmapAt(c)'
    BY <1>1, <1>3, <1>9, <1>10 DEF HolderAt, UnmapAt, Unmapping
  <1>13. \A d \in HeapCpu : HolderAt(d)' /\ UnmapAt(d)'
    BY <1>3, <1>4, <1>9, <1>11, <1>12, HeapOthers
  <1>14. HeapTypeOK'
    BY <1>1, <1>3, <1>8, <1>9, <1>10 DEF HeapTypeOK
  <1>15. PlacedOnce'
    <2>1. Handled(c)' = L
      BY <1>6, <1>9 DEF Handled
    <2>2. /\ mapped \cup ranges \cup (U \cup P) \cup L = mapped \cup ranges \cup U \cup H
          /\ (mapped \cup ranges) \cap (U \cup P) = {} /\ L \cap (mapped \cup ranges \cup (U \cup P)) = {}
      BY <1>7
    <2>3. unmapped' = u /\ mapped' = mapped /\ ranges' = ranges /\ ulist'[c] = ulist[c]
      BY <1>3
    <2> QED BY <1>6, <1>7, <1>8, <1>9, <2>1, <2>2, <2>3, SegmentsMove
  <1> QED BY <1>13, <1>14, <1>15 DEF HeapInv

(* runInvalidation gives one range back, under both locks.                 *)
LEMMA PutVmRangeStep ==
  ASSUME HeapInv, NEW c \in HeapCpu, PutVmRange(c)
  PROVE  HeapInv'
  <1>1. /\ owner \in [HeapLocks -> HeapCpu \cup {NoCpu}] /\ heapAt \in [HeapCpu -> Places]
        /\ ulist \in [HeapCpu -> Seq(Segment)] /\ posting \in [HeapCpu -> SUBSET Segment]
        /\ mapped \subseteq Segment /\ ranges \subseteq Segment /\ unmapped \in Seq(Segment)
        /\ mallocUnmapList \in HeapCpu \cup {NoCpu} /\ mdCache \in Nat
        /\ HolderAt(c) /\ UnmapAt(c) /\ NoCpu \notin HeapCpu /\ NoCpu # c
    BY HeapFacts
  <1>2. heapAt[c] = "leave" /\ UNCHANGED <<mapped, mallocUnmapList, ulist, posting>>
    BY DEF PutVmRange
  <1>3. owner["ulock"] = c
    BY <1>1, <1>2 DEF HolderAt
  <1>4. CASE unmapped = <<>>
    <2>1. /\ owner' = [owner EXCEPT !["ulock"] = NoCpu] /\ heapAt' = [heapAt EXCEPT ![c] = "out"]
          /\ UNCHANGED <<unmapped, mdCache, ranges>>
      BY <1>4 DEF PutVmRange, DropLock, GoTo
    <2>2. heapAt'[c] = "out" /\ "out" \in Places
      BY <1>1, <2>1 DEF Places
    <2>3. /\ owner' \in [HeapLocks -> HeapCpu \cup {NoCpu}]
          /\ owner'["ulock"] = NoCpu /\ owner'["vlock"] = owner["vlock"]
          /\ owner'["mallocLock"] = owner["mallocLock"]
      BY <1>1, <2>1 DEF HeapLocks
    <2>4. \A l \in HeapLocks : \A d \in HeapCpu : d # c => (owner'[l] = d <=> owner[l] = d)
      BY <1>1, <1>3, <2>3 DEF HeapLocks
    <2>5. owner["vlock"] # c
      BY <1>1, <1>2, <1>4 DEF HolderAt
    <2>6. HolderAt(c)' /\ UnmapAt(c)'
      BY <1>1, <1>2, <2>2, <2>3, <2>5 DEF HolderAt, UnmapAt, Unmapping
    <2> QED BY <1>1, <1>2, <2>1, <2>2, <2>3, <2>4, <2>6, QuietStep
  <1>5. CASE unmapped # <<>> /\ owner["vlock"] # c
    <2>1. /\ owner["vlock"] = NoCpu /\ owner' = [owner EXCEPT !["vlock"] = c]
          /\ UNCHANGED <<heapAt, unmapped, mdCache, ranges>>
      BY <1>5 DEF PutVmRange, TakeLock
    <2>2. heapAt' = [heapAt EXCEPT ![c] = "leave"] /\ heapAt'[c] = "leave" /\ "leave" \in Places
      BY <1>1, <1>2, <2>1 DEF Places
    <2>3. /\ owner' \in [HeapLocks -> HeapCpu \cup {NoCpu}]
          /\ owner'["vlock"] = c /\ owner'["ulock"] = owner["ulock"]
          /\ owner'["mallocLock"] = owner["mallocLock"]
      BY <1>1, <2>1 DEF HeapLocks
    <2>4. \A l \in HeapLocks : \A d \in HeapCpu : d # c => (owner'[l] = d <=> owner[l] = d)
      BY <1>1, <2>1, <2>3 DEF HeapLocks
    <2>5. HolderAt(c)' /\ UnmapAt(c)'
      BY <1>1, <1>2, <1>5, <2>1, <2>2, <2>3 DEF HolderAt, UnmapAt, Unmapping
    <2> QED BY <1>1, <1>2, <2>1, <2>2, <2>3, <2>4, <2>5, QuietStep
  <1>6. CASE unmapped # <<>> /\ owner["vlock"] = c
    <2>1. PICK h, t : h = Head(unmapped) /\ t = Tail(unmapped)
      OBVIOUS
    <2>2. /\ ranges' = ranges \cup {h} /\ unmapped' = t /\ mdCache' = mdCache + 1
          /\ owner' = [owner EXCEPT !["vlock"] = NoCpu] /\ UNCHANGED heapAt
      BY <1>6, <2>1 DEF PutVmRange, DropLock
    <2>3. PICK U, H : U = ToSet(unmapped) /\ H = Handled(c)
      OBVIOUS
    <2>4. /\ mapped \cap ranges = {} /\ (mapped \cup ranges) \cap U = {} /\ H \cap (mapped \cup ranges \cup U) = {}
          /\ posting[c] \cap ToSet(ulist[c]) = {} /\ IsInjective(ulist[c]) /\ IsInjective(unmapped)
      BY <2>3, PlacedFacts
    <2>5. h \in Segment /\ t \in Seq(Segment) /\ IsInjective(t) /\ U = {h} \cup ToSet(t) /\ h \notin ToSet(t)
      BY <1>1, <1>6, <2>1, <2>3, <2>4, TailList
    <2>6. /\ owner' \in [HeapLocks -> HeapCpu \cup {NoCpu}]
          /\ owner'["vlock"] = NoCpu /\ owner'["ulock"] = owner["ulock"]
          /\ owner'["mallocLock"] = owner["mallocLock"]
      BY <1>1, <2>2 DEF HeapLocks
    <2>7. \A l \in HeapLocks : \A d \in HeapCpu : d # c => (owner'[l] = d <=> owner[l] = d)
      BY <1>1, <1>6, <2>6 DEF HeapLocks
    <2>8. HolderAt(c)' /\ UnmapAt(c)'
      BY <1>1, <1>2, <2>2, <2>6 DEF HolderAt, UnmapAt, Unmapping
    <2>9. \A d \in HeapCpu : HolderAt(d)' /\ UnmapAt(d)'
      BY <1>2, <1>3, <2>2, <2>7, <2>8, HeapOthers
    <2>10. HeapTypeOK'
      <3>1. mdCache' \in Nat /\ ranges' \subseteq Segment
        BY <1>1, <2>2, <2>5
      <3> QED BY <1>1, <1>2, <2>2, <2>5, <2>6, <3>1 DEF HeapTypeOK
    <2>11. PlacedOnce'
      <3>1. Handled(c)' = H /\ ulist'[c] = ulist[c] /\ posting'[c] = posting[c]
        BY <1>2, <2>3 DEF Handled
      <3>2. PICK T : T = ToSet(t)
        OBVIOUS
      <3>3. /\ mapped \cup (ranges \cup {h}) \cup T \cup H = mapped \cup ranges \cup U \cup H
            /\ mapped \cap (ranges \cup {h}) = {} /\ (mapped \cup (ranges \cup {h})) \cap T = {}
            /\ H \cap (mapped \cup (ranges \cup {h}) \cup T) = {}
        BY <2>4, <2>5, <3>2
      <3> QED BY <1>2, <2>2, <2>3, <2>4, <2>5, <3>1, <3>2, <3>3, SegmentsMove
    <2> QED BY <2>9, <2>10, <2>11 DEF HeapInv
  <1> QED BY <1>4, <1>5, <1>6

LEMMA HeapStep == HeapInv /\ [HeapNext]_heapVars => HeapInv'
  <1> SUFFICES ASSUME HeapInv, [HeapNext]_heapVars PROVE HeapInv'
    OBVIOUS
  <1>1. ASSUME NEW c \in HeapCpu,
               \/ \E a \in {"malloc", "free", "invalidate"} : Calls(c, a)
               \/ MallocLock(c) \/ MallocHas(c) \/ DlMmapLock(c) \/ DlMmap(c)
               \/ FreeLock(c) \/ HeapFree(c) \/ Munmap(c) \/ UnmapLock(c) \/ Post(c)
               \/ InvalidateLock(c) \/ PutVmRange(c)
        PROVE  HeapInv'
    BY <1>1, QuietActions, DlMmapStep, HeapFreeStep, MunmapStep, PostStep, PutVmRangeStep
  <1>2. CASE UNCHANGED heapVars
    <2>1. UNCHANGED <<owner, heapAt, mapped, mallocUnmapList, ulist, posting, unmapped, mdCache, ranges>>
      BY <1>2 DEF heapVars
    <2>2. HeapTypeOK'
      BY <2>1 DEF HeapInv, HeapTypeOK
    <2>3. PlacedOnce'
      BY <2>1 DEF HeapInv, PlacedOnce, Handled
    <2>4. \A c \in HeapCpu : HolderAt(c)' /\ UnmapAt(c)'
      BY <2>1 DEF HeapInv, HolderAt, UnmapAt
    <2> QED BY <2>2, <2>3, <2>4 DEF HeapInv
  <1> QED BY <1>1, <1>2 DEF HeapNext

(* The locks are taken in the order ulock, mallocLock, vlock, so in any    *)
(* set of CPUs the one that holds the last of them waits for none of the   *)
(* others.                                                                 *)
LEMMA HeapOrder == HeapInv => NoLockCycle
  <1> SUFFICES ASSUME HeapInv, NEW S \in (SUBSET HeapCpu) \ {{}}
               PROVE  \E c \in S : \A l \in Wanted(c) : owner[l] \notin S
    BY DEF NoLockCycle
  <1>0. ASSUME NEW c \in HeapCpu
        PROVE  /\ HolderAt(c) /\ heapAt[c] \in Places
               /\ heapAt[c] \in {"malloc", "post malloc", "free"} => Wanted(c) = {"mallocLock"}
               /\ heapAt[c] \in {"in malloc", "in post malloc", "leave"} =>
                    Wanted(c) \subseteq {"vlock"} /\ (owner["vlock"] = c => Wanted(c) = {})
               /\ heapAt[c] \in {"in free", "out", "drain", "post"} => Wanted(c) = {}
               /\ heapAt[c] \in {"ulock", "invalidate"} => Wanted(c) = {"ulock"}
    <2>1. HolderAt(c) /\ heapAt[c] \in Places
      BY HeapFacts
    <2>2. CASE heapAt[c] \in {"malloc", "post malloc", "free"}
      <3>1. Wanted(c) = {"mallocLock"}
        BY <2>2 DEF Wanted, InMalloc
      <3> QED BY <2>1, <2>2, <3>1
    <2>3. CASE heapAt[c] \in {"ulock", "invalidate"}
      <3>1. Wanted(c) = {"ulock"}
        BY <2>3 DEF Wanted, InMalloc
      <3> QED BY <2>1, <2>3, <3>1
    <2>4. CASE heapAt[c] \in {"in free", "out", "drain", "post"}
      <3>1. Wanted(c) = {}
        BY <2>4 DEF Wanted, InMalloc
      <3> QED BY <2>1, <2>4, <3>1
    <2>5. CASE heapAt[c] \in {"in malloc", "in post malloc", "leave"}
      <3>1. CASE owner["vlock"] = c
        <4>1. Wanted(c) = {}
          BY <2>5, <3>1 DEF Wanted, InMalloc
        <4> QED BY <2>1, <2>5, <4>1
      <3>2. CASE owner["vlock"] # c
        <4>1. Wanted(c) = {"vlock"} \/ Wanted(c) = {}
          BY <2>5, <3>2 DEF Wanted, InMalloc
        <4> QED BY <2>1, <2>5, <3>2, <4>1
      <3> QED BY <3>1, <3>2
    <2> QED BY <2>1, <2>2, <2>3, <2>4, <2>5 DEF Places
  <1>1. CASE owner["vlock"] \in S
    <2>1. PICK c \in S : owner["vlock"] = c
      BY <1>1
    <2>2. heapAt[c] \in {"in malloc", "in post malloc", "leave"}
      BY <1>0, <2>1 DEF HolderAt
    <2> QED BY <1>0, <2>1, <2>2
  <1>2. CASE owner["vlock"] \notin S /\ owner["mallocLock"] \in S
    <2>1. PICK c \in S : owner["mallocLock"] = c
      BY <1>2
    <2>2. heapAt[c] \in {"in malloc", "in post malloc", "in free"}
      BY <1>0, <2>1 DEF HolderAt
    <2>3. Wanted(c) \subseteq {"vlock"}
      BY <1>0, <2>1, <2>2
    <2> QED BY <1>2, <2>1, <2>3
  <1>3. CASE owner["vlock"] \notin S /\ owner["mallocLock"] \notin S /\ owner["ulock"] \in S
    <2>1. PICK c \in S : owner["ulock"] = c
      BY <1>3
    <2>2. heapAt[c] \in {"post malloc", "in post malloc", "post", "leave"}
      BY <1>0, <2>1 DEF HolderAt
    <2>3. Wanted(c) \subseteq {"mallocLock", "vlock"}
      BY <1>0, <2>1, <2>2
    <2> QED BY <1>3, <2>1, <2>3
  <1>4. CASE owner["vlock"] \notin S /\ owner["mallocLock"] \notin S /\ owner["ulock"] \notin S
    <2>1. PICK c \in S : TRUE
      OBVIOUS
    <2>2. \/ Wanted(c) = {"mallocLock"} \/ Wanted(c) = {"ulock"}
          \/ Wanted(c) = {} \/ Wanted(c) \subseteq {"vlock"}
      <3>1. c \in HeapCpu
        OBVIOUS
      <3>2. heapAt[c] \in Places
        BY <1>0, <3>1
      <3>3. \/ heapAt[c] \in {"malloc", "post malloc", "free"}
            \/ heapAt[c] \in {"in malloc", "in post malloc", "leave"}
            \/ heapAt[c] \in {"in free", "out", "drain", "post"}
            \/ heapAt[c] \in {"ulock", "invalidate"}
        BY <3>2 DEF Places
      <3> QED BY <1>0, <3>1, <3>3
    <2> QED BY <1>4, <2>1, <2>2
  <1> QED BY <1>1, <1>2, <1>3, <1>4

LEMMA HeapInvSound == HeapInv => HeapSound
  <1> SUFFICES ASSUME HeapInv PROVE HeapSound
    OBVIOUS
  <1>1. ASSUME NEW c \in HeapCpu, heapAt[c] \in {"out", "malloc", "free", "invalidate"} PROVE Handled(c) = {}
    <2>1. posting[c] = {} /\ ulist[c] = <<>>
      BY <1>1, HeapFacts DEF UnmapAt, Unmapping
    <2> QED BY <2>1, EmptyList DEF Handled
  <1>2. PlacedOnce
    BY DEF HeapInv
  <1> QED BY <1>1, <1>2, HeapOrder DEF HeapSound, SegmentsOnce

(* For any number of CPUs and segments, malloc, free and the unmapping of  *)
(* segments never wait for each other in a circle, and every segment is in *)
(* one place and with one CPU at a time (KernelHeap.cc legacy_malloc,      *)
(* legacy_free, dl_munmap; AddressSpace.h munmap, runInvalidation).        *)
THEOREM HeapNeverDeadlocks == HeapSpec => []HeapSound
  <1>1. HeapInit => HeapInv
    BY HeapInvInit
  <1>2. HeapInv /\ [HeapNext]_heapVars => HeapInv'
    BY HeapStep
  <1>3. HeapInv => HeapSound
    BY HeapInvSound
  <1> QED BY <1>1, <1>2, <1>3, PTL DEF HeapSpec
-----------------------------------------------------------------------------
(* A stack without duplicates, and its elements.                            *)
Elems(s) == {s[k] : k \in DOMAIN s}
OneEach(s) == \A j, k \in DOMAIN s : s[j] = s[k] => j = k

Free == Elems(freestack)
(* Slots that programs may use and that hold a valid element.                *)
Held == checkbits \cap given

Stages == {"user", "use", "grow", "wait"} \cup InOpen \cup InClose

(* Types, and the ranges of what the array keeps.                            *)
HtTypes ==
  /\ data \in [Slot -> Access \cup {Garbage}]
  /\ capacity \in Nat /\ index \in Nat /\ index <= capacity /\ 0 < capacity /\ capacity <= Limit
  /\ freestack \in Seq(Nat) /\ Free \subseteq 0 .. index - 1
  /\ checkbits \subseteq 0 .. index - 1 /\ given \subseteq 0 .. index - 1
  /\ live \subseteq Access /\ users \in [Access -> Nat]
  /\ wait \in [Access -> Seq(Thread)]
  /\ stage \in [Thread -> Stages] /\ fd \in [Thread -> Slot]
  /\ elem \in [Thread -> Access \cup {None, Garbage}]
  /\ ref \in [Thread -> BOOLEAN] /\ word \in [Thread -> SUBSET Nat]

(* Only h is ever in open or close.                                          *)
OneActor(h) == \A t \in Thread : t # h => stage[t] \in {"user", "use"}

(* While the array grows h holds the lock, and nothing changes data behind   *)
(* the copy.                                                                 *)
Growth(h) ==
  \/ grower = None /\ stage[h] # "grow"
  \/ /\ grower = h /\ stage[h] = "grow" /\ copy = Copy
     /\ freestack = <<>> /\ index = capacity /\ 2 * capacity <= Limit

(* h is between the free stack and the check bit of a slot.                  *)
Busy(h) == stage[h] \in InOpen \cup InClose

(* Every slot is at one place: valid, on the free stack, or with h.  The     *)
(* check bits that h has read are still the check bits when it writes them.  *)
SlotsPlaced(h) ==
  /\ OneEach(freestack)
  /\ checkbits \cap Free = {} /\ given \cap Free = {}
  /\ Busy(h) => fd[h] < index /\ fd[h] \notin Free /\ (fd[h] \in checkbits <=> stage[h] = "store")
  /\ stage[h] \in InOpen => fd[h] \notin given
  /\ stage[h] = "marking" => word[h] = checkbits
  /\ \A i \in 0 .. index - 1 : i \in checkbits \/ i \in Free \/ (Busy(h) /\ fd[h] = i)

(* Held slots hold distinct objects that exist, users work with what their   *)
(* slot holds, and h inserts or deletes an object that no held slot holds.   *)
ObjectsHeld(h) ==
  /\ \A i \in Held : data[i] \in live
  /\ \A i, j \in Held : data[i] = data[j] => i = j
  /\ \A t \in Thread : stage[t] = "use" => fd[t] \in Held /\ elem[t] = data[fd[t]]
  /\ stage[h] \in InOpen \cup {"delete"} => elem[h] \in live /\ \A i \in Held : data[i] # elem[h]
  /\ stage[h] = "woken" => ref[h] /\ data[fd[h]] \in live /\ \A i \in Held : data[i] # data[fd[h]]
  /\ stage[h] = "wait" => fd[h] \in Held /\ ref[h]

(* Only h waits, for the users of the object in its slot.                    *)
Waiting(h) == \A a \in Access : wait[a] = IF stage[h] = "wait" /\ a = data[fd[h]] THEN <<h>> ELSE <<>>

(* count is the number of threads between access and done.                   *)
Using(a) == {t \in Thread : stage[t] = "use" /\ elem[t] = a}

UsersTrue == \A a \in live : users[a] = Cardinality(Using(a))

(* The inductive invariant.                                                  *)
HandleInv(h) == HtTypes /\ OneActor(h) /\ Growth(h) /\ SlotsPlaced(h) /\ ObjectsHeld(h) /\ Waiting(h) /\ UsersTrue

(* One thread opens and closes handles; any number of them use them.        *)
OneOpener(h) == Openers \subseteq {h} /\ Closers \subseteq {h}

(* The free stack as a set: what a push, a pop and a count see of it.       *)
LEMMA StackTail ==
  ASSUME NEW s \in Seq(Nat), s # <<>>, OneEach(s)
  PROVE  /\ Tail(s) \in Seq(Nat) /\ Head(s) \in Nat
         /\ Head(s) \in Elems(s) /\ Elems(Tail(s)) = Elems(s) \ {Head(s)} /\ OneEach(Tail(s))
  <1> USE DEF Elems, OneEach
  <1>1. /\ Len(s) \in Nat /\ Len(s) >= 1 /\ DOMAIN s = 1 .. Len(s) /\ Head(s) = s[1]
        /\ Tail(s) \in Seq(Nat) /\ Len(Tail(s)) = Len(s) - 1 /\ DOMAIN Tail(s) = 1 .. Len(s) - 1
    OBVIOUS
  <1>2. \A k \in 1 .. Len(s) - 1 : Tail(s)[k] = s[k + 1]
    OBVIOUS
  <1>3. \A k \in 1 .. Len(s) - 1 : k + 1 \in DOMAIN s /\ Tail(s)[k] \in {s[j] : j \in DOMAIN s} /\ Tail(s)[k] # s[1]
    BY <1>1, <1>2
  <1>4. \A j \in DOMAIN s : s[j] # s[1] => j - 1 \in DOMAIN Tail(s) /\ s[j] = Tail(s)[j - 1]
    BY <1>1, <1>2
  <1>5. Head(s) \in Nat /\ Head(s) \in {s[k] : k \in DOMAIN s}
    BY <1>1
  <1>6. {Tail(s)[k] : k \in DOMAIN Tail(s)} = {s[k] : k \in DOMAIN s} \ {Head(s)}
    <2>1. \A x : x \in {Tail(s)[k] : k \in DOMAIN Tail(s)} => x \in {s[k] : k \in DOMAIN s} \ {Head(s)}
      BY <1>1, <1>3
    <2>2. ASSUME NEW j \in DOMAIN s, s[j] # s[1]
          PROVE  s[j] \in {Tail(s)[k] : k \in DOMAIN Tail(s)}
      BY <1>4, <2>2
    <2>3. \A x : x \in {s[k] : k \in DOMAIN s} \ {Head(s)} => x \in {Tail(s)[k] : k \in DOMAIN Tail(s)}
      <3>1. TAKE x
      <3>2. HAVE x \in {s[k] : k \in DOMAIN s} \ {Head(s)}
      <3>3. PICK j \in DOMAIN s : x = s[j]
        BY <3>2
      <3> QED BY <1>1, <2>2, <3>2, <3>3
    <2> QED BY <2>1, <2>3
  <1>7. ASSUME NEW j \in DOMAIN Tail(s), NEW k \in DOMAIN Tail(s), Tail(s)[j] = Tail(s)[k]
        PROVE  j = k
    <2>1. j \in Nat /\ k \in Nat /\ j + 1 \in DOMAIN s /\ k + 1 \in DOMAIN s /\ s[j + 1] = s[k + 1]
      BY <1>1, <1>2, <1>7
    <2>2. j + 1 = k + 1
      BY <2>1
    <2> QED BY <2>1, <2>2
  <1> QED BY <1>1, <1>5, <1>6, <1>7

LEMMA StackPush ==
  ASSUME NEW s \in Seq(Nat), NEW x \in Nat, x \notin Elems(s), OneEach(s)
  PROVE  /\ <<x>> \o s \in Seq(Nat)
         /\ Elems(<<x>> \o s) = Elems(s) \cup {x} /\ OneEach(<<x>> \o s)
  <1> USE DEF Elems, OneEach
  <1> DEFINE u == <<x>> \o s
  <1>1. /\ Len(s) \in Nat /\ DOMAIN s = 1 .. Len(s)
        /\ u \in Seq(Nat) /\ Len(u) = Len(s) + 1 /\ DOMAIN u = 1 .. Len(s) + 1
    OBVIOUS
  <1>2. u[1] = x /\ \A k \in 2 .. Len(s) + 1 : u[k] = s[k - 1]
    OBVIOUS
  <1> HIDE DEF u
  <1>3. \A k \in DOMAIN u : k = 1 \/ (k - 1 \in DOMAIN s /\ u[k] = s[k - 1])
    BY <1>1, <1>2
  <1>4. ASSUME NEW k \in DOMAIN s
        PROVE  k + 1 \in DOMAIN u /\ u[k + 1] = s[k]
    <2>1. k \in Nat /\ k + 1 \in 2 .. Len(s) + 1 /\ (k + 1) - 1 = k
      BY <1>1
    <2> QED BY <1>1, <1>2, <2>1
  <1>5. {u[k] : k \in DOMAIN u} = {s[k] : k \in DOMAIN s} \cup {x}
    <2>1. \A y : y \in {u[k] : k \in DOMAIN u} => y \in {s[k] : k \in DOMAIN s} \cup {x}
      BY <1>2, <1>3
    <2>2. \A y : y \in {s[k] : k \in DOMAIN s} \cup {x} => y \in {u[k] : k \in DOMAIN u}
      <3>1. 1 \in DOMAIN u
        BY <1>1
      <3> QED BY <1>2, <1>4, <3>1
    <2> QED BY <2>1, <2>2
  <1>6. ASSUME NEW j \in DOMAIN u, NEW k \in DOMAIN u, u[j] = u[k]
        PROVE  j = k
    <2>1. j \in Nat /\ k \in Nat
      BY <1>1
    <2>2. j = 1 => k = 1
      BY <1>2, <1>3, <1>6
    <2>3. k = 1 => j = 1
      BY <1>2, <1>3, <1>6
    <2>4. j # 1 /\ k # 1 => j - 1 = k - 1
      BY <1>3, <1>6
    <2> QED BY <2>1, <2>2, <2>3, <2>4
  <1> QED BY <1>1, <1>5, <1>6 DEF u

LEMMA StackCount ==
  ASSUME NEW s \in Seq(Nat), NEW i \in Nat, OneEach(s)
  PROVE  Cardinality({k \in DOMAIN s : s[k] = i}) = IF i \in Elems(s) THEN 1 ELSE 0
  <1> USE DEF Elems, OneEach
  <1>1. CASE i \in {s[k] : k \in DOMAIN s}
    <2>1. PICK k \in DOMAIN s : s[k] = i
      BY <1>1
    <2>2. {j \in DOMAIN s : s[j] = i} = {k}
      BY <2>1
    <2> QED BY <1>1, <2>2, FS_Singleton
  <1>2. CASE i \notin {s[k] : k \in DOMAIN s}
    <2>1. {j \in DOMAIN s : s[j] = i} = {}
      BY <1>2
    <2> QED BY <1>2, <2>1, FS_EmptySet
  <1> QED BY <1>1, <1>2

(* Users of an object: one more, one less, or nobody.                       *)
LEMMA UsersFinite ==
  ASSUME NEW U \in SUBSET Thread
  PROVE  IsFiniteSet(U) /\ Cardinality(U) \in Nat /\ (Cardinality(U) = 0 <=> U = {})
  BY HandleAssumption, FS_Subset, FS_CardinalityType, FS_EmptySet

LEMMA OneMore ==
  ASSUME NEW U \in SUBSET Thread, NEW t \in Thread, t \notin U
  PROVE  Cardinality(U \cup {t}) = Cardinality(U) + 1
  BY UsersFinite, FS_AddElement

LEMMA OneLess ==
  ASSUME NEW U \in SUBSET Thread, NEW t \in U
  PROVE  Cardinality(U \ {t}) = Cardinality(U) - 1
  BY UsersFinite, FS_RemoveElement

LEMMA OnlyOne ==
  ASSUME NEW U \in SUBSET Thread, NEW t \in U, Cardinality(U) = 1
  PROVE  U = {t}
  <1>1. Cardinality(U \ {t}) = 0
    BY OneLess
  <1>2. U \ {t} = {}
    BY <1>1, UsersFinite
  <1> QED BY <1>2

(* The empty array that the process starts with, filled with Std.           *)
LEMMA HandleInvInit ==
  ASSUME NEW h \in Thread, HtInit
  PROVE  HandleInv(h)
  <1>0. /\ Len(Std) \in Nat /\ Len(Std) > 0 /\ Limit \in Nat /\ Limit >= Len(Std) /\ DOMAIN Std = 1 .. Len(Std)
        /\ \A k \in DOMAIN Std : Std[k] \in Access
        /\ \A j, k \in DOMAIN Std : Std[j] = Std[k] => j = k
    BY HandleAssumption
  <1>1. freestack = <<>> /\ Free = {} /\ DOMAIN freestack = {} /\ freestack \in Seq(Nat)
    BY DEF HtInit, Free, Elems
  <1>2. \A i \in checkbits : i \in Slot /\ i + 1 \in DOMAIN Std /\ data[i] = Std[i + 1]
    BY <1>0 DEF HtInit, Slot
  <1>3. HtTypes
    <2>1. data \in [Slot -> Access \cup {Garbage}]
      <3>1. \A i \in Slot : i < Len(Std) => i + 1 \in DOMAIN Std
        BY <1>0 DEF Slot
      <3> QED BY <3>1, <1>0 DEF HtInit
    <2>2. /\ capacity \in Nat /\ index \in Nat /\ index <= capacity /\ 0 < capacity /\ capacity <= Limit
          /\ checkbits \subseteq 0 .. index - 1 /\ given \subseteq 0 .. index - 1 /\ 0 \in Slot
      BY <1>0 DEF HtInit, Slot
    <2>3. wait \in [Access -> Seq(Thread)]
      BY DEF HtInit
    <2>4. live \subseteq Access
      BY <1>0 DEF HtInit
    <2>5. users \in [Access -> Nat]
      BY DEF HtInit
    <2>c. stage \in [Thread -> Stages]
      BY DEF HtInit, Stages
    <2>d. elem \in [Thread -> Access \cup {None, Garbage}]
      BY DEF HtInit
    <2>a. ref \in [Thread -> BOOLEAN]
      BY DEF HtInit
    <2>b. word \in [Thread -> SUBSET Nat]
      <3>1. {} \in SUBSET Nat
        OBVIOUS
      <3>2. word = [t \in Thread |-> {}]
        BY DEF HtInit
      <3> QED BY <3>1, <3>2, Zenon
    <2>6. fd \in [Thread -> Slot]
      BY <2>2 DEF HtInit
    <2> QED BY <1>1, <2>1, <2>2, <2>3, <2>4, <2>5, <2>6, <2>a, <2>b, <2>c, <2>d DEF HtTypes
  <1>4. OneActor(h) /\ Growth(h)
    BY DEF HtInit, OneActor, Growth
  <1>5. SlotsPlaced(h)
    BY <1>1 DEF HtInit, SlotsPlaced, OneEach, Busy, InOpen, InClose
  <1>6. ObjectsHeld(h)
    <2>1. \A i \in Held : data[i] \in live
      BY <1>2 DEF HtInit, Held
    <2>2. ASSUME NEW i \in Held, NEW j \in Held, data[i] = data[j]
          PROVE  i = j
      <3>1. i \in Int /\ j \in Int /\ i + 1 = j + 1
        BY <1>0, <1>2, <2>2 DEF Held, Slot
      <3> QED BY <3>1
    <2> QED BY <2>1, <2>2 DEF HtInit, ObjectsHeld, InOpen
  <1>7. Waiting(h)
    BY DEF HtInit, Waiting
  <1>8. UsersTrue
    <2>1. \A a : Using(a) = {}
      BY DEF HtInit, Using
    <2>2. \A a \in live : a \in Access
      BY <1>0 DEF HtInit
    <2>3. \A a \in Access : users[a] = 0
      BY DEF HtInit
    <2>4. Cardinality({}) = 0
      BY FS_EmptySet
    <2> QED BY <2>1, <2>2, <2>3, <2>4 DEF UsersTrue
  <1> QED BY <1>3, <1>4, <1>5, <1>6, <1>7, <1>8 DEF HandleInv

LEMMA HeldSlots ==
  ASSUME HtTypes
  PROVE  \A i \in checkbits \cup given : i \in Slot /\ i \in Nat /\ i < index
  BY HandleAssumption DEF HtTypes, Slot

(* Each step keeps the slots, the objects and their users in order.         *)
LEMMA MarkReadKeeps ==
  ASSUME NEW h \in Thread, OneOpener(h), HandleInv(h), NEW t \in Thread, MarkRead(t)
  PROVE  HandleInv(h)'
  <1> USE DEF arrayVars, Proceed, Stages, InOpen, InClose
  <1>a. HtTypes /\ OneActor(h) /\ Growth(h) /\ SlotsPlaced(h) /\ ObjectsHeld(h) /\ Waiting(h) /\ UsersTrue
    BY DEF HandleInv
  <1>1. HtTypes'
    BY <1>a DEF HtTypes, MarkRead, Free
  <1>2. OneActor(h)'
    BY <1>a DEF OneActor, HtTypes, MarkRead, OneOpener
  <1>3. Growth(h)'
    BY <1>a DEF OneActor, HtTypes, MarkRead, OneOpener, Growth, Copy, Unlocked
  <1>4. SlotsPlaced(h)'
    BY <1>a DEF OneActor, HtTypes, MarkRead, OneOpener, SlotsPlaced, Free, Busy
  <1>5. ObjectsHeld(h)'
    BY <1>a DEF OneActor, HtTypes, MarkRead, OneOpener, ObjectsHeld, SlotsPlaced, Held, Usable, valid, Busy
  <1>6. Waiting(h)'
    BY <1>a DEF OneActor, HtTypes, MarkRead, OneOpener, Waiting, ObjectsHeld, Held
  <1>7. UsersTrue'
    BY <1>a DEF OneActor, HtTypes, MarkRead, UsersTrue, Using, ObjectsHeld, Held
  <1> QED BY <1>1, <1>2, <1>3, <1>4, <1>5, <1>6, <1>7 DEF HandleInv

LEMMA MarkWriteKeeps ==
  ASSUME NEW h \in Thread, OneOpener(h), HandleInv(h), NEW t \in Thread, MarkWrite(t)
  PROVE  HandleInv(h)'
  <1> USE DEF arrayVars, Proceed, Stages, InOpen, InClose
  <1>a. HtTypes /\ OneActor(h) /\ Growth(h) /\ SlotsPlaced(h) /\ ObjectsHeld(h) /\ Waiting(h) /\ UsersTrue
    BY DEF HandleInv
  <1>b. t = h
    BY <1>a DEF OneActor, MarkWrite
  <1>1. HtTypes'
    <2>1. fd[h] < index /\ fd[h] \in Nat /\ word[h] = checkbits
      BY <1>a, <1>b DEF HtTypes, SlotsPlaced, Busy, MarkWrite, Slot
    <2>2. checkbits' = checkbits \cup {fd[h]} /\ checkbits' \subseteq 0 .. index - 1
      BY <1>a, <1>b, <2>1 DEF HtTypes, MarkWrite
    <2>3. Free' = Free
      BY DEF Free, MarkWrite
    <2>4. word' \in [Thread -> SUBSET Nat]
      <3>1. {} \in SUBSET Nat
        OBVIOUS
      <3> QED BY <1>a, <3>1 DEF HtTypes, MarkWrite
    <2>5. stage' \in [Thread -> Stages]
      BY <1>a DEF HtTypes, MarkWrite
    <2> QED BY <1>a, <2>2, <2>3, <2>4, <2>5 DEF HtTypes, MarkWrite
  <1>2. OneActor(h)'
    BY <1>a DEF OneActor, HtTypes, MarkWrite, OneOpener
  <1>3. Growth(h)'
    BY <1>a DEF OneActor, HtTypes, MarkWrite, OneOpener, Growth, Copy, Unlocked
  <1>4. SlotsPlaced(h)'
    <2>1. checkbits' = checkbits \cup {fd[h]} /\ stage'[h] = "store" /\ Free' = Free
      BY <1>a, <1>b DEF HtTypes, SlotsPlaced, MarkWrite, Free
    <2> QED BY <1>a, <1>b, <2>1 DEF HtTypes, MarkWrite, SlotsPlaced, Busy
  <1>5. ObjectsHeld(h)'
    <2>1. checkbits' = checkbits \cup {fd[h]} /\ stage'[h] = "store" /\ fd[h] \notin given
      BY <1>a, <1>b DEF HtTypes, SlotsPlaced, MarkWrite
    <2>2. Held' = Held
      BY <1>a, <2>1 DEF MarkWrite, Held
    <2>3. \A u \in Thread : stage'[u] = "use" <=> stage[u] = "use"
      BY <1>a, <1>b DEF HtTypes, MarkWrite
    <2> QED BY <1>a, <1>b, <2>1, <2>2, <2>3 DEF MarkWrite, ObjectsHeld
  <1>6. Waiting(h)'
    BY <1>a DEF OneActor, HtTypes, MarkWrite, OneOpener, Waiting, ObjectsHeld, Held
  <1>7. UsersTrue'
    BY <1>a DEF OneActor, HtTypes, MarkWrite, UsersTrue, Using, ObjectsHeld, Held
  <1> QED BY <1>1, <1>2, <1>3, <1>4, <1>5, <1>6, <1>7 DEF HandleInv

LEMMA StoreKeeps ==
  ASSUME NEW h \in Thread, OneOpener(h), HandleInv(h), NEW t \in Thread, Store(t)
  PROVE  HandleInv(h)'
  <1> USE DEF arrayVars, Proceed, Stages, InOpen, InClose
  <1>a. HtTypes /\ OneActor(h) /\ Growth(h) /\ SlotsPlaced(h) /\ ObjectsHeld(h) /\ Waiting(h) /\ UsersTrue
    BY DEF HandleInv
  <1>b. t = h
    BY <1>a DEF OneActor, Store
  <1>1. HtTypes'
    <2>1. fd[h] < index /\ fd[h] \in Nat /\ elem[h] \in Access
      BY <1>a, <1>b DEF HtTypes, SlotsPlaced, ObjectsHeld, Busy, Store, Slot
    <2>2. data' \in [Slot -> Access \cup {Garbage}]
      BY <1>a, <1>b, <2>1 DEF HtTypes, Store
    <2>3. Free' = Free
      BY DEF Free, Store
    <2>4. stage' \in [Thread -> Stages] /\ elem' \in [Thread -> Access \cup {None, Garbage}]
      BY <1>a DEF HtTypes, Store
    <2>5. given' \subseteq 0 .. index - 1
      <3>1. given' = given \cup {fd[h]} /\ index \in Nat /\ fd[h] \in 0 .. index - 1
        BY <1>a, <1>b, <2>1 DEF HtTypes, Store
      <3> QED BY <1>a, <3>1 DEF HtTypes
    <2> QED BY <1>a, <2>2, <2>3, <2>4, <2>5 DEF HtTypes, Store
  <1>2. OneActor(h)'
    BY <1>a DEF OneActor, HtTypes, Store, OneOpener
  <1>3. Growth(h)'
    BY <1>a DEF OneActor, HtTypes, Store, OneOpener, Growth, Copy, Unlocked
  <1>4. SlotsPlaced(h)'
    <2>1. stage'[h] = "user" /\ Free' = Free /\ given' = given \cup {fd[h]}
      BY <1>a, <1>b DEF HtTypes, Store, Free
    <2>2. fd[h] \in checkbits /\ fd[h] \notin Free
      BY <1>a, <1>b DEF SlotsPlaced, Store, Busy
    <2> QED BY <1>a, <1>b, <2>1, <2>2 DEF Store, SlotsPlaced, Busy
  <1>5. ObjectsHeld(h)'
    <2>1. /\ stage'[h] = "user" /\ fd[h] \in checkbits /\ fd[h] \notin given /\ fd[h] \in Slot
          /\ elem[h] \in live /\ \A i \in Held : data[i] # elem[h] /\ i \in Slot
          /\ data' = [data EXCEPT ![fd[h]] = elem[h]] /\ data \in [Slot -> Access \cup {Garbage}]
      <3>1. stage[h] = "store" /\ data' = [data EXCEPT ![fd[h]] = elem[h]] /\ data \in [Slot -> Access \cup {Garbage}]
        BY <1>a, <1>b DEF Store, HtTypes
      <3>2. stage'[h] = "user" /\ fd[h] \in Slot
        BY <1>a, <1>b DEF Store, HtTypes
      <3>3. fd[h] \in checkbits /\ fd[h] \notin given
        BY <1>a, <3>1 DEF SlotsPlaced, Busy
      <3>4. elem[h] \in live /\ \A i \in Held : data[i] # elem[h] /\ i \in Slot
        BY <1>a, <3>1, HeldSlots DEF ObjectsHeld, Held
      <3> QED BY <3>1, <3>2, <3>3, <3>4
    <2>2. Held' = Held \cup {fd[h]} /\ fd[h] \notin Held
      BY <1>a, <1>b, <2>1 DEF Store, Held
    <2>3. data'[fd[h]] = elem[h] /\ \A i \in Held : data'[i] = data[i]
      BY <2>1, <2>2
    <2>4. \A u \in Thread : (stage'[u] = "use" <=> stage[u] = "use") /\ (stage[u] = "use" => elem'[u] = elem[u])
      BY <1>a, <1>b DEF HtTypes, Store
    <2>5. \A i \in Held' : data'[i] \in live'
      BY <1>a, <2>1, <2>2, <2>3 DEF Store, ObjectsHeld
    <2>6. \A i, j \in Held' : data'[i] = data'[j] => i = j
      BY <1>a, <2>1, <2>2, <2>3 DEF Store, ObjectsHeld
    <2>7. \A u \in Thread : stage'[u] = "use" => fd'[u] \in Held' /\ elem'[u] = data'[fd'[u]]
      BY <1>a, <2>2, <2>3, <2>4 DEF Store, ObjectsHeld
    <2> QED BY <2>1, <2>5, <2>6, <2>7 DEF ObjectsHeld
  <1>6. Waiting(h)'
    BY <1>a DEF OneActor, HtTypes, Store, OneOpener, Waiting, ObjectsHeld, Held
  <1>7. UsersTrue'
    BY <1>a DEF OneActor, HtTypes, Store, UsersTrue, Using, ObjectsHeld, Held
  <1> QED BY <1>1, <1>2, <1>3, <1>4, <1>5, <1>6, <1>7 DEF HandleInv

LEMMA AccessElemKeeps ==
  ASSUME NEW h \in Thread, OneOpener(h), HandleInv(h), NEW t \in Thread, NEW i \in Slot, AccessElem(t, i)
  PROVE  HandleInv(h)'
  <1> USE DEF arrayVars, Proceed, Stages, InOpen, InClose
  <1>a. HtTypes /\ OneActor(h) /\ Growth(h) /\ SlotsPlaced(h) /\ ObjectsHeld(h) /\ Waiting(h) /\ UsersTrue
    BY DEF HandleInv
  <1>1. HtTypes'
    BY <1>a DEF HtTypes, AccessElem, Free
  <1>2. OneActor(h)'
    BY <1>a DEF OneActor, HtTypes, AccessElem, OneOpener
  <1>3. Growth(h)'
    BY <1>a DEF OneActor, HtTypes, AccessElem, OneOpener, Growth, Copy, Unlocked
  <1>4. SlotsPlaced(h)'
    BY <1>a DEF OneActor, HtTypes, AccessElem, OneOpener, SlotsPlaced, Free, Busy
  <1>5. ObjectsHeld(h)'
    BY <1>a DEF OneActor, HtTypes, AccessElem, OneOpener, ObjectsHeld, SlotsPlaced, Held, Usable, valid, Busy
  <1>6. Waiting(h)'
    BY <1>a DEF OneActor, HtTypes, AccessElem, OneOpener, Waiting, ObjectsHeld, Held
  <1>7. UsersTrue'
    <2>1. data[i] \in live /\ data[i] \in Access /\ stage[t] = "user" /\ t \notin Using(data[i])
      BY <1>a DEF AccessElem, HtTypes, Using
    <2>2. Using(data[i])' = Using(data[i]) \cup {t}
      BY <1>a, <2>1 DEF AccessElem, HtTypes, Using
    <2>3. ASSUME NEW x, x # data[i]
          PROVE  Using(x)' = Using(x)
      BY <1>a, <2>1, <2>3 DEF AccessElem, HtTypes, Using
    <2>4. Using(data[i]) \in SUBSET Thread
      BY DEF Using
    <2>5. Cardinality(Using(data[i])') = users[data[i]] + 1
      BY <1>a, <2>1, <2>2, <2>4, OneMore DEF UsersTrue
    <2>6. ASSUME NEW x \in live'
          PROVE  users'[x] = Cardinality(Using(x)')
      <3>1. x \in live /\ x \in Access
        BY <1>a DEF AccessElem, HtTypes
      <3>2. CASE x = data[i]
        BY <1>a, <2>1, <2>5, <3>2 DEF AccessElem, HtTypes
      <3>3. CASE x # data[i]
        <4>1. users'[x] = users[x]
          BY <1>a, <2>1, <3>1, <3>3 DEF AccessElem, HtTypes
        <4> QED BY <1>a, <2>3, <3>1, <3>3, <4>1 DEF UsersTrue
      <3> QED BY <3>2, <3>3
    <2> QED BY <2>6 DEF UsersTrue
  <1> QED BY <1>1, <1>2, <1>3, <1>4, <1>5, <1>6, <1>7 DEF HandleInv

LEMMA RemoveHandleKeeps ==
  ASSUME NEW h \in Thread, OneOpener(h), HandleInv(h), NEW t \in Thread, NEW i \in Slot, RemoveHandle(t, i)
  PROVE  HandleInv(h)'
  <1> USE DEF arrayVars, Proceed, Stages, InOpen, InClose
  <1>a. HtTypes /\ OneActor(h) /\ Growth(h) /\ SlotsPlaced(h) /\ ObjectsHeld(h) /\ Waiting(h) /\ UsersTrue
    BY DEF HandleInv
  <1>b. t = h
    BY <1>a DEF OneActor, OneOpener, RemoveHandle
  <1>1. HtTypes'
    BY <1>a DEF HtTypes, RemoveHandle, Free
  <1>2. OneActor(h)'
    BY <1>a DEF OneActor, HtTypes, RemoveHandle, OneOpener
  <1>3. Growth(h)'
    BY <1>a DEF OneActor, HtTypes, RemoveHandle, OneOpener, Growth, Copy, Unlocked
  <1>4. SlotsPlaced(h)'
    <2>1. i \in checkbits /\ i < index /\ stage'[h] = "delete" /\ fd'[h] = i /\ Free' = Free /\ stage[h] = "user"
      BY <1>a, <1>b DEF RemoveHandle, HtTypes, Usable, valid, Free
    <2> QED BY <1>a, <1>b, <2>1 DEF RemoveHandle, SlotsPlaced, Busy
  <1>5. ObjectsHeld(h)'
    <2>1. /\ i \in Held /\ data[i] \in live /\ data[i] \in Access /\ users[data[i]] = 0
          /\ stage'[h] = "delete" /\ fd'[h] = i /\ elem'[h] = data[i] /\ Held' = Held \ {i}
      BY <1>a, <1>b DEF RemoveHandle, HtTypes, Usable, valid, Held
    <2>2. Using(data[i]) = {}
      <3>1. Using(data[i]) \in SUBSET Thread
        BY DEF Using
      <3> QED BY <1>a, <2>1, <3>1, UsersFinite DEF UsersTrue
    <2>3. \A u \in Thread : stage[u] = "use" => fd[u] # i
      BY <1>a, <2>2 DEF ObjectsHeld, Using
    <2>4. \A u \in Thread : stage'[u] = "use" => stage[u] = "use" /\ elem'[u] = elem[u] /\ fd'[u] = fd[u]
      BY <1>a, <1>b DEF RemoveHandle, HtTypes
    <2>5. \A u \in Thread : stage'[u] = "use" => fd'[u] \in Held' /\ elem'[u] = data'[fd'[u]]
      BY <1>a, <2>1, <2>3, <2>4 DEF RemoveHandle, ObjectsHeld
    <2> QED BY <1>a, <2>1, <2>5 DEF ObjectsHeld, RemoveHandle
  <1>6. Waiting(h)'
    BY <1>a DEF OneActor, HtTypes, RemoveHandle, OneOpener, Waiting, ObjectsHeld, Held
  <1>7. UsersTrue'
    <2>1. \A x : Using(x)' = Using(x)
      <3>1. \A u \in Thread : (stage'[u] = "use" <=> stage[u] = "use") /\ (stage[u] = "use" => elem'[u] = elem[u])
        BY <1>a, <1>b DEF HtTypes, RemoveHandle
      <3> QED BY <3>1 DEF Using
    <2> QED BY <1>a, <2>1 DEF UsersTrue, RemoveHandle
  <1> QED BY <1>1, <1>2, <1>3, <1>4, <1>5, <1>6, <1>7 DEF HandleInv

LEMMA RemoveWaitKeeps ==
  ASSUME NEW h \in Thread, OneOpener(h), HandleInv(h), NEW t \in Thread, NEW i \in Slot, RemoveWait(t, i)
  PROVE  HandleInv(h)'
  <1> USE DEF arrayVars, Proceed, Stages, InOpen, InClose
  <1>a. HtTypes /\ OneActor(h) /\ Growth(h) /\ SlotsPlaced(h) /\ ObjectsHeld(h) /\ Waiting(h) /\ UsersTrue
    BY DEF HandleInv
  <1>b. t = h
    BY <1>a DEF OneActor, OneOpener, RemoveWait
  <1>1. HtTypes'
    BY <1>a DEF HtTypes, RemoveWait, Free
  <1>2. OneActor(h)'
    BY <1>a DEF OneActor, HtTypes, RemoveWait, OneOpener
  <1>3. Growth(h)'
    BY <1>a DEF OneActor, HtTypes, RemoveWait, OneOpener, Growth, Copy, Unlocked
  <1>4. SlotsPlaced(h)'
    BY <1>a DEF OneActor, HtTypes, RemoveWait, OneOpener, SlotsPlaced, Free, Busy
  <1>5. ObjectsHeld(h)'
    BY <1>a DEF OneActor, HtTypes, RemoveWait, OneOpener, ObjectsHeld, SlotsPlaced, Held, Usable, valid, Busy
  <1>6. Waiting(h)'
    <2>1. stage[h] = "user" /\ stage'[h] = "wait" /\ fd'[h] = i /\ data[i] \in Access /\ data' = data
      BY <1>a, <1>b DEF RemoveWait, HtTypes
    <2>2. \A x \in Access : wait[x] = <<>>
      BY <1>a, <2>1 DEF Waiting
    <2>3. wait' = [wait EXCEPT ![data[i]] = <<h>>]
      <3>1. wait[data[i]] = <<>>
        BY <2>1, <2>2
      <3>2. Append(<<>>, h) = <<h>>
        OBVIOUS
      <3> QED BY <1>b, <3>1, <3>2 DEF RemoveWait
    <2> QED BY <1>a, <2>1, <2>2, <2>3 DEF HtTypes, Waiting
  <1>7. UsersTrue'
    <2>1. \A x : Using(x)' = Using(x)
      <3>1. \A u \in Thread : (stage'[u] = "use" <=> stage[u] = "use") /\ (stage[u] = "use" => elem'[u] = elem[u])
        BY <1>a, <1>b DEF HtTypes, RemoveWait
      <3> QED BY <3>1 DEF Using
    <2> QED BY <1>a, <2>1 DEF UsersTrue, RemoveWait
  <1> QED BY <1>1, <1>2, <1>3, <1>4, <1>5, <1>6, <1>7 DEF HandleInv

LEMMA RemoveWokenKeeps ==
  ASSUME NEW h \in Thread, OneOpener(h), HandleInv(h), NEW t \in Thread, RemoveWoken(t)
  PROVE  HandleInv(h)'
  <1> USE DEF arrayVars, Proceed, Stages, InOpen, InClose
  <1>a. HtTypes /\ OneActor(h) /\ Growth(h) /\ SlotsPlaced(h) /\ ObjectsHeld(h) /\ Waiting(h) /\ UsersTrue
    BY DEF HandleInv
  <1>1. HtTypes'
    BY <1>a DEF HtTypes, RemoveWoken, Free
  <1>2. OneActor(h)'
    BY <1>a DEF OneActor, HtTypes, RemoveWoken, OneOpener
  <1>3. Growth(h)'
    BY <1>a DEF OneActor, HtTypes, RemoveWoken, OneOpener, Growth, Copy, Unlocked
  <1>4. SlotsPlaced(h)'
    BY <1>a DEF OneActor, HtTypes, RemoveWoken, OneOpener, SlotsPlaced, Free, Busy
  <1>5. ObjectsHeld(h)'
    BY <1>a DEF OneActor, HtTypes, RemoveWoken, OneOpener, ObjectsHeld, SlotsPlaced, Held, Usable, valid, Busy
  <1>6. Waiting(h)'
    BY <1>a DEF OneActor, HtTypes, RemoveWoken, OneOpener, Waiting, ObjectsHeld, Held
  <1>7. UsersTrue'
    BY <1>a DEF OneActor, HtTypes, RemoveWoken, UsersTrue, Using, ObjectsHeld, Held
  <1> QED BY <1>1, <1>2, <1>3, <1>4, <1>5, <1>6, <1>7 DEF HandleInv

LEMMA DeleteKeeps ==
  ASSUME NEW h \in Thread, OneOpener(h), HandleInv(h), NEW t \in Thread, Delete(t)
  PROVE  HandleInv(h)'
  <1> USE DEF arrayVars, Proceed, Stages, InOpen, InClose
  <1>a. HtTypes /\ OneActor(h) /\ Growth(h) /\ SlotsPlaced(h) /\ ObjectsHeld(h) /\ Waiting(h) /\ UsersTrue
    BY DEF HandleInv
  <1>b. t = h
    BY <1>a DEF OneActor, Delete
  <1>1. HtTypes'
    BY <1>a DEF HtTypes, Delete, Free
  <1>2. OneActor(h)'
    BY <1>a DEF OneActor, HtTypes, Delete, OneOpener
  <1>3. Growth(h)'
    BY <1>a DEF OneActor, HtTypes, Delete, OneOpener, Growth, Copy, Unlocked
  <1>4. SlotsPlaced(h)'
    BY <1>a DEF OneActor, HtTypes, Delete, OneOpener, SlotsPlaced, Free, Busy
  <1>5. ObjectsHeld(h)'
    <2>1. /\ stage[h] = "delete" /\ stage'[h] = "release" /\ live' = live \ {elem[h]} /\ Held' = Held
          /\ \A i \in Held : data[i] # elem[h]
      BY <1>a, <1>b DEF Delete, HtTypes, Held, ObjectsHeld
    <2>2. \A u \in Thread : (stage'[u] = "use" <=> stage[u] = "use") /\ (stage[u] = "use" => elem'[u] = elem[u])
      BY <1>a, <1>b DEF HtTypes, Delete
    <2>3. \A i \in Held' : data'[i] \in live'
      BY <1>a, <2>1 DEF ObjectsHeld, Delete
    <2> QED BY <1>a, <2>1, <2>2, <2>3 DEF ObjectsHeld, Delete
  <1>6. Waiting(h)'
    BY <1>a DEF OneActor, HtTypes, Delete, OneOpener, Waiting, ObjectsHeld, Held
  <1>7. UsersTrue'
    <2>1. \A x : Using(x)' = Using(x)
      <3>1. \A u \in Thread : (stage'[u] = "use" <=> stage[u] = "use") /\ (stage[u] = "use" => elem'[u] = elem[u])
        BY <1>a, <1>b DEF HtTypes, Delete
      <3> QED BY <3>1 DEF Using
    <2> QED BY <1>a, <2>1 DEF UsersTrue, Delete
  <1> QED BY <1>1, <1>2, <1>3, <1>4, <1>5, <1>6, <1>7 DEF HandleInv

LEMMA OpenGrowKeeps ==
  ASSUME NEW h \in Thread, OneOpener(h), HandleInv(h), NEW t \in Thread, OpenGrow(t)
  PROVE  HandleInv(h)'
  <1> USE DEF arrayVars, Proceed, Stages, InOpen, InClose
  <1>a. HtTypes /\ OneActor(h) /\ Growth(h) /\ SlotsPlaced(h) /\ ObjectsHeld(h) /\ Waiting(h) /\ UsersTrue
    BY DEF HandleInv
  <1>b. t = h
    BY <1>a DEF OneActor, OneOpener, OpenGrow
  <1>1. HtTypes'
    BY <1>a DEF HtTypes, OpenGrow, Free
  <1>2. OneActor(h)'
    BY <1>a DEF OneActor, HtTypes, OpenGrow, OneOpener
  <1>3. Growth(h)'
    BY <1>a DEF OneActor, HtTypes, OpenGrow, OneOpener, Growth, Copy, Unlocked
  <1>4. SlotsPlaced(h)'
    BY <1>a DEF OneActor, HtTypes, OpenGrow, OneOpener, SlotsPlaced, Free, Busy
  <1>5. ObjectsHeld(h)'
    BY <1>a DEF OneActor, HtTypes, OpenGrow, OneOpener, ObjectsHeld, SlotsPlaced, Held, Usable, valid, Busy
  <1>6. Waiting(h)'
    BY <1>a DEF OneActor, HtTypes, OpenGrow, OneOpener, Waiting, ObjectsHeld, Held
  <1>7. UsersTrue'
    <2>1. \A x : Using(x)' = Using(x)
      <3>1. \A u \in Thread : (stage'[u] = "use" <=> stage[u] = "use") /\ (stage[u] = "use" => elem'[u] = elem[u])
        BY <1>a, <1>b DEF HtTypes, OpenGrow
      <3> QED BY <3>1 DEF Using
    <2> QED BY <1>a, <2>1 DEF UsersTrue, OpenGrow
  <1> QED BY <1>1, <1>2, <1>3, <1>4, <1>5, <1>6, <1>7 DEF HandleInv

LEMMA ReleaseKeeps ==
  ASSUME NEW h \in Thread, OneOpener(h), HandleInv(h), NEW t \in Thread, Release(t)
  PROVE  HandleInv(h)'
  <1> USE DEF arrayVars, Proceed, Stages, InOpen, InClose
  <1>a. HtTypes /\ OneActor(h) /\ Growth(h) /\ SlotsPlaced(h) /\ ObjectsHeld(h) /\ Waiting(h) /\ UsersTrue
    BY DEF HandleInv
  <1>b. t = h
    BY <1>a DEF OneActor, Release
  <1>c. /\ fd[h] \in 0 .. index - 1 /\ fd[h] \notin Free /\ fd[h] \notin checkbits
        /\ freestack' \in Seq(Nat) /\ Free' = Free \cup {fd[h]}
        /\ OneEach(freestack)'
    <2>1. /\ fd[h] \in 0 .. index - 1 /\ fd[h] \notin Free /\ fd[h] \notin checkbits /\ fd[h] \in Nat
          /\ freestack' = <<fd[h]>> \o freestack
      BY <1>a, <1>b DEF Release, SlotsPlaced, Busy, HtTypes, Slot
    <2>2. freestack \in Seq(Nat) /\ OneEach(freestack)
      BY <1>a DEF HtTypes, SlotsPlaced
    <2> QED BY <2>1, <2>2, StackPush DEF Free
  <1>1. HtTypes'
    <2>1. given' \subseteq 0 .. index - 1 /\ stage' \in [Thread -> Stages]
      BY <1>a DEF HtTypes, Release
    <2>2. freestack' \in Seq(Nat) /\ Free' \subseteq 0 .. index - 1
      BY <1>a, <1>c DEF HtTypes
    <2> QED BY <1>a, <2>1, <2>2 DEF HtTypes, Release
  <1>2. OneActor(h)'
    BY <1>a DEF OneActor, HtTypes, Release, OneOpener
  <1>3. Growth(h)'
    BY <1>a DEF OneActor, HtTypes, Release, OneOpener, Growth, Copy, Unlocked
  <1>4. SlotsPlaced(h)'
    <2>1. OneEach(freestack)'
      BY <1>c
    <2>2. /\ stage[h] = "release" /\ stage'[h] = "user" /\ given' = given \ {fd[h]}
          /\ index' = index /\ checkbits' = checkbits /\ word' = word
      BY <1>a, <1>b DEF Release, HtTypes
    <2>3. \A i \in 0 .. index' - 1 : i \in checkbits' \/ i \in Free'
      BY <1>a, <1>c, <2>2 DEF SlotsPlaced
    <2>4. checkbits' \cap Free' = {} /\ given' \cap Free' = {}
      BY <1>a, <1>c, <2>2 DEF SlotsPlaced
    <2> QED BY <2>1, <2>2, <2>3, <2>4 DEF SlotsPlaced, Busy
  <1>5. ObjectsHeld(h)'
    <2>1. Held' = Held /\ stage'[h] = "user"
      BY <1>a, <1>b, <1>c DEF Release, Held, HtTypes
    <2>2. \A u \in Thread : stage'[u] = "use" <=> stage[u] = "use"
      BY <1>a, <1>b DEF HtTypes, Release
    <2> QED BY <1>a, <2>1, <2>2 DEF ObjectsHeld, Release
  <1>6. Waiting(h)'
    BY <1>a DEF OneActor, HtTypes, Release, OneOpener, Waiting, ObjectsHeld, Held
  <1>7. UsersTrue'
    BY <1>a DEF OneActor, HtTypes, Release, UsersTrue, Using, ObjectsHeld, Held
  <1> QED BY <1>1, <1>2, <1>3, <1>4, <1>5, <1>6, <1>7 DEF HandleInv

LEMMA OpenKeeps ==
  ASSUME NEW h \in Thread, OneOpener(h), HandleInv(h), NEW t \in Thread, NEW a \in Access, Open(t, a)
  PROVE  HandleInv(h)'
  <1> USE DEF arrayVars, Proceed, Stages, InOpen, InClose
  <1>a. HtTypes /\ OneActor(h) /\ Growth(h) /\ SlotsPlaced(h) /\ ObjectsHeld(h) /\ Waiting(h) /\ UsersTrue
    BY DEF HandleInv
  <1>b. t = h
    BY <1>a DEF OneActor, OneOpener, Open
  <1> DEFINE Taken == IF freestack # <<>> THEN Head(freestack) ELSE index
  <1>c. /\ Taken \in 0 .. index' - 1 /\ Taken < index' /\ Taken \notin Free' /\ Taken \notin checkbits /\ Taken \notin given
        /\ Taken \in Slot /\ fd' = [fd EXCEPT ![h] = Taken]
        /\ freestack' \in Seq(Nat) /\ Free' \subseteq 0 .. index' - 1
        /\ OneEach(freestack)'
        /\ index' \in Nat /\ index' <= capacity /\ index <= index' /\ Free \subseteq Free' \cup {Taken} /\ Free' \subseteq Free
        /\ \A i \in 0 .. index' - 1 : i \in 0 .. index - 1 \/ i = Taken
    <2>1. /\ freestack \in Seq(Nat) /\ index \in Nat /\ capacity \in Nat /\ index <= capacity /\ capacity <= Limit
          /\ Free \subseteq 0 .. index - 1 /\ fd' = [fd EXCEPT ![h] = Taken] /\ Limit \in Nat
          /\ checkbits \subseteq 0 .. index - 1 /\ given \subseteq 0 .. index - 1
      BY <1>a, <1>b, HandleAssumption DEF Open, HtTypes
    <2>2. /\ OneEach(freestack)
          /\ checkbits \cap Free = {} /\ given \cap Free = {}
      BY <1>a DEF SlotsPlaced
    <2>3. CASE freestack # <<>>
      <3>1. index' = index /\ freestack' = Tail(freestack) /\ Taken = Head(freestack)
        BY <2>3 DEF Open
      <3>2. Free' = Free \ {Taken} /\ Taken \in Free /\ freestack' \in Seq(Nat)
        BY <2>1, <2>2, <2>3, <3>1, StackTail DEF Free
      <3>3. OneEach(freestack)'
        BY <2>1, <2>2, <2>3, <3>1, StackTail
      <3> HIDE DEF Taken
      <3>4. Taken \in 0 .. index - 1 /\ Taken \in Slot
        BY <2>1, <3>2 DEF Slot
      <3>5. Taken \notin checkbits /\ Taken \notin given /\ Taken \notin Free'
        BY <2>2, <3>2
      <3>6. Free' \subseteq 0 .. index - 1 /\ Free \subseteq Free' \cup {Taken} /\ Free' \subseteq Free
        BY <2>1, <3>2
      <3> QED BY <2>1, <3>1, <3>2, <3>3, <3>4, <3>5, <3>6
    <2>4. CASE freestack = <<>>
      <3>1. index' = index + 1 /\ index < capacity /\ freestack' = <<>> /\ Taken = index
        BY <2>4 DEF Open
      <3>2. Free' = {} /\ Free = {} /\ freestack' \in Seq(Nat) /\ DOMAIN freestack' = {}
        BY <2>4, <3>1 DEF Free, Elems
      <3>3. OneEach(freestack)'
        BY <3>2 DEF OneEach
      <3> HIDE DEF Taken
      <3> QED BY <2>1, <2>2, <3>1, <3>2, <3>3 DEF Slot
    <2> QED BY <2>3, <2>4
  <1> HIDE DEF Taken
  <1>1. HtTypes'
    <2>1. checkbits' \subseteq 0 .. index' - 1 /\ given' \subseteq 0 .. index' - 1
      <3>1. checkbits' = checkbits /\ given' = given
        BY DEF Open
      <3>2. index \in Nat /\ checkbits \subseteq 0 .. index - 1 /\ given \subseteq 0 .. index - 1
        BY <1>a DEF HtTypes
      <3>3. 0 .. index - 1 \subseteq 0 .. index' - 1
        <4>1. index' \in Nat /\ index <= index'
          BY <1>c
        <4>2. \A m, n \in Nat : m <= n => 0 .. m - 1 \subseteq 0 .. n - 1
          OBVIOUS
        <4> QED BY <3>2, <4>1, <4>2
      <3> QED BY <3>1, <3>2, <3>3
    <2>2. fd' \in [Thread -> Slot]
      BY <1>a, <1>c DEF HtTypes
    <2>3. /\ users' \in [Access -> Nat] /\ live' \subseteq Access
          /\ stage' \in [Thread -> Stages] /\ elem' \in [Thread -> Access \cup {None, Garbage}]
      BY <1>a DEF HtTypes, Open
    <2>4. wait' \in [Access -> Seq(Thread)]
      <3>1. <<>> \in Seq(Thread)
        OBVIOUS
      <3> QED BY <1>a, <3>1 DEF HtTypes, Open
    <2> QED BY <1>a, <1>c, <2>1, <2>2, <2>3, <2>4 DEF HtTypes, Open
  <1>2. OneActor(h)'
    BY <1>a DEF OneActor, HtTypes, Open, OneOpener
  <1>3. Growth(h)'
    BY <1>a DEF OneActor, HtTypes, Open, OneOpener, Growth, Copy, Unlocked
  <1>4. SlotsPlaced(h)'
    <2>1. stage'[h] = "mark" /\ fd'[h] = Taken
      BY <1>a, <1>b, <1>c DEF HtTypes, Open
    <2>2. OneEach(freestack)'
      BY <1>c
    <2>3. checkbits' = checkbits /\ given' = given /\ stage[h] = "user"
      BY <1>b DEF Open
    <2>4. \A i \in 0 .. index' - 1 : i \in checkbits' \/ i \in Free' \/ fd'[h] = i
      BY <1>a, <1>c, <2>1, <2>3 DEF SlotsPlaced, Busy
    <2>5. checkbits' \cap Free' = {} /\ given' \cap Free' = {}
      BY <1>a, <1>c, <2>3 DEF SlotsPlaced
    <2>6. fd'[h] < index'
      BY <1>c, <2>1
    <2>7. fd'[h] \notin Free' /\ fd'[h] \notin checkbits' /\ fd'[h] \notin given'
      BY <1>c, <2>1, <2>3
    <2> QED BY <2>1, <2>2, <2>4, <2>5, <2>6, <2>7 DEF SlotsPlaced, Busy
  <1>5. ObjectsHeld(h)'
    BY <1>a DEF OneActor, HtTypes, Open, OneOpener, ObjectsHeld, SlotsPlaced, Held, Usable, valid, Busy
  <1>6. Waiting(h)'
    BY <1>a DEF OneActor, HtTypes, Open, OneOpener, Waiting, ObjectsHeld, Held
  <1>7. UsersTrue'
    <2>1. \A u \in Thread : (stage'[u] = "use" <=> stage[u] = "use") /\ (stage[u] = "use" => elem'[u] = elem[u])
      BY <1>a, <1>b DEF HtTypes, Open
    <2>2. \A x : Using(x)' = Using(x)
      BY <2>1 DEF Using
    <2>3. Using(a) = {}
      BY <1>a DEF Using, ObjectsHeld, Open
    <2>4. Cardinality({}) = 0
      BY FS_EmptySet
    <2>5. users' = [users EXCEPT ![a] = 0] /\ live' = live \cup {a} /\ a \notin live /\ live \subseteq Access
      BY <1>a DEF Open, HtTypes
    <2>6. \A x \in live' : users'[x] = IF x = a THEN 0 ELSE users[x]
      BY <1>a, <2>5 DEF HtTypes
    <2> QED BY <1>a, <2>2, <2>3, <2>4, <2>5, <2>6 DEF UsersTrue
  <1> QED BY <1>1, <1>2, <1>3, <1>4, <1>5, <1>6, <1>7 DEF HandleInv

LEMMA GrownKeeps ==
  ASSUME NEW h \in Thread, OneOpener(h), HandleInv(h), NEW t \in Thread, NEW a \in Access, Grown(t, a)
  PROVE  HandleInv(h)'
  <1> USE DEF arrayVars, Proceed, Stages, InOpen, InClose
  <1>a. HtTypes /\ OneActor(h) /\ Growth(h) /\ SlotsPlaced(h) /\ ObjectsHeld(h) /\ Waiting(h) /\ UsersTrue
    BY DEF HandleInv
  <1>b. t = h
    BY <1>a DEF OneActor, Grown
  <1>c. /\ freestack' = <<>> /\ freestack = <<>> /\ Free' = {} /\ Free = {} /\ DOMAIN freestack' = {}
        /\ index' = index + 1 /\ index' \in Nat /\ index \in Nat /\ index \in Slot /\ fd' = [fd EXCEPT ![h] = index]
        /\ capacity' \in Nat /\ index' <= capacity' /\ 0 < capacity' /\ capacity' <= Limit
        /\ data' \in [Slot -> Access \cup {Garbage}]
        /\ \A i \in 0 .. index - 1 : data'[i] = data[i]
    <2>1. /\ freestack = <<>> /\ index = capacity /\ 2 * capacity <= Limit /\ copy = Copy
          /\ Limit \in Nat /\ index \in Nat /\ capacity \in Nat /\ index' = index + 1
          /\ capacity' = 2 * capacity /\ data' = copy /\ freestack' = freestack /\ fd' = [fd EXCEPT ![h] = index]
      BY <1>a, <1>b, HandleAssumption DEF Growth, Grown, HtTypes
    <2>2. capacity > 0
      BY <1>a DEF HtTypes
    <2>3. Free' = {} /\ Free = {} /\ DOMAIN freestack' = {}
      BY <2>1 DEF Free, Elems
    <2>4. data' \in [Slot -> Access \cup {Garbage}] /\ \A i \in 0 .. index - 1 : i \in Slot /\ data'[i] = data[i]
      BY <1>a, <2>1 DEF Copy, HtTypes, Slot
    <2> QED BY <2>1, <2>2, <2>3, <2>4 DEF Slot
  <1>1. HtTypes'
    <2>1. checkbits' \subseteq 0 .. index' - 1 /\ given' \subseteq 0 .. index' - 1
      BY <1>a, <1>c DEF HtTypes, Grown
    <2>2. fd' \in [Thread -> Slot]
      BY <1>a, <1>c DEF HtTypes
    <2>3. /\ users' \in [Access -> Nat] /\ live' \subseteq Access
          /\ stage' \in [Thread -> Stages] /\ elem' \in [Thread -> Access \cup {None, Garbage}]
      BY <1>a DEF HtTypes, Grown
    <2>4. wait' \in [Access -> Seq(Thread)]
      <3>1. <<>> \in Seq(Thread)
        OBVIOUS
      <3> QED BY <1>a, <3>1 DEF HtTypes, Grown
    <2>5. freestack' \in Seq(Nat) /\ Free' \subseteq 0 .. index' - 1
      BY <1>a, <1>c DEF HtTypes
    <2>6. ref' \in [Thread -> BOOLEAN] /\ word' \in [Thread -> SUBSET Nat]
      BY <1>a DEF HtTypes, Grown
    <2> QED BY <1>c, <2>1, <2>2, <2>3, <2>4, <2>5, <2>6 DEF HtTypes
  <1>2. OneActor(h)'
    BY <1>a DEF OneActor, HtTypes, Grown, OneOpener
  <1>3. Growth(h)'
    BY <1>a DEF OneActor, HtTypes, Grown, OneOpener, Growth, Copy, Unlocked
  <1>4. SlotsPlaced(h)'
    <2>1. stage'[h] = "mark" /\ fd'[h] = index
      BY <1>a, <1>b, <1>c DEF HtTypes, Grown
    <2>2. OneEach(freestack)'
      BY <1>c DEF OneEach
    <2>3. checkbits' = checkbits /\ given' = given /\ stage[h] = "grow"
      BY <1>b DEF Grown
    <2>4. index \notin checkbits /\ index \notin given
      BY <1>a, <1>c DEF HtTypes
    <2>5. \A i \in 0 .. index' - 1 : i \in checkbits' \/ fd'[h] = i
      <3>1. \A i \in 0 .. index - 1 : i \in checkbits
        BY <1>a, <1>c, <2>3 DEF SlotsPlaced, Busy
      <3>2. \A i \in 0 .. index' - 1 : i \in 0 .. index - 1 \/ i = index
        BY <1>c
      <3> QED BY <2>1, <2>3, <3>1, <3>2
    <2>6. fd'[h] < index'
      BY <1>c, <2>1
    <2> QED BY <1>c, <2>1, <2>2, <2>3, <2>4, <2>5, <2>6 DEF SlotsPlaced, Busy
  <1>5. ObjectsHeld(h)'
    <2>1. /\ Held' = Held /\ \A i \in Held : i \in Slot /\ data'[i] = data[i]
          /\ a \notin live /\ live' = live \cup {a} /\ stage'[h] = "mark" /\ elem'[h] = a
      BY <1>a, <1>b, <1>c, HeldSlots DEF Held, Grown, HtTypes
    <2>2. \A u \in Thread : stage'[u] = "use" => stage[u] = "use" /\ elem'[u] = elem[u] /\ fd'[u] = fd[u]
      BY <1>a, <1>b DEF HtTypes, Grown
    <2>3. \A u \in Thread : stage'[u] = "use" => fd'[u] \in Held' /\ elem'[u] = data'[fd'[u]]
      BY <1>a, <2>1, <2>2 DEF ObjectsHeld
    <2>4. \A i \in Held' : data'[i] \in live' /\ data'[i] # a
      BY <1>a, <2>1 DEF ObjectsHeld
    <2>5. \A i, j \in Held' : data'[i] = data'[j] => i = j
      BY <1>a, <2>1 DEF ObjectsHeld
    <2> QED BY <2>1, <2>3, <2>4, <2>5 DEF ObjectsHeld
  <1>6. Waiting(h)'
    <2>1. stage[h] = "grow" /\ stage'[h] = "mark" /\ wait' = [wait EXCEPT ![a] = <<>>]
      BY <1>a, <1>b DEF HtTypes, Grown
    <2>2. \A x \in Access : wait[x] = <<>>
      BY <1>a, <2>1 DEF Waiting
    <2> QED BY <1>a, <2>1, <2>2 DEF Waiting, HtTypes
  <1>7. UsersTrue'
    <2>1. \A u \in Thread : (stage'[u] = "use" <=> stage[u] = "use") /\ (stage[u] = "use" => elem'[u] = elem[u])
      BY <1>a, <1>b DEF HtTypes, Grown
    <2>2. \A x : Using(x)' = Using(x)
      BY <2>1 DEF Using
    <2>3. Using(a) = {}
      BY <1>a DEF Using, ObjectsHeld, Grown
    <2>4. Cardinality({}) = 0
      BY FS_EmptySet
    <2>5. users' = [users EXCEPT ![a] = 0] /\ live' = live \cup {a} /\ a \notin live /\ live \subseteq Access
      BY <1>a DEF Grown, HtTypes
    <2>6. \A x \in live' : users'[x] = IF x = a THEN 0 ELSE users[x]
      BY <1>a, <2>5 DEF HtTypes
    <2> QED BY <1>a, <2>2, <2>3, <2>4, <2>5, <2>6 DEF UsersTrue
  <1> QED BY <1>1, <1>2, <1>3, <1>4, <1>5, <1>6, <1>7 DEF HandleInv

LEMMA DoneKeeps ==
  ASSUME NEW h \in Thread, OneOpener(h), HandleInv(h), NEW t \in Thread, Done(t)
  PROVE  HandleInv(h)'
  <1> USE DEF arrayVars, Proceed, Stages, InOpen, InClose
  <1>a. HtTypes /\ OneActor(h) /\ Growth(h) /\ SlotsPlaced(h) /\ ObjectsHeld(h) /\ Waiting(h) /\ UsersTrue
    BY DEF HandleInv
  <1> DEFINE A == data[fd[t]]
  <1> DEFINE LastUser == users[A] = 1 /\ wait[A] # <<>>
  <1>c. /\ stage[t] = "use" /\ elem[t] = A /\ fd[t] \in Held /\ A \in live /\ A \in Access /\ t \in Using(A)
        /\ users[A] = Cardinality(Using(A)) /\ users[A] \in Nat /\ users[A] > 0
        /\ users' = [users EXCEPT ![A] = @ - 1]
    <2>1. stage[t] = "use" /\ users' = [users EXCEPT ![A] = @ - 1]
      BY DEF Done
    <2>2. elem[t] = A /\ fd[t] \in Held /\ A \in live /\ A \in Access
      BY <1>a, <2>1 DEF ObjectsHeld, HtTypes
    <2>3. t \in Using(A) /\ Using(A) \in SUBSET Thread
      BY <2>1, <2>2 DEF Using
    <2>4. users[A] = Cardinality(Using(A))
      BY <1>a, <2>2 DEF UsersTrue
    <2>5. users[A] \in Nat /\ users[A] # 0
      BY <2>3, <2>4, UsersFinite
    <2> QED BY <2>1, <2>2, <2>3, <2>4, <2>5
  <1>d. ASSUME LastUser
        PROVE  /\ stage[h] = "wait" /\ A = data[fd[h]] /\ t # h /\ fd[t] = fd[h] /\ Using(A) = {t}
               /\ checkbits' = checkbits \ {fd[h]}
               /\ wait' = [wait EXCEPT ![A] = <<>>]
               /\ stage' = [stage EXCEPT ![t] = "user", ![h] = "woken"]
    <2>1. stage[h] = "wait" /\ A = data[fd[h]] /\ wait[A] = <<h>> /\ t # h
      BY <1>a, <1>c, <1>d DEF Waiting
    <2>2. fd[t] = fd[h]
      BY <1>a, <1>c, <2>1 DEF ObjectsHeld
    <2>3. Head(wait[A]) = h /\ Tail(wait[A]) = <<>>
      BY <2>1
    <2>4. Using(A) \in SUBSET Thread
      BY DEF Using
    <2>5. Using(A) = {t}
      BY <1>c, <1>d, <2>4, OnlyOne
    <2>6. checkbits' = checkbits \ {fd[h]} /\ wait' = [wait EXCEPT ![A] = <<>>]
      BY <1>d, <2>2, <2>3 DEF Done
    <2>7. stage' = [stage EXCEPT ![t] = "user", ![h] = "woken"]
      BY <1>d, <2>3 DEF Done
    <2> QED BY <2>1, <2>2, <2>5, <2>6, <2>7
  <1>e. ASSUME ~LastUser
        PROVE  checkbits' = checkbits /\ wait' = wait /\ stage' = [stage EXCEPT ![t] = "user"]
    BY <1>e DEF Done
  <1>f. A' = A
    BY DEF Done
  <1> HIDE DEF A, LastUser
  <1>1. HtTypes'
    <2>1. users' \in [Access -> Nat]
      <3>1. users[A] - 1 \in Nat
        BY <1>a, <1>c DEF HtTypes
      <3> QED BY <1>a, <1>c, <3>1 DEF HtTypes
    <2>2. elem' \in [Thread -> Access \cup {None, Garbage}]
      BY <1>a DEF HtTypes, Done
    <2>3. checkbits' \subseteq 0 .. index - 1 /\ stage' \in [Thread -> Stages] /\ wait' \in [Access -> Seq(Thread)]
      <3>1. CASE LastUser
        <4>1. <<>> \in Seq(Thread)
          OBVIOUS
        <4>2. wait' \in [Access -> Seq(Thread)]
          <5>1. wait \in [Access -> Seq(Thread)]
            BY <1>a DEF HtTypes
          <5>2. wait' = [wait EXCEPT ![A] = <<>>]
            BY <1>d, <3>1
          <5> QED BY <4>1, <5>1, <5>2, Zenon
        <4>3. stage' \in [Thread -> Stages]
          BY <1>a, <1>d, <3>1 DEF HtTypes
        <4>4. checkbits' \subseteq 0 .. index - 1
          BY <1>a, <1>d, <3>1 DEF HtTypes
        <4> QED BY <4>2, <4>3, <4>4
      <3>2. CASE ~LastUser
        BY <1>a, <1>e, <3>2 DEF HtTypes
      <3> QED BY <3>1, <3>2
    <2>4. Free' = Free
      BY DEF Done, Free
    <2> QED BY <1>a, <2>1, <2>2, <2>3, <2>4 DEF HtTypes, Done
  <1>2. OneActor(h)'
    <2>1. CASE LastUser
      BY <1>a, <1>d, <2>1 DEF OneActor, HtTypes
    <2>2. CASE ~LastUser
      BY <1>a, <1>e, <2>2 DEF OneActor, HtTypes
    <2> QED BY <2>1, <2>2
  <1>3. Growth(h)'
    <2>1. grower = None /\ grower' = grower
      BY DEF Done, Unlocked
    <2>2. CASE LastUser
      BY <1>a, <1>d, <2>1, <2>2 DEF Growth, HtTypes
    <2>3. CASE ~LastUser
      BY <1>a, <1>e, <1>c, <2>1, <2>3, HandleAssumption DEF Growth, HtTypes
    <2> QED BY <2>2, <2>3
  <1>4. SlotsPlaced(h)'
    <2>1. freestack' = freestack /\ Free' = Free /\ given' = given /\ fd' = fd /\ index' = index /\ word' = word
      BY DEF Done, Free
    <2>2. CASE LastUser
      <3>1. fd[h] \in checkbits /\ fd[h] \in given /\ fd[h] < index
        BY <1>a, <1>d, <2>2, HeldSlots DEF Held, ObjectsHeld
      <3>2. stage[h] = "wait" /\ stage'[h] = "woken" /\ checkbits' = checkbits \ {fd[h]}
        BY <1>a, <1>d, <2>2 DEF HtTypes
      <3>3. fd[h] \notin Free
        BY <1>a, <3>1 DEF SlotsPlaced
      <3>4. OneEach(freestack)'
        BY <1>a, <2>1 DEF SlotsPlaced, OneEach
      <3> QED BY <1>a, <2>1, <3>1, <3>2, <3>3, <3>4 DEF SlotsPlaced, Busy
    <2>3. CASE ~LastUser
      <3>1. stage'[h] = stage[h] \/ (stage[h] = "use" /\ stage'[h] = "user")
        BY <1>a, <1>c, <1>e, <2>3 DEF HtTypes
      <3> QED BY <1>a, <1>e, <2>1, <2>3, <3>1 DEF SlotsPlaced, Busy
    <2> QED BY <2>2, <2>3
  <1>5. ObjectsHeld(h)'
    <2>1. data' = data /\ live' = live /\ fd' = fd /\ ref' = ref /\ given' = given
      BY DEF Done
    <2>2. \A u \in Thread : stage'[u] = "use" => stage[u] = "use" /\ elem'[u] = elem[u] /\ u # t
      <3>1. \A u \in Thread : u # t => elem'[u] = elem[u]
        BY <1>a DEF HtTypes, Done
      <3>2. \A u \in Thread : stage'[u] = "use" => stage[u] = "use" /\ u # t
        <4>1. CASE LastUser
          BY <1>a, <1>d, <4>1 DEF HtTypes
        <4>2. CASE ~LastUser
          BY <1>a, <1>e, <4>2 DEF HtTypes
        <4> QED BY <4>1, <4>2
      <3> QED BY <3>1, <3>2
    <2>3. CASE LastUser
      <3>1. fd[h] \in Held /\ fd[h] = fd[t] /\ A = data[fd[h]] /\ ref[h] /\ stage'[h] = "woken" /\ Held' = Held \ {fd[h]}
        <4>1. fd[h] = fd[t] /\ A = data[fd[h]] /\ stage'[h] = "woken" /\ stage[h] = "wait"
          BY <1>a, <1>d, <2>3 DEF HtTypes
        <4>2. fd[h] \in Held /\ ref[h]
          BY <1>a, <4>1 DEF ObjectsHeld
        <4>3. Held' = Held \ {fd[h]}
          BY <1>d, <2>1, <2>3 DEF Held
        <4> QED BY <4>1, <4>2, <4>3
      <3>2. ASSUME NEW u \in Thread, stage'[u] = "use"
            PROVE  fd'[u] \in Held' /\ elem'[u] = data'[fd'[u]]
        <4>1. stage[u] = "use" /\ elem'[u] = elem[u] /\ u # t /\ fd[u] \in Held /\ elem[u] = data[fd[u]]
          BY <1>a, <2>2, <3>2 DEF ObjectsHeld
        <4>2. u \notin Using(A)
          BY <1>d, <2>3, <4>1
        <4>3. fd[u] # fd[h]
          BY <3>1, <4>1, <4>2 DEF Using
        <4> QED BY <2>1, <3>1, <4>1, <4>3
      <3>3. \A i \in Held' : i \in Held /\ data[i] # data[fd[h]] /\ data[i] \in live
        BY <1>a, <3>1 DEF ObjectsHeld
      <3>4. \A i, j \in Held' : data'[i] = data'[j] => i = j
        BY <1>a, <2>1, <3>3 DEF ObjectsHeld
      <3>5. data[fd[h]] \in live
        BY <1>a, <3>1 DEF ObjectsHeld
      <3> QED BY <2>1, <3>1, <3>2, <3>3, <3>4, <3>5 DEF ObjectsHeld
    <2>4. CASE ~LastUser
      <3>1. Held' = Held
        BY <1>e, <2>1, <2>4 DEF Held
      <3>2. (stage'[h] = stage[h] /\ elem'[h] = elem[h]) \/ stage'[h] = "user"
        BY <1>a, <1>e, <2>4 DEF HtTypes, Done
      <3>3. \A u \in Thread : stage'[u] = "use" => fd'[u] \in Held' /\ elem'[u] = data'[fd'[u]]
        BY <1>a, <2>1, <2>2, <3>1 DEF ObjectsHeld
      <3> QED BY <1>a, <2>1, <3>1, <3>2, <3>3 DEF ObjectsHeld
    <2> QED BY <2>3, <2>4
  <1>6. Waiting(h)'
    <2>1. data' = data /\ fd' = fd
      BY DEF Done
    <2>2. CASE LastUser
      BY <1>a, <1>d, <2>1, <2>2 DEF Waiting, HtTypes
    <2>3. CASE ~LastUser
      <3>1. stage'[h] = "wait" <=> stage[h] = "wait"
        BY <1>a, <1>c, <1>e, <2>3 DEF HtTypes
      <3> QED BY <1>a, <1>e, <2>1, <2>3, <3>1 DEF Waiting
    <2> QED BY <2>2, <2>3
  <1>7. UsersTrue'
    <2>1. \A u \in Thread : (stage'[u] = "use" <=> stage[u] = "use" /\ u # t) /\ (u # t => elem'[u] = elem[u])
      <3>1. \A u \in Thread : u # t => elem'[u] = elem[u]
        BY <1>a DEF HtTypes, Done
      <3>2. \A u \in Thread : stage'[u] = "use" <=> stage[u] = "use" /\ u # t
        <4>1. CASE LastUser
          BY <1>a, <1>c, <1>d, <4>1 DEF HtTypes
        <4>2. CASE ~LastUser
          BY <1>a, <1>e, <4>2 DEF HtTypes
        <4> QED BY <4>1, <4>2
      <3> QED BY <3>1, <3>2
    <2>2. Using(A)' = Using(A) \ {t}
      BY <1>f, <2>1 DEF Using
    <2>3. ASSUME NEW x, x # A
          PROVE  Using(x)' = Using(x)
      BY <1>c, <2>1, <2>3 DEF Using
    <2>4. Using(A) \in SUBSET Thread
      BY DEF Using
    <2>5. Cardinality(Using(A)') = users[A] - 1
      BY <1>c, <2>2, <2>4, OneLess
    <2>6. ASSUME NEW x \in live'
          PROVE  users'[x] = Cardinality(Using(x)')
      <3>1. x \in live /\ x \in Access
        BY <1>a DEF Done, HtTypes
      <3>2. CASE x = A
        <4>1. users'[x] = users[A] - 1
          BY <1>a, <1>c, <3>2 DEF HtTypes
        <4> QED BY <1>f, <2>5, <3>2, <4>1
      <3>3. CASE x # A
        <4>1. users'[x] = users[x]
          BY <1>a, <1>c, <3>1, <3>3 DEF HtTypes
        <4> QED BY <1>a, <2>3, <3>1, <3>3, <4>1 DEF UsersTrue
      <3> QED BY <3>2, <3>3
    <2> QED BY <2>6 DEF UsersTrue
  <1> QED BY <1>1, <1>2, <1>3, <1>4, <1>5, <1>6, <1>7 DEF HandleInv


LEMMA HandleStep ==
  ASSUME NEW h \in Thread, OneOpener(h), HandleInv(h), HtNext
  PROVE  HandleInv(h)'
  BY MarkReadKeeps, MarkWriteKeeps, StoreKeeps, AccessElemKeeps, DoneKeeps, RemoveHandleKeeps, RemoveWaitKeeps,
     RemoveWokenKeeps, DeleteKeeps, ReleaseKeeps, OpenGrowKeeps, OpenKeeps, GrownKeeps DEF HtNext

LEMMA HandleStutter ==
  ASSUME NEW h \in Thread, HandleInv(h), UNCHANGED htVars
  PROVE  HandleInv(h)'
  <1> USE DEF htVars
  <1>1. Free' = Free /\ Held' = Held /\ Copy' = Copy
    BY DEF Free, Held, Copy
  <1>2. HtTypes' /\ OneActor(h)' /\ Growth(h)'
    BY <1>1 DEF HandleInv, HtTypes, OneActor, Growth
  <1>3. SlotsPlaced(h)' /\ ObjectsHeld(h)'
    BY <1>1 DEF HandleInv, SlotsPlaced, ObjectsHeld, OneEach, Busy
  <1>4. Waiting(h)' /\ UsersTrue'
    BY DEF HandleInv, Waiting, UsersTrue, Using
  <1> QED BY <1>2, <1>3, <1>4 DEF HandleInv

(* What the runs check follows: each slot is counted once.                  *)
LEMMA HandleSafe ==
  ASSUME NEW h \in Thread, HandleInv(h)
  PROVE  HandlesSound
  <1>a. HtTypes /\ OneActor(h) /\ SlotsPlaced(h) /\ ObjectsHeld(h) /\ UsersTrue
    BY DEF HandleInv
  <1>1. ElemTrue
    BY <1>a DEF ElemTrue, ObjectsHeld, Held, OneActor
  <1>2. UsersCounted
    BY <1>a DEF UsersCounted, UsersTrue, Using, ObjectsHeld
  <1>3. ASSUME NEW i \in 0 .. index - 1
        PROVE  LET busy == {t \in Thread : fd[t] = i /\ stage[t] \in InOpen \cup InClose} IN
               (IF i \in checkbits /\ \A t \in busy : stage[t] # "store" THEN 1 ELSE 0)
                 + Cardinality({k \in DOMAIN freestack : freestack[k] = i}) + Cardinality(busy) = 1
    <2> DEFINE busy == {t \in Thread : fd[t] = i /\ stage[t] \in InOpen \cup InClose}
    <2>1. Cardinality({k \in DOMAIN freestack : freestack[k] = i}) = IF i \in Free THEN 1 ELSE 0
      <3>1. i \in Nat /\ freestack \in Seq(Nat) /\ OneEach(freestack)
        BY <1>a, <1>3 DEF HtTypes, SlotsPlaced
      <3> QED BY <3>1, StackCount DEF Free
    <2>2. \A t \in busy : t = h
      BY <1>a DEF OneActor, InOpen, InClose
    <2>3. busy = IF Busy(h) /\ fd[h] = i THEN {h} ELSE {}
      BY <2>2 DEF Busy
    <2>4. Cardinality(busy) = IF Busy(h) /\ fd[h] = i THEN 1 ELSE 0
      BY <2>3, FS_EmptySet, FS_Singleton
    <2>5. CASE Busy(h) /\ fd[h] = i
      <3>1. i \notin Free /\ (i \in checkbits => stage[h] = "store") /\ h \in busy
        BY <1>a, <2>3, <2>5 DEF SlotsPlaced
      <3>2. (IF i \in checkbits /\ \A t \in busy : stage[t] # "store" THEN 1 ELSE 0) = 0
        BY <3>1
      <3>3. Cardinality({k \in DOMAIN freestack : freestack[k] = i}) = 0 /\ Cardinality(busy) = 1
        BY <2>1, <2>4, <2>5, <3>1
      <3> QED BY <3>2, <3>3
    <2>6. CASE ~(Busy(h) /\ fd[h] = i)
      <3>1. busy = {} /\ (i \in Free <=> i \notin checkbits)
        BY <1>a, <1>3, <2>3, <2>6 DEF SlotsPlaced
      <3>2. (IF i \in checkbits /\ \A t \in busy : stage[t] # "store" THEN 1 ELSE 0) = IF i \in checkbits THEN 1 ELSE 0
        BY <3>1
      <3>3. Cardinality({k \in DOMAIN freestack : freestack[k] = i}) = IF i \in checkbits THEN 0 ELSE 1
        BY <2>1, <3>1
      <3>4. Cardinality(busy) = 0
        BY <2>4, <2>6
      <3> QED BY <3>2, <3>3, <3>4
    <2> QED BY <2>5, <2>6
  <1>4. SlotsAccounted
    BY <1>a, <1>3 DEF SlotsAccounted, HtTypes
  <1> QED BY <1>1, <1>2, <1>4 DEF HandlesSound

(* HandlesSound of HandleTable, for any number of threads, objects and      *)
(* slots: while one thread of a process opens and closes handles and any    *)
(* number of them read and write through them, a handle leads to the object *)
(* it was opened for, close deletes no object in use, and every slot is in  *)
(* use or free.  With two threads that open or close this does not hold.    *)
THEOREM HandlesStaySound ==
  ASSUME NEW h \in Thread, OneOpener(h)
  PROVE  HtSpec => []HandlesSound
  <1>1. HtInit => HandleInv(h)
    BY HandleInvInit
  <1>2. HandleInv(h) /\ [HtNext]_htVars => HandleInv(h)'
    BY HandleStep, HandleStutter
  <1>3. HandleInv(h) => HandlesSound
    BY HandleSafe
  <1> QED BY <1>1, <1>2, <1>3, PTL DEF HtSpec

-----------------------------------------------------------------------------
(* The walk from the root, in a memory M.                                   *)
WalkStep(M, v, g) ==
  [d \in 1 .. Depth |-> IF d = 1 THEN Root
                        ELSE IF g[d - 1] \in PFrame THEN M[g[d - 1]][v[d - 1]] ELSE NoEntry]
Walk(M, v) == CHOOSE g : g = WalkStep(M, v, g)
At(M, v, d) == Walk(M, v)[d]

LEMMA TablesWalk ==
  /\ \A v : Tables(v) = Walk(frameMem, v)
  /\ \A v : Tables(v)' = Walk(frameMem', v)
  BY DEF Tables, Walk, WalkStep

LEMMA PagingConstants ==
  /\ Depth \in Nat /\ Depth >= 2 /\ Root \in PFrame /\ Root = 0 /\ PFrame \subseteq Nat
  /\ NoEntry \notin PFrame /\ LazyPage \notin PFrame /\ NoFrame \notin PFrame /\ NoEntry # LazyPage
  /\ \A v \in PPage : v \in [1 .. Depth -> Index]
  BY PagingAssumption DEF Root, NoEntry, LazyPage, NoFrame

(* The next table of a walk.                                                *)
Follow(M, v, p, d) == IF p \in PFrame THEN M[p][v[d]] ELSE NoEntry

(* The walk exists, so that it is what the recursion says.                  *)
LEMMA WalkIs ==
  ASSUME NEW M, NEW v
  PROVE  /\ At(M, v, 1) = Root
         /\ \A d \in 1 .. Depth - 1 : At(M, v, d + 1) = Follow(M, v, At(M, v, d), d)
  <1> DEFINE Upto(g, n) == g[1] = Root /\ \A d \in 1 .. n - 1 : g[d + 1] = Follow(M, v, g[d], d)
  <1>0. Depth \in Nat /\ Depth >= 2
    BY PagingConstants
  <1>1. \A n \in 1 .. Depth : \E g : Upto(g, n)
    <2> SUFFICES ASSUME NEW m \in 1 .. Depth, ~\E g : Upto(g, m) PROVE FALSE
      OBVIOUS
    <2> DEFINE T == {n \in 1 .. Depth : ~\E g : Upto(g, n)}
    <2>1. PICK n \in T : \A y \in T : n <= y
      <3>1. T \in SUBSET Nat /\ T # {}
        BY <1>0
      <3> HIDE DEF T
      <3> QED BY <3>1, LeastNumber
    <2>2. n \in 1 .. Depth /\ ~\E g : Upto(g, n)
      OBVIOUS
    <2>3. n # 1
      <3>1. ASSUME n = 1 PROVE FALSE
        <4>1. Upto([d \in 1 .. Depth |-> Root], 1)
          BY <1>0
        <4> HIDE DEF Upto
        <4> QED BY <2>2, <3>1, <4>1
      <3> QED BY <3>1
    <2>4. n - 1 \in 1 .. Depth /\ n - 1 \notin T
      BY <1>0, <2>1, <2>2, <2>3
    <2>5. PICK g : Upto(g, n - 1)
      BY <2>4
    <2> DEFINE h == [d \in 1 .. Depth |-> IF d = n THEN Follow(M, v, g[n - 1], n - 1) ELSE g[d]]
    <2>6. Upto(h, n)
      <3>1. h[1] = Root
        BY <1>0, <2>2, <2>3, <2>5
      <3>2. ASSUME NEW d \in 1 .. n - 1
            PROVE  h[d + 1] = Follow(M, v, h[d], d)
        <4>1. d \in 1 .. Depth /\ d # n /\ h[d] = g[d] /\ d + 1 \in 1 .. Depth
          BY <1>0, <2>2
        <4>2. CASE d = n - 1
          <5>1. d + 1 = n
            BY <1>0, <2>2, <4>2
          <5> QED BY <4>1, <4>2, <5>1
        <4>3. CASE d # n - 1
          <5>1. d \in 1 .. (n - 1) - 1 /\ d + 1 # n
            BY <1>0, <2>2, <4>3
          <5>2. h[d + 1] = g[d + 1]
            BY <4>1, <5>1
          <5>3. g[d + 1] = Follow(M, v, g[d], d)
            BY <2>5, <5>1
          <5> QED BY <4>1, <5>2, <5>3
        <4> QED BY <4>2, <4>3
      <3> QED BY <3>1, <3>2
    <2> HIDE DEF Upto, h
    <2> QED BY <2>2, <2>6
  <1>2. PICK g : Upto(g, Depth)
    <2>1. Depth \in 1 .. Depth
      BY <1>0
    <2> HIDE DEF Upto
    <2> QED BY <1>1, <2>1
  <1> DEFINE k == [d \in 1 .. Depth |-> g[d]]
  <1>3. k = WalkStep(M, v, k)
    <2>1. ASSUME NEW d \in 1 .. Depth
          PROVE  k[d] = WalkStep(M, v, k)[d]
      <3>1. CASE d = 1
        BY <1>2, <3>1 DEF WalkStep
      <3>2. CASE d # 1
        <4>1. d - 1 \in 1 .. Depth - 1 /\ d - 1 \in 1 .. Depth /\ (d - 1) + 1 = d
          BY <1>0, <3>2
        <4>2. g[d] = Follow(M, v, g[d - 1], d - 1)
          BY <1>2, <4>1
        <4>3. k[d] = g[d] /\ k[d - 1] = g[d - 1]
          BY <4>1
        <4> HIDE DEF k
        <4> QED BY <3>2, <4>2, <4>3 DEF WalkStep, Follow
      <3> QED BY <3>1, <3>2
    <2>2. WalkStep(M, v, k) = [d \in 1 .. Depth |-> WalkStep(M, v, k)[d]]
      BY DEF WalkStep
    <2>3. k = [d \in 1 .. Depth |-> k[d]]
      OBVIOUS
    <2> HIDE DEF k
    <2> QED BY <2>1, <2>2, <2>3
  <1>4. Walk(M, v) = WalkStep(M, v, Walk(M, v))
    <2> HIDE DEF k
    <2> QED BY <1>3 DEF Walk
  <1>5. PICK w : w = Walk(M, v)
    OBVIOUS
  <1>6. w = WalkStep(M, v, w)
    BY <1>4, <1>5
  <1>7. w[1] = Root
    <2>1. WalkStep(M, v, w)[1] = Root
      BY <1>0 DEF WalkStep
    <2> QED BY <1>6, <2>1
  <1>8. ASSUME NEW d \in 1 .. Depth - 1
        PROVE  w[d + 1] = Follow(M, v, w[d], d)
    <2>1. d + 1 \in 1 .. Depth /\ d + 1 # 1 /\ (d + 1) - 1 = d
      BY <1>0
    <2>2. WalkStep(M, v, w)[d + 1] = Follow(M, v, w[d], d)
      BY <2>1 DEF WalkStep, Follow
    <2> QED BY <1>6, <2>2
  <1> QED BY <1>5, <1>7, <1>8 DEF At

-----------------------------------------------------------------------------
(* The tables form a tree: an entry refers to a frame that no other entry   *)
(* refers to, and never to the root; only entries on the way to a page are  *)
(* in use; and pages to be filled later are only at the last level.         *)
Entries == PFrame \cup {NoEntry, LazyPage}
OneParent(M) ==
  \A t, u \in PFrame, i, j \in Index : M[t][i] = M[u][j] /\ M[t][i] \in PFrame => t = u /\ i = j
OnTheWay(M) ==
  \A t \in PFrame, i \in Index :
    M[t][i] # NoEntry => \E v \in PPage, d \in 1 .. Depth : At(M, v, d) = t /\ v[d] = i
LazyLast(M) ==
  \A v \in PPage, d \in 1 .. Depth - 1 : At(M, v, d) \in PFrame => M[At(M, v, d)][v[d]] # LazyPage
Tree(M) ==
  /\ M \in [PFrame -> [Index -> Entries]]
  /\ \A t \in PFrame, i \in Index : M[t][i] # Root
  /\ OneParent(M) /\ OnTheWay(M) /\ LazyLast(M)

(* A table that a walk reaches below the root is what the entry above it    *)
(* refers to.                                                               *)
Hangs(M, v, d) ==
  /\ d - 1 \in 1 .. Depth - 1 /\ d - 1 \in 1 .. Depth
  /\ At(M, v, d - 1) \in PFrame /\ At(M, v, d) = M[At(M, v, d - 1)][v[d - 1]] /\ v[d - 1] \in Index

LEMMA Above ==
  ASSUME NEW M, NEW v \in PPage, NEW d \in 1 .. Depth, d # 1, At(M, v, d) \in PFrame
  PROVE  Hangs(M, v, d)
  <1>1. d - 1 \in 1 .. Depth - 1 /\ d - 1 \in 1 .. Depth /\ (d - 1) + 1 = d
    BY PagingConstants
  <1>2. At(M, v, d) = Follow(M, v, At(M, v, d - 1), d - 1)
    BY <1>1, WalkIs
  <1>3. At(M, v, d - 1) \in PFrame /\ At(M, v, d) = M[At(M, v, d - 1)][v[d - 1]]
    BY <1>2, PagingConstants DEF Follow
  <1> QED BY <1>1, <1>3, PagingConstants DEF Hangs

LEMMA Prefix ==
  ASSUME NEW M, NEW v \in PPage, NEW d \in 1 .. Depth, At(M, v, d) \in PFrame, NEW e \in 1 .. d
  PROVE  At(M, v, e) \in PFrame
  <1> SUFFICES ASSUME At(M, v, e) \notin PFrame PROVE FALSE
    OBVIOUS
  <1> DEFINE T == {x \in 1 .. Depth : x >= e /\ At(M, v, x) \in PFrame}
  <1>1. PICK x \in T : \A y \in T : x <= y
    <2>1. T \in SUBSET Nat /\ d \in T
      BY PagingConstants
    <2> HIDE DEF T
    <2> QED BY <2>1, LeastNumber
  <1>2. x \in 1 .. Depth /\ x >= e /\ At(M, v, x) \in PFrame /\ x # e /\ e >= 1
    OBVIOUS
  <1>3. x # 1
    BY <1>2
  <1>4. At(M, v, x - 1) \in PFrame /\ x - 1 \in 1 .. Depth
    BY <1>2, <1>3, Above DEF Hangs
  <1>5. x - 1 >= e
    BY <1>2
  <1>6. x - 1 \in T
    BY <1>4, <1>5
  <1> HIDE DEF T
  <1> QED BY <1>1, <1>2, <1>6

(* Two walks meet in a table only at the same depth and on the same way.    *)
Agree(v, u, d) == \A k \in 1 .. d - 1 : v[k] = u[k]

LEMMA Unique ==
  ASSUME NEW M, Tree(M), NEW v \in PPage, NEW u \in PPage, NEW d \in 1 .. Depth, NEW e \in 1 .. Depth,
         At(M, v, d) = At(M, u, e), At(M, v, d) \in PFrame
  PROVE  d = e /\ Agree(v, u, d)
  <1> DEFINE Bad(x, y) == /\ At(M, v, x) = At(M, u, y) /\ At(M, v, x) \in PFrame
                          /\ ~(x = y /\ Agree(v, u, x))
             T == {x \in 1 .. Depth : \E y \in 1 .. Depth : Bad(x, y)}
  <1> SUFFICES ASSUME ~(d = e /\ Agree(v, u, d)) PROVE FALSE
    OBVIOUS
  <1>1. PICK x \in T : \A y \in T : x <= y
    <2>1. T \in SUBSET Nat /\ d \in T
      BY PagingConstants
    <2> HIDE DEF T
    <2> QED BY <2>1, LeastNumber
  <1>2. PICK y \in 1 .. Depth : Bad(x, y)
    OBVIOUS
  <1>3. x \in 1 .. Depth
    OBVIOUS
  <1>a. At(M, v, x) = At(M, u, y) /\ At(M, v, x) \in PFrame /\ At(M, u, y) \in PFrame
    BY <1>2
  <1>b. \A z \in 1 .. Depth, r \in 1 .. Depth : z < x => ~Bad(z, r)
    <2>1. ASSUME NEW z \in 1 .. Depth, NEW r \in 1 .. Depth, z < x, Bad(z, r) PROVE FALSE
      <3>1. z \in T
        BY <2>1
      <3> HIDE DEF T, Bad
      <3> QED BY <1>1, <1>3, <2>1, <3>1
    <2> QED BY <2>1
  <1>c. ~(x = y /\ Agree(v, u, x))
    BY <1>2
  <1> HIDE DEF T
  <1>4. x # 1 => y # 1
    <2>1. ASSUME x # 1, y = 1 PROVE FALSE
      <3>1. At(M, v, x) = Root
        BY <1>a, <2>1, WalkIs
      <3>2. Hangs(M, v, x)
        BY <1>a, <1>3, <2>1, Above
      <3> QED BY <3>1, <3>2 DEF Tree, Hangs
    <2> QED BY <2>1
  <1>5. y # 1 => x # 1
    <2>1. ASSUME y # 1, x = 1 PROVE FALSE
      <3>1. At(M, u, y) = Root
        BY <1>a, <2>1, WalkIs
      <3>2. Hangs(M, u, y)
        BY <1>a, <2>1, Above
      <3> QED BY <3>1, <3>2 DEF Tree, Hangs
    <2> QED BY <2>1
  <1>6. x # 1 /\ y # 1
    <2>1. ASSUME x = 1 PROVE FALSE
      <3>1. y = 1
        BY <1>5, <2>1
      <3>2. Agree(v, u, 1)
        BY DEF Agree
      <3> QED BY <1>c, <2>1, <3>1, <3>2
    <2> QED BY <1>4, <2>1
  <1>7. /\ x - 1 \in 1 .. Depth /\ At(M, v, x - 1) \in PFrame /\ v[x - 1] \in Index
        /\ At(M, v, x) = M[At(M, v, x - 1)][v[x - 1]]
    BY <1>a, <1>3, <1>6, Above DEF Hangs
  <1>8. /\ y - 1 \in 1 .. Depth /\ At(M, u, y - 1) \in PFrame /\ u[y - 1] \in Index
        /\ At(M, u, y) = M[At(M, u, y - 1)][u[y - 1]]
    BY <1>a, <1>6, Above DEF Hangs
  <1>9. At(M, v, x - 1) = At(M, u, y - 1) /\ v[x - 1] = u[y - 1]
    <2>1. OneParent(M)
      BY DEF Tree
    <2>2. PICK p, q, i, j : p = At(M, v, x - 1) /\ q = At(M, u, y - 1) /\ i = v[x - 1] /\ j = u[y - 1]
      OBVIOUS
    <2>3. M[p][i] = M[q][j] /\ M[p][i] \in PFrame /\ p \in PFrame /\ q \in PFrame /\ i \in Index /\ j \in Index
      BY <1>a, <1>7, <1>8, <2>2
    <2>4. p = q /\ i = j
      BY <2>1, <2>3, Zenon DEF OneParent
    <2> QED BY <2>2, <2>4
  <1>11. x - 1 = y - 1 /\ Agree(v, u, x - 1)
    <2>1. x - 1 < x
      BY <1>3
    <2> QED BY <1>7, <1>8, <1>9, <1>b, <2>1
  <1>12. x = y
    BY <1>3, <1>11
  <1>13. Agree(v, u, x)
    <2>1. ASSUME NEW k \in 1 .. x - 1 PROVE v[k] = u[k]
      <3>1. k \in 1 .. (x - 1) - 1 \/ k = x - 1
        BY <1>3
      <3> QED BY <1>9, <1>11, <3>1 DEF Agree
    <2> QED BY <2>1 DEF Agree
  <1> QED BY <1>c, <1>12, <1>13

(* A page has an entry of its own.                                          *)
LEMMA OwnEntry ==
  ASSUME NEW M, Tree(M), NEW v \in PPage, NEW u \in PPage, NEW d \in 1 .. Depth,
         At(M, v, d) = At(M, u, Depth), At(M, v, d) \in PFrame, v[d] = u[Depth]
  PROVE  d = Depth /\ v = u
  <1>0. Depth \in 1 .. Depth
    BY PagingConstants
  <1>1. d = Depth /\ Agree(v, u, d)
    BY <1>0, Unique
  <1>2. ASSUME NEW k \in 1 .. Depth PROVE v[k] = u[k]
    <2>1. k \in 1 .. Depth - 1 \/ k = Depth
      BY PagingConstants
    <2> QED BY <1>1, <2>1 DEF Agree
  <1>3. v \in [1 .. Depth -> Index] /\ u \in [1 .. Depth -> Index]
    BY PagingConstants
  <1> QED BY <1>1, <1>2, <1>3

(* A frame that no entry refers to is empty.                                *)
Referenced(M, f) == \E t \in PFrame, i \in Index : M[t][i] = f

LEMMA UnreferencedEmpty ==
  ASSUME NEW M, Tree(M), NEW f \in PFrame, f # Root, ~Referenced(M, f), NEW i \in Index
  PROVE  M[f][i] = NoEntry
  <1> SUFFICES ASSUME M[f][i] # NoEntry PROVE FALSE
    OBVIOUS
  <1>1. PICK v \in PPage, d \in 1 .. Depth : At(M, v, d) = f
    BY DEF Tree, OnTheWay
  <1>2. d # 1
    BY <1>1, WalkIs
  <1>3. At(M, v, d - 1) \in PFrame /\ f = M[At(M, v, d - 1)][v[d - 1]] /\ v[d - 1] \in Index
    BY <1>1, <1>2, Above DEF Hangs
  <1> QED BY <1>3 DEF Referenced

-----------------------------------------------------------------------------
(* What a write to the entry of page w at depth e does to the tree.         *)
Written(M, N, w, e, x) ==
  /\ Tree(M) /\ w \in PPage /\ e \in 1 .. Depth /\ At(M, w, e) \in PFrame /\ x \in Entries
  /\ N = [M EXCEPT ![At(M, w, e)][w[e]] = x]

LEMMA WrittenAt ==
  ASSUME NEW M, NEW N, NEW w, NEW e, NEW x, Written(M, N, w, e, x)
  PROVE  /\ N \in [PFrame -> [Index -> Entries]] /\ w[e] \in Index
         /\ \A t \in PFrame, i \in Index : N[t][i] = IF t = At(M, w, e) /\ i = w[e] THEN x ELSE M[t][i]
  <1>1. w[e] \in Index
    BY PagingConstants DEF Written
  <1>2. PICK p, j : p = At(M, w, e) /\ j = w[e]
    OBVIOUS
  <1>3. /\ M \in [PFrame -> [Index -> Entries]] /\ p \in PFrame /\ j \in Index /\ x \in Entries
        /\ N = [M EXCEPT ![p][j] = x]
    BY <1>1, <1>2 DEF Written, Tree
  <1>4. /\ N \in [PFrame -> [Index -> Entries]]
        /\ \A t \in PFrame, i \in Index : N[t][i] = IF t = p /\ i = j THEN x ELSE M[t][i]
    BY <1>3
  <1> QED BY <1>1, <1>2, <1>4

(* Where no frame is overwritten, every table stays where it is.            *)
LEMMA WaysKept ==
  ASSUME NEW M, NEW N, NEW w, NEW e, NEW x, Written(M, N, w, e, x), M[At(M, w, e)][w[e]] \notin PFrame,
         NEW v \in PPage, NEW d \in 1 .. Depth, At(M, v, d) \in PFrame
  PROVE  At(N, v, d) = At(M, v, d)
  <1> DEFINE T == {z \in 1 .. Depth : At(M, v, z) \in PFrame /\ At(N, v, z) # At(M, v, z)}
  <1> SUFFICES ASSUME d \in T PROVE FALSE
    OBVIOUS
  <1>1. PICK z \in T : \A y \in T : z <= y
    <2>1. T \in SUBSET Nat
      BY PagingConstants
    <2> HIDE DEF T
    <2> QED BY <2>1, LeastNumber
  <1>2. z \in 1 .. Depth /\ At(M, v, z) \in PFrame /\ At(N, v, z) # At(M, v, z)
    OBVIOUS
  <1>3. \A y \in 1 .. Depth : y < z /\ At(M, v, y) \in PFrame => At(N, v, y) = At(M, v, y)
    BY <1>1, <1>2
  <1> HIDE DEF T
  <1>4. z # 1
    <2>1. At(M, v, 1) = Root /\ At(N, v, 1) = Root
      BY WalkIs
    <2> QED BY <1>2, <2>1
  <1>5. Hangs(M, v, z)
    BY <1>2, <1>4, Above
  <1>6. At(N, v, z - 1) = At(M, v, z - 1)
    <2>1. z - 1 < z
      BY <1>2
    <2> QED BY <1>3, <1>5, <2>1 DEF Hangs
  <1>7. At(N, v, z) = Follow(N, v, At(N, v, z - 1), z - 1)
    <2>1. (z - 1) + 1 = z /\ z - 1 \in 1 .. Depth - 1
      BY <1>2, <1>5 DEF Hangs
    <2> QED BY <2>1, WalkIs
  <1>8. PICK p, i : p = At(M, v, z - 1) /\ i = v[z - 1]
    OBVIOUS
  <1>9. p \in PFrame /\ i \in Index /\ M[p][i] = At(M, v, z) /\ At(N, v, z) = N[p][i]
    BY <1>5, <1>6, <1>7, <1>8 DEF Hangs, Follow
  <1>10. ~(p = At(M, w, e) /\ i = w[e])
    BY <1>2, <1>9
  <1>11. N[p][i] = M[p][i]
    BY <1>9, <1>10, WrittenAt
  <1> QED BY <1>2, <1>9, <1>11

(* Entries of the last level are not followed: no walk changes.             *)
LEMMA WaysSame ==
  ASSUME NEW M, NEW N, NEW w, NEW x, Written(M, N, w, Depth, x), NEW v \in PPage, NEW d \in 1 .. Depth
  PROVE  At(N, v, d) = At(M, v, d)
  <1> DEFINE T == {z \in 1 .. Depth : At(N, v, z) # At(M, v, z)}
  <1> SUFFICES ASSUME d \in T PROVE FALSE
    OBVIOUS
  <1>1. PICK z \in T : \A y \in T : z <= y
    <2>1. T \in SUBSET Nat
      BY PagingConstants
    <2> HIDE DEF T
    <2> QED BY <2>1, LeastNumber
  <1>2. z \in 1 .. Depth /\ At(N, v, z) # At(M, v, z)
    OBVIOUS
  <1>3. \A y \in 1 .. Depth : y < z => At(N, v, y) = At(M, v, y)
    BY <1>1, <1>2
  <1> HIDE DEF T
  <1>4. z # 1
    <2>1. At(M, v, 1) = Root /\ At(N, v, 1) = Root
      BY WalkIs
    <2> QED BY <1>2, <2>1
  <1>5. (z - 1) + 1 = z /\ z - 1 \in 1 .. Depth - 1 /\ z - 1 \in 1 .. Depth /\ z - 1 < z /\ z - 1 # Depth
    BY <1>2, <1>4, PagingConstants
  <1>6. /\ At(N, v, z) = Follow(N, v, At(N, v, z - 1), z - 1)
        /\ At(M, v, z) = Follow(M, v, At(M, v, z - 1), z - 1)
    BY <1>5, WalkIs
  <1>7. PICK p, i : p = At(M, v, z - 1) /\ i = v[z - 1]
    OBVIOUS
  <1>8. At(N, v, z - 1) = p
    BY <1>3, <1>5, <1>7
  <1>9. CASE p \notin PFrame
    BY <1>2, <1>6, <1>7, <1>8, <1>9 DEF Follow
  <1>10. CASE p \in PFrame
    <2>1. i \in Index
      BY <1>5, <1>7, PagingConstants
    <2>2. Tree(M) /\ w \in PPage
      BY DEF Written
    <2>3. p # At(M, w, Depth) \/ i # w[Depth]
      BY <1>5, <1>7, <1>10, <2>2, OwnEntry
    <2>4. N[p][i] = M[p][i]
      BY <1>10, <2>1, <2>3, WrittenAt
    <2> QED BY <1>2, <1>6, <1>7, <1>8, <1>10, <2>4 DEF Follow
  <1> QED BY <1>9, <1>10

(* Where a walk gets when frame f is installed: as far as before, or to f.  *)
LEMMA WaysNew ==
  ASSUME NEW M, NEW N, NEW w, NEW e, NEW f \in PFrame, Written(M, N, w, e, f), f # Root, ~Referenced(M, f),
         NEW v \in PPage, NEW d \in 1 .. Depth, At(N, v, d) \in PFrame, At(N, v, d) # f
  PROVE  At(N, v, d) = At(M, v, d)
  <1> DEFINE T == {z \in 1 .. Depth : At(N, v, z) \in PFrame /\ At(N, v, z) # f /\ At(N, v, z) # At(M, v, z)}
  <1> SUFFICES ASSUME d \in T PROVE FALSE
    OBVIOUS
  <1>1. PICK z \in T : \A y \in T : z <= y
    <2>1. T \in SUBSET Nat
      BY PagingConstants
    <2> HIDE DEF T
    <2> QED BY <2>1, LeastNumber
  <1>2. z \in 1 .. Depth /\ At(N, v, z) \in PFrame /\ At(N, v, z) # f /\ At(N, v, z) # At(M, v, z)
    OBVIOUS
  <1>3. \A y \in 1 .. Depth : y < z /\ At(N, v, y) \in PFrame => At(N, v, y) = At(M, v, y) \/ At(N, v, y) = f
    BY <1>1, <1>2
  <1> HIDE DEF T
  <1>4. z # 1
    <2>1. At(M, v, 1) = Root /\ At(N, v, 1) = Root
      BY WalkIs
    <2> QED BY <1>2, <2>1
  <1>5. Hangs(N, v, z)
    BY <1>2, <1>4, Above
  <1>6. z - 1 < z /\ (z - 1) + 1 = z
    BY <1>2
  <1>7. At(M, v, z) = Follow(M, v, At(M, v, z - 1), z - 1)
    BY <1>5, <1>6, WalkIs DEF Hangs
  <1>8. PICK p, i : p = At(N, v, z - 1) /\ i = v[z - 1]
    OBVIOUS
  <1>9. p \in PFrame /\ i \in Index /\ At(N, v, z) = N[p][i]
    BY <1>5, <1>8 DEF Hangs
  <1>10. N[p][i] = M[p][i]
    BY <1>2, <1>9, WrittenAt
  <1>11. p # f
    <2>1. ASSUME p = f PROVE FALSE
      <3>1. M[f][i] = NoEntry
        BY <1>9, UnreferencedEmpty DEF Written
      <3> QED BY <1>2, <1>9, <1>10, <2>1, <3>1, PagingConstants
    <2> QED BY <2>1
  <1>12. p = At(M, v, z - 1)
    BY <1>3, <1>5, <1>6, <1>8, <1>9, <1>11 DEF Hangs
  <1> QED BY <1>2, <1>7, <1>8, <1>9, <1>10, <1>12 DEF Follow

(* A frame that is installed in place of no frame becomes part of the tree. *)
LEMMA InstallTree ==
  ASSUME NEW M, NEW N, NEW w, NEW e, NEW f \in PFrame, Written(M, N, w, e, f), f # Root, ~Referenced(M, f),
         M[At(M, w, e)][w[e]] \notin PFrame
  PROVE  Tree(N)
  <1>0. PICK p, j : p = At(M, w, e) /\ j = w[e]
    OBVIOUS
  <1>a. /\ N \in [PFrame -> [Index -> Entries]] /\ w[e] \in Index
        /\ \A t \in PFrame, i \in Index : N[t][i] = IF t = At(M, w, e) /\ i = w[e] THEN f ELSE M[t][i]
    BY WrittenAt
  <1>b. At(M, w, e) \in PFrame /\ Tree(M) /\ w \in PPage /\ e \in 1 .. Depth
    BY DEF Written
  <1>1. /\ N \in [PFrame -> [Index -> Entries]] /\ p \in PFrame /\ j \in Index /\ Tree(M) /\ w \in PPage /\ e \in 1 .. Depth
        /\ \A t \in PFrame, i \in Index : N[t][i] = IF t = p /\ i = j THEN f ELSE M[t][i]
    BY <1>0, <1>a, <1>b
  <1>2. \A t \in PFrame, i \in Index : N[t][i] # Root
    BY <1>1 DEF Tree
  <1>3. OneParent(N)
    <2>1. OneParent(M)
      BY <1>1 DEF Tree
    <2>2. \A t \in PFrame, i \in Index : M[t][i] # f
      BY DEF Referenced
    <2>3. ASSUME NEW t \in PFrame, NEW u \in PFrame, NEW i \in Index, NEW k \in Index,
                 N[t][i] = N[u][k], N[t][i] \in PFrame
          PROVE  t = u /\ i = k
      <3>1. /\ N[t][i] = IF t = p /\ i = j THEN f ELSE M[t][i]
            /\ N[u][k] = IF u = p /\ k = j THEN f ELSE M[u][k]
        BY <1>1
      <3>2. M[t][i] # f /\ M[u][k] # f
        BY <2>2
      <3>3. M[t][i] = M[u][k] /\ M[t][i] \in PFrame => t = u /\ i = k
        BY <2>1 DEF OneParent
      <3> QED BY <2>3, <3>1, <3>2, <3>3
    <2> QED BY <2>3 DEF OneParent
  <1>4. OnTheWay(N)
    <2>1. ASSUME NEW t \in PFrame, NEW i \in Index, N[t][i] # NoEntry
          PROVE  \E v \in PPage, d \in 1 .. Depth : At(N, v, d) = t /\ v[d] = i
      <3>1. CASE t = p /\ i = j
        <4>1. At(N, w, e) = p
          BY <1>0, <1>1, WaysKept
        <4> QED BY <1>0, <1>1, <3>1, <4>1
      <3>2. CASE ~(t = p /\ i = j)
        <4>1. M[t][i] # NoEntry
          BY <1>1, <2>1, <3>2
        <4>2. PICK v \in PPage, d \in 1 .. Depth : At(M, v, d) = t /\ v[d] = i
          BY <1>1, <4>1 DEF Tree, OnTheWay
        <4>3. At(N, v, d) = t
          BY <4>2, WaysKept
        <4> QED BY <4>2, <4>3
      <3> QED BY <3>1, <3>2
    <2> QED BY <2>1 DEF OnTheWay
  <1>5. LazyLast(N)
    <2>1. ASSUME NEW v \in PPage, NEW d \in 1 .. Depth - 1, At(N, v, d) \in PFrame, N[At(N, v, d)][v[d]] = LazyPage
          PROVE  FALSE
      <3>1. d \in 1 .. Depth /\ v[d] \in Index
        BY PagingConstants
      <3>2. PICK t, i : t = At(N, v, d) /\ i = v[d]
        OBVIOUS
      <3>3. M[t][i] = LazyPage
        BY <1>1, <2>1, <3>1, <3>2, PagingConstants
      <3>4. t # f
        <4>1. ASSUME t = f PROVE FALSE
          <5>1. M[f][i] = NoEntry
            BY <1>1, <3>1, <3>2, UnreferencedEmpty
          <5> QED BY <3>3, <4>1, <5>1, PagingConstants
        <4> QED BY <4>1
      <3>5. t = At(M, v, d)
        BY <2>1, <3>1, <3>2, <3>4, WaysNew
      <3> QED BY <1>1, <2>1, <3>2, <3>3, <3>5 DEF Tree, LazyLast
    <2> QED BY <2>1 DEF LazyLast
  <1> QED BY <1>1, <1>2, <1>3, <1>4, <1>5 DEF Tree

(* A last-level entry that is cleared or marked leaves the tree a tree.      *)
LEMMA MarkTree ==
  ASSUME NEW M, NEW N, NEW w, NEW x, Written(M, N, w, Depth, x), x \in {NoEntry, LazyPage}
  PROVE  Tree(N)
  <1>0. PICK p, j : p = At(M, w, Depth) /\ j = w[Depth]
    OBVIOUS
  <1>a. /\ N \in [PFrame -> [Index -> Entries]] /\ w[Depth] \in Index
        /\ \A t \in PFrame, i \in Index : N[t][i] = IF t = At(M, w, Depth) /\ i = w[Depth] THEN x ELSE M[t][i]
    BY WrittenAt
  <1>b. At(M, w, Depth) \in PFrame /\ Tree(M) /\ w \in PPage /\ Depth \in 1 .. Depth
    BY DEF Written
  <1>1. /\ N \in [PFrame -> [Index -> Entries]] /\ p \in PFrame /\ j \in Index /\ Tree(M) /\ w \in PPage /\ Depth \in 1 .. Depth
        /\ \A t \in PFrame, i \in Index : N[t][i] = IF t = p /\ i = j THEN x ELSE M[t][i]
    BY <1>0, <1>a, <1>b
  <1>2. \A t \in PFrame, i \in Index : N[t][i] # Root
    BY <1>1, PagingConstants DEF Tree
  <1>3. OneParent(N)
    <2>1. OneParent(M)
      BY <1>1 DEF Tree
    <2>2. x \notin PFrame
      BY PagingConstants
    <2>3. ASSUME NEW t \in PFrame, NEW u \in PFrame, NEW i \in Index, NEW k \in Index,
                 N[t][i] = N[u][k], N[t][i] \in PFrame
          PROVE  t = u /\ i = k
      <3>1. /\ N[t][i] = IF t = p /\ i = j THEN x ELSE M[t][i]
            /\ N[u][k] = IF u = p /\ k = j THEN x ELSE M[u][k]
        BY <1>1
      <3>2. M[t][i] = M[u][k] /\ M[t][i] \in PFrame => t = u /\ i = k
        BY <2>1 DEF OneParent
      <3> QED BY <2>2, <2>3, <3>1, <3>2
    <2> QED BY <2>3 DEF OneParent
  <1>4. OnTheWay(N)
    <2>1. ASSUME NEW t \in PFrame, NEW i \in Index, N[t][i] # NoEntry
          PROVE  \E v \in PPage, d \in 1 .. Depth : At(N, v, d) = t /\ v[d] = i
      <3>1. CASE t = p /\ i = j
        <4>1. At(N, w, Depth) = p
          BY <1>0, <1>1, WaysSame
        <4> QED BY <1>0, <1>1, <3>1, <4>1
      <3>2. CASE ~(t = p /\ i = j)
        <4>1. M[t][i] # NoEntry
          BY <1>1, <2>1, <3>2
        <4>2. PICK v \in PPage, d \in 1 .. Depth : At(M, v, d) = t /\ v[d] = i
          BY <1>1, <4>1 DEF Tree, OnTheWay
        <4>3. At(N, v, d) = t
          BY <4>2, WaysSame
        <4> QED BY <4>2, <4>3
      <3> QED BY <3>1, <3>2
    <2> QED BY <2>1 DEF OnTheWay
  <1>5. LazyLast(N)
    <2>1. ASSUME NEW v \in PPage, NEW d \in 1 .. Depth - 1, At(N, v, d) \in PFrame, N[At(N, v, d)][v[d]] = LazyPage
          PROVE  FALSE
      <3>1. d \in 1 .. Depth /\ v[d] \in Index /\ d # Depth
        BY PagingConstants
      <3>2. PICK t, i : t = At(N, v, d) /\ i = v[d]
        OBVIOUS
      <3>3. t = At(M, v, d)
        BY <3>1, <3>2, WaysSame
      <3>4. ~(t = p /\ i = j)
        BY <1>0, <1>1, <2>1, <3>1, <3>2, <3>3, OwnEntry
      <3>5. M[t][i] = LazyPage
        BY <1>1, <2>1, <3>1, <3>2, <3>4
      <3> QED BY <1>1, <2>1, <3>2, <3>3, <3>5 DEF Tree, LazyLast
    <2> QED BY <2>1 DEF LazyLast
  <1> QED BY <1>1, <1>2, <1>3, <1>4, <1>5 DEF Tree

-----------------------------------------------------------------------------
(* The work of a CPU, numbered from the bottom of its stack of faults.      *)
Works == [op : {"mapTable", "mapToLazy", "mapFromLazy"}, v : PPage, d : 1 .. Depth,
          pc : {"walk", "cas", "release", "check"}, f : PFrame \cup {NoFrame}]
FaultStacks == [PagingCpu -> Seq(Works)]
On(F, c, k) == k \in 1 .. Len(F[c])
It(F, c, k) == F[c][Len(F[c]) + 1 - k]

(* Only the k-th work of CPU c changes.                                     *)
Moves(F, G, c, k) ==
  \A x \in PagingCpu, n \in Nat :
    ~(x = c /\ n = k) => (On(G, x, n) <=> On(F, x, n)) /\ (On(F, x, n) => It(G, x, n) = It(F, x, n))

Pushed(F, G, c, w) == G = [F EXCEPT ![c] = <<w>> \o @]
Popped(F, G, c) == F[c] # <<>> /\ G = [F EXCEPT ![c] = Tail(@)]
Changed(F, G, c, w) == F[c] # <<>> /\ G = [F EXCEPT ![c] = <<w>> \o Tail(@)]

LEMMA PushStack ==
  ASSUME NEW F \in FaultStacks, NEW G, NEW c \in PagingCpu, NEW w \in Works, Pushed(F, G, c, w)
  PROVE  /\ G \in FaultStacks /\ Len(G[c]) = Len(F[c]) + 1
         /\ Moves(F, G, c, Len(F[c]) + 1) /\ It(G, c, Len(F[c]) + 1) = w
  <1>1. PICK s, t : s = F[c] /\ t = <<w>> \o s
    OBVIOUS
  <1>2. s \in Seq(Works) /\ Len(s) \in Nat
    BY <1>1, LenProperties DEF FaultStacks, Pushed
  <1>3. t \in Seq(Works) /\ Len(t) = Len(s) + 1 /\ t[1] = w /\ \A n \in 1 .. Len(s) : t[n + 1] = s[n]
    BY <1>1, <1>2
  <1>4. G \in FaultStacks /\ G[c] = t /\ \A x \in PagingCpu : x # c => G[x] = F[x]
    BY <1>1, <1>3 DEF FaultStacks, Pushed
  <1>5. It(G, c, Len(F[c]) + 1) = w
    BY <1>1, <1>2, <1>3, <1>4 DEF It
  <1>6. ASSUME NEW x \in PagingCpu, NEW n \in Nat, ~(x = c /\ n = Len(F[c]) + 1)
        PROVE  (On(G, x, n) <=> On(F, x, n)) /\ (On(F, x, n) => It(G, x, n) = It(F, x, n))
    <2>1. CASE x # c
      BY <1>4, <2>1 DEF On, It
    <2>2. CASE x = c
      <3>1. n \in 1 .. Len(t) <=> n \in 1 .. Len(s)
        BY <1>1, <1>2, <1>3, <1>6, <2>2
      <3>2. ASSUME n \in 1 .. Len(s) PROVE t[Len(t) + 1 - n] = s[Len(s) + 1 - n]
        <4>1. Len(s) + 1 - n \in 1 .. Len(s) /\ Len(t) + 1 - n = (Len(s) + 1 - n) + 1
          BY <1>2, <1>3, <3>2
        <4> QED BY <1>3, <4>1
      <3> QED BY <1>1, <1>4, <2>2, <3>1, <3>2 DEF On, It
    <2> QED BY <2>1, <2>2
  <1>7. Moves(F, G, c, Len(F[c]) + 1)
    BY <1>6 DEF Moves
  <1> QED BY <1>1, <1>3, <1>4, <1>5, <1>7

LEMMA PopStack ==
  ASSUME NEW F \in FaultStacks, NEW G, NEW c \in PagingCpu, Popped(F, G, c)
  PROVE  /\ G \in FaultStacks /\ Len(G[c]) = Len(F[c]) - 1 /\ Len(F[c]) \in Nat \ {0}
         /\ Moves(F, G, c, Len(F[c])) /\ ~On(G, c, Len(F[c]))
  <1>1. PICK s, t : s = F[c] /\ t = Tail(s)
    OBVIOUS
  <1>2. s \in Seq(Works) /\ Len(s) \in Nat /\ s # <<>>
    BY <1>1, LenProperties DEF FaultStacks, Popped
  <1>3. t \in Seq(Works) /\ Len(t) = Len(s) - 1 /\ Len(s) # 0 /\ \A n \in 1 .. Len(t) : t[n] = s[n + 1]
    BY <1>1, <1>2
  <1>4. G \in FaultStacks /\ G[c] = t /\ \A x \in PagingCpu : x # c => G[x] = F[x]
    BY <1>1, <1>3 DEF FaultStacks, Popped
  <1>6. ASSUME NEW x \in PagingCpu, NEW n \in Nat, ~(x = c /\ n = Len(F[c]))
        PROVE  (On(G, x, n) <=> On(F, x, n)) /\ (On(F, x, n) => It(G, x, n) = It(F, x, n))
    <2>1. CASE x # c
      BY <1>4, <2>1 DEF On, It
    <2>2. CASE x = c
      <3>1. n \in 1 .. Len(t) <=> n \in 1 .. Len(s)
        BY <1>1, <1>2, <1>3, <1>6, <2>2
      <3>2. ASSUME n \in 1 .. Len(s) PROVE t[Len(t) + 1 - n] = s[Len(s) + 1 - n]
        <4>1. n \in 1 .. Len(t)
          BY <3>1, <3>2
        <4>2. Len(t) + 1 - n \in 1 .. Len(t) /\ Len(s) + 1 - n = (Len(t) + 1 - n) + 1
          BY <1>2, <1>3, <4>1
        <4> QED BY <1>3, <4>2
      <3> QED BY <1>1, <1>4, <2>2, <3>1, <3>2 DEF On, It
    <2> QED BY <2>1, <2>2
  <1>7. Moves(F, G, c, Len(F[c]))
    BY <1>6 DEF Moves
  <1>8. ~On(G, c, Len(F[c]))
    <2>1. ~(Len(s) \in 1 .. Len(t))
      BY <1>2, <1>3
    <2> QED BY <1>1, <1>4, <2>1 DEF On
  <1> QED BY <1>1, <1>2, <1>3, <1>4, <1>7, <1>8

LEMMA BecomeStack ==
  ASSUME NEW F \in FaultStacks, NEW G, NEW c \in PagingCpu, NEW w \in Works, Changed(F, G, c, w)
  PROVE  /\ G \in FaultStacks /\ Len(G[c]) = Len(F[c]) /\ Len(F[c]) \in Nat \ {0}
         /\ Moves(F, G, c, Len(F[c])) /\ It(G, c, Len(F[c])) = w
  <1>1. PICK s, t : s = F[c] /\ t = <<w>> \o Tail(s)
    OBVIOUS
  <1>2. s \in Seq(Works) /\ Len(s) \in Nat /\ s # <<>>
    BY <1>1, LenProperties DEF FaultStacks, Changed
  <1>3. t \in Seq(Works) /\ Len(t) = Len(s) /\ Len(s) # 0 /\ t[1] = w /\ \A n \in 2 .. Len(s) : t[n] = s[n]
    <2>1. PICK r : r = Tail(s)
      OBVIOUS
    <2>2. r \in Seq(Works) /\ Len(r) = Len(s) - 1 /\ Len(s) # 0 /\ Len(r) \in Nat /\ \A n \in 1 .. Len(r) : r[n] = s[n + 1]
      BY <1>2, <2>1
    <2>3. t = <<w>> \o r
      BY <1>1, <2>1
    <2>4. t \in Seq(Works) /\ Len(t) = Len(r) + 1 /\ t[1] = w /\ \A n \in 1 .. Len(r) : t[n + 1] = r[n]
      BY <2>2, <2>3
    <2>5. ASSUME NEW n \in 2 .. Len(s) PROVE t[n] = s[n]
      <3>1. n - 1 \in 1 .. Len(r) /\ (n - 1) + 1 = n
        BY <1>2, <2>2
      <3> QED BY <2>2, <2>4, <3>1
    <2> QED BY <1>2, <2>2, <2>4, <2>5
  <1>4. G \in FaultStacks /\ G[c] = t /\ \A x \in PagingCpu : x # c => G[x] = F[x]
    BY <1>1, <1>3 DEF FaultStacks, Changed
  <1>5. It(G, c, Len(F[c])) = w
    BY <1>1, <1>2, <1>3, <1>4 DEF It
  <1>6. ASSUME NEW x \in PagingCpu, NEW n \in Nat, ~(x = c /\ n = Len(F[c]))
        PROVE  (On(G, x, n) <=> On(F, x, n)) /\ (On(F, x, n) => It(G, x, n) = It(F, x, n))
    <2>1. CASE x # c
      BY <1>4, <2>1 DEF On, It
    <2>2. CASE x = c
      <3>2. ASSUME n \in 1 .. Len(s) PROVE t[Len(t) + 1 - n] = s[Len(s) + 1 - n]
        <4>1. Len(s) + 1 - n \in 2 .. Len(s) /\ Len(t) + 1 - n = Len(s) + 1 - n
          BY <1>1, <1>2, <1>3, <1>6, <2>2, <3>2
        <4> QED BY <1>3, <4>1
      <3> QED BY <1>1, <1>3, <1>4, <2>2, <3>2 DEF On, It
    <2> QED BY <2>1, <2>2
  <1>7. Moves(F, G, c, Len(F[c]))
    BY <1>6 DEF Moves
  <1> QED BY <1>1, <1>2, <1>3, <1>4, <1>5, <1>7

(* The work on top.                                                         *)
LEMMA TopStack ==
  ASSUME NEW F \in FaultStacks, NEW c \in PagingCpu
  PROVE  /\ Len(F[c]) \in Nat
         /\ F[c] # <<>> => Len(F[c]) # 0 /\ On(F, c, Len(F[c])) /\ Head(F[c]) = It(F, c, Len(F[c]))
         /\ \A k \in 1 .. Len(F[c]) : It(F, c, k) \in Works
  <1>1. PICK s : s = F[c]
    OBVIOUS
  <1>2. s \in Seq(Works) /\ Len(s) \in Nat
    BY <1>1, LenProperties DEF FaultStacks
  <1>3. ASSUME s # <<>> PROVE Len(s) # 0 /\ Len(s) \in 1 .. Len(s) /\ Head(s) = s[Len(s) + 1 - Len(s)]
    <2>1. Len(s) # 0
      BY <1>2, <1>3, EmptySeq
    <2>2. Len(s) + 1 - Len(s) = 1
      BY <1>2
    <2>3. Head(s) = s[1]
      BY <1>2, <1>3
    <2> QED BY <1>2, <2>1, <2>2, <2>3
  <1>4. ASSUME NEW k \in 1 .. Len(s) PROVE s[Len(s) + 1 - k] \in Works
    <2>1. Len(s) + 1 - k \in 1 .. Len(s)
      BY <1>2
    <2> QED BY <1>2, <2>1
  <1> QED BY <1>1, <1>2, <1>3, <1>4 DEF On, It

(* The frames that are held.                                                *)
HeldFrame(F, c, k) == IF On(F, c, k) THEN It(F, c, k).f ELSE NoFrame
HeldFrames(F) == {f \in PFrame : \E c \in PagingCpu, k \in Nat : HeldFrame(F, c, k) = f}
Lone(F) ==
  \A c, e \in PagingCpu, k, l \in Nat :
    HeldFrame(F, c, k) \in PFrame /\ HeldFrame(F, c, k) = HeldFrame(F, e, l) => c = e /\ k = l

LEMMA HeldStep ==
  ASSUME NEW F, NEW G, NEW c \in PagingCpu, NEW k \in Nat, Moves(F, G, c, k), Lone(F),
         NEW g, NEW h, HeldFrame(F, c, k) = g, HeldFrame(G, c, k) = h, h = g \/ h \notin HeldFrames(F)
  PROVE  Lone(G) /\ HeldFrames(G) = (HeldFrames(F) \ {g}) \cup ({h} \cap PFrame)
  <1>1. \A x \in PagingCpu, n \in Nat : ~(x = c /\ n = k) => HeldFrame(G, x, n) = HeldFrame(F, x, n)
    BY DEF Moves, HeldFrame
  <1>2. \A x \in PagingCpu, n \in Nat : HeldFrame(F, x, n) = g /\ g \in PFrame => x = c /\ n = k
    BY DEF Lone
  <1>3. \A x \in PagingCpu, n \in Nat : HeldFrame(F, x, n) \in PFrame => HeldFrame(F, x, n) \in HeldFrames(F)
    BY DEF HeldFrames
  <1>4. \A x \in PagingCpu, n \in Nat : HeldFrame(F, x, n) = h /\ h \in PFrame => x = c /\ n = k
    BY <1>2, <1>3
  <1>5. Lone(G)
    <2>1. ASSUME NEW x \in PagingCpu, NEW y \in PagingCpu, NEW n \in Nat, NEW m \in Nat,
                 HeldFrame(G, x, n) \in PFrame, HeldFrame(G, x, n) = HeldFrame(G, y, m)
          PROVE  x = y /\ n = m
      <3>1. CASE x = c /\ n = k
        <4>1. HeldFrame(G, y, m) = h /\ h \in PFrame
          BY <2>1, <3>1
        <4>2. ~(y = c /\ m = k) => HeldFrame(F, y, m) = h
          BY <1>1, <4>1
        <4> QED BY <1>4, <3>1, <4>1, <4>2
      <3>2. CASE y = c /\ m = k
        <4>1. HeldFrame(G, x, n) = h /\ h \in PFrame
          BY <2>1, <3>2
        <4>2. ~(x = c /\ n = k) => HeldFrame(F, x, n) = h
          BY <1>1, <4>1
        <4> QED BY <1>4, <3>2, <4>1, <4>2
      <3>3. CASE ~(x = c /\ n = k) /\ ~(y = c /\ m = k)
        <4>1. HeldFrame(G, x, n) = HeldFrame(F, x, n) /\ HeldFrame(G, y, m) = HeldFrame(F, y, m)
          BY <1>1, <3>3
        <4>2. HeldFrame(F, x, n) \in PFrame /\ HeldFrame(F, x, n) = HeldFrame(F, y, m)
          BY <2>1, <4>1
        <4> QED BY <4>2, Zenon DEF Lone
      <3> QED BY <3>1, <3>2, <3>3
    <2> QED BY <2>1, Zenon DEF Lone
  <1>6. ASSUME NEW f \in PFrame
        PROVE  f \in HeldFrames(G) <=> (f \in HeldFrames(F) /\ f # g) \/ f = h
    <2>1. ASSUME f \in HeldFrames(G) PROVE (f \in HeldFrames(F) /\ f # g) \/ f = h
      <3>1. PICK x \in PagingCpu, n \in Nat : HeldFrame(G, x, n) = f
        BY <2>1 DEF HeldFrames
      <3>2. CASE x = c /\ n = k
        BY <3>1, <3>2
      <3>3. CASE ~(x = c /\ n = k)
        <4>1. HeldFrame(F, x, n) = f
          BY <1>1, <3>1, <3>3
        <4>2. f # g
          BY <1>2, <3>3, <4>1
        <4> QED BY <1>3, <4>1, <4>2
      <3> QED BY <3>2, <3>3
    <2>2. ASSUME f \in HeldFrames(F), f # g PROVE f \in HeldFrames(G)
      <3>1. PICK x \in PagingCpu, n \in Nat : HeldFrame(F, x, n) = f
        BY <2>2 DEF HeldFrames
      <3>2. ~(x = c /\ n = k)
        BY <2>2, <3>1
      <3>3. HeldFrame(G, x, n) = f
        BY <1>1, <3>1, <3>2
      <3> QED BY <3>3 DEF HeldFrames
    <2>3. ASSUME f = h PROVE f \in HeldFrames(G)
      BY <2>3 DEF HeldFrames
    <2> QED BY <2>1, <2>2, <2>3
  <1>7. HeldFrames(G) \subseteq PFrame /\ HeldFrames(F) \subseteq PFrame
    BY DEF HeldFrames
  <1> QED BY <1>5, <1>6, <1>7

-----------------------------------------------------------------------------
(* What a write does to the entries and to the frames they refer to.        *)
EntryOf(M, v, d) == Follow(M, v, At(M, v, d), d)
Refs(M) == {f \in PFrame : Referenced(M, f)}

LEMMA EntryInstalled ==
  ASSUME NEW M, NEW N, NEW w, NEW e, NEW f \in PFrame, Written(M, N, w, e, f), M[At(M, w, e)][w[e]] \notin PFrame
  PROVE  /\ EntryOf(N, w, e) = f
         /\ \A v \in PPage, d \in 1 .. Depth :
              /\ EntryOf(M, v, d) # NoEntry => EntryOf(N, v, d) # NoEntry
              /\ EntryOf(M, v, d) \in PFrame => EntryOf(N, v, d) \in PFrame
  <1>a. /\ N \in [PFrame -> [Index -> Entries]] /\ w[e] \in Index
        /\ \A t \in PFrame, i \in Index : N[t][i] = IF t = At(M, w, e) /\ i = w[e] THEN f ELSE M[t][i]
    BY WrittenAt
  <1>b. At(M, w, e) \in PFrame /\ Tree(M) /\ w \in PPage /\ e \in 1 .. Depth
    BY DEF Written
  <1>1. EntryOf(N, w, e) = f
    <2>1. At(N, w, e) = At(M, w, e)
      BY <1>b, WaysKept
    <2> QED BY <1>a, <1>b, <2>1 DEF EntryOf, Follow
  <1>2. ASSUME NEW v \in PPage, NEW d \in 1 .. Depth, EntryOf(M, v, d) # NoEntry
        PROVE  EntryOf(N, v, d) = f \/ EntryOf(N, v, d) = EntryOf(M, v, d)
    <2>1. PICK p, i : p = At(M, v, d) /\ i = v[d]
      OBVIOUS
    <2>2. p \in PFrame /\ EntryOf(M, v, d) = M[p][i]
      BY <1>2, <2>1 DEF EntryOf, Follow
    <2>3. i \in Index
      BY <2>1, PagingConstants
    <2>4. At(N, v, d) = p
      BY <2>1, <2>2, WaysKept
    <2>5. EntryOf(N, v, d) = N[p][i]
      BY <2>1, <2>2, <2>4 DEF EntryOf, Follow
    <2> QED BY <1>a, <2>2, <2>3, <2>5
  <1>3. f # NoEntry /\ NoEntry \notin PFrame
    BY PagingConstants
  <1> QED BY <1>1, <1>2, <1>3

LEMMA EntryLast ==
  ASSUME NEW M, NEW N, NEW w, NEW x, Written(M, N, w, Depth, x), NEW v \in PPage, NEW d \in 1 .. Depth
  PROVE  EntryOf(N, v, d) = IF v = w /\ d = Depth THEN x ELSE EntryOf(M, v, d)
  <1>a. \A t \in PFrame, i \in Index : N[t][i] = IF t = At(M, w, Depth) /\ i = w[Depth] THEN x ELSE M[t][i]
    BY WrittenAt
  <1>b. At(M, w, Depth) \in PFrame /\ Tree(M) /\ w \in PPage
    BY DEF Written
  <1>1. PICK p, i : p = At(M, v, d) /\ i = v[d]
    OBVIOUS
  <1>2. At(N, v, d) = p /\ i \in Index
    BY <1>1, WaysSame, PagingConstants
  <1>3. CASE p \notin PFrame
    BY <1>1, <1>2, <1>3, <1>b DEF EntryOf, Follow
  <1>4. CASE p \in PFrame
    <2>1. EntryOf(N, v, d) = N[p][i] /\ EntryOf(M, v, d) = M[p][i]
      BY <1>1, <1>2, <1>4 DEF EntryOf, Follow
    <2>2. p = At(M, w, Depth) /\ i = w[Depth] <=> v = w /\ d = Depth
      BY <1>1, <1>4, <1>b, OwnEntry
    <2>3. N[p][i] = IF p = At(M, w, Depth) /\ i = w[Depth] THEN x ELSE M[p][i]
      BY <1>a, <1>2, <1>4
    <2> QED BY <2>1, <2>2, <2>3
  <1> QED BY <1>3, <1>4

LEMMA RefsWritten ==
  ASSUME NEW M, NEW N, NEW w, NEW e, NEW x, Written(M, N, w, e, x), ~Referenced(M, x) \/ x \notin PFrame
  PROVE  Refs(N) = (Refs(M) \ {M[At(M, w, e)][w[e]]}) \cup ({x} \cap PFrame)
  <1>a. \A t \in PFrame, i \in Index : N[t][i] = IF t = At(M, w, e) /\ i = w[e] THEN x ELSE M[t][i]
    BY WrittenAt
  <1>b. At(M, w, e) \in PFrame /\ OneParent(M) /\ w[e] \in Index
    BY WrittenAt DEF Written, Tree
  <1>1. PICK p, j, o : p = At(M, w, e) /\ j = w[e] /\ o = M[p][j]
    OBVIOUS
  <1>2. p \in PFrame /\ j \in Index /\ \A t \in PFrame, i \in Index : N[t][i] = IF t = p /\ i = j THEN x ELSE M[t][i]
    BY <1>1, <1>a, <1>b
  <1>3. ASSUME NEW f \in PFrame
        PROVE  Referenced(N, f) <=> (Referenced(M, f) /\ f # o) \/ f = x
    <2>1. ASSUME Referenced(N, f) PROVE (Referenced(M, f) /\ f # o) \/ f = x
      <3>1. PICK t \in PFrame, i \in Index : N[t][i] = f
        BY <2>1 DEF Referenced
      <3>2. CASE t = p /\ i = j
        BY <1>2, <3>1, <3>2
      <3>3. CASE ~(t = p /\ i = j)
        <4>1. M[t][i] = f
          BY <1>2, <3>1, <3>3
        <4>2. f # o
          <5>1. ASSUME f = o PROVE FALSE
            <6>1. M[t][i] = M[p][j] /\ M[t][i] \in PFrame
              BY <1>1, <4>1, <5>1
            <6>a. OneParent(M) /\ p \in PFrame /\ j \in Index
              BY <1>2, <1>b
            <6>2. t = p /\ i = j
              BY <6>a, <6>1, Zenon DEF OneParent
            <6> QED BY <3>3, <6>2
          <5> QED BY <5>1
        <4> QED BY <4>1, <4>2 DEF Referenced
      <3> QED BY <3>2, <3>3
    <2>2. ASSUME Referenced(M, f), f # o PROVE Referenced(N, f)
      <3>1. PICK t \in PFrame, i \in Index : M[t][i] = f
        BY <2>2 DEF Referenced
      <3>2. ~(t = p /\ i = j)
        BY <1>1, <2>2, <3>1
      <3>3. N[t][i] = f
        BY <1>2, <3>1, <3>2
      <3> QED BY <3>3 DEF Referenced
    <2>3. ASSUME f = x PROVE Referenced(N, f)
      <3>1. N[p][j] = f
        BY <1>2, <2>3
      <3> QED BY <1>2, <3>1 DEF Referenced
    <2> QED BY <2>1, <2>2, <2>3
  <1>4. Refs(N) = (Refs(M) \ {o}) \cup ({x} \cap PFrame)
    BY <1>3 DEF Refs
  <1> QED BY <1>1, <1>4

-----------------------------------------------------------------------------
(* The inductive invariant.  Every frame but the root is free, or in the    *)
(* tree, or held, and held once; what a CPU works at agrees with where it   *)
(* is; and the works of one CPU climb the levels from the one it faulted at.*)
Partition(R, A, H) ==
  /\ R \cup A \cup H = PFrame \ {Root}
  /\ R \cap A = {} /\ R \cap H = {} /\ A \cap H = {}
WorkSound(M, U, w) ==
  /\ w.op = "mapTable" => w.d < Depth /\ w.pc \in {"cas", "release", "check"}
  /\ w.op = "mapToLazy" => w.pc = "cas" /\ w.d = Depth
  /\ w.op = "mapFromLazy" => U[w.v] = "mapped" /\ (w.pc # "walk" => w.d = Depth)
  /\ w.f \in PFrame <=> w.op # "mapToLazy" /\ w.pc \in {"cas", "release"}
  /\ w.pc \in {"release", "check"} => EntryOf(M, w.v, w.d) \in PFrame
WorksSound(M, U, F) == \A c \in PagingCpu, k \in Nat : On(F, c, k) => WorkSound(M, U, It(F, c, k))
Climbs(F, c, k, w) == k = 1 \/ (w.op = "mapTable" /\ w.d + k = It(F, c, 1).d + 1)
Climbing(F) == \A c \in PagingCpu, k \in Nat : On(F, c, k) => Climbs(F, c, k, It(F, c, k))
MappedSound(M, U) == \A v \in PPage : U[v] = "mapped" => EntryOf(M, v, Depth) # NoEntry
Uses == [PPage -> {"free", "mapping", "mapped"}]
PagingSound(M, R, U, F) ==
  /\ U \in Uses /\ F \in FaultStacks /\ Tree(M)
  /\ Partition(R, Refs(M), HeldFrames(F)) /\ Lone(F)
  /\ WorksSound(M, U, F) /\ Climbing(F) /\ MappedSound(M, U)

(* A step changes the work on top of one stack; the others stay sound.      *)
OthersSound(N, V, F, c, k) ==
  \A x \in PagingCpu, n \in Nat : On(F, x, n) /\ ~(x = c /\ n = k) => WorkSound(N, V, It(F, x, n))
TopSound(N, V, F, G, c, k) == On(G, c, k) => WorkSound(N, V, It(G, c, k)) /\ Climbs(F, c, k, It(G, c, k))

TopMoves(F, G, c, k) == G \in FaultStacks /\ k \in Nat \ {0} /\ Moves(F, G, c, k) /\ Len(G[c]) <= k
Passes(F, G, c, k, S, A) ==
  LET g == HeldFrame(F, c, k)
      h == HeldFrame(G, c, k)
  IN (h = g \/ h \notin HeldFrames(F)) /\ Partition(S, A, (HeldFrames(F) \ {g}) \cup ({h} \cap PFrame))

LEMMA PagingStep ==
  ASSUME NEW M, NEW R, NEW U, NEW F, PagingSound(M, R, U, F),
         NEW N, NEW S, NEW V \in Uses, NEW G, NEW c \in PagingCpu, NEW k, TopMoves(F, G, c, k),
         Tree(N), MappedSound(N, V), OthersSound(N, V, F, c, k), TopSound(N, V, F, G, c, k),
         Passes(F, G, c, k, S, Refs(N))
  PROVE  PagingSound(N, S, V, G)
  <1>0. G \in FaultStacks /\ k \in Nat \ {0} /\ Moves(F, G, c, k) /\ Len(G[c]) <= k
    BY DEF TopMoves
  <1>a. PICK g, h : g = HeldFrame(F, c, k) /\ h = HeldFrame(G, c, k)
    OBVIOUS
  <1>b. (h = g \/ h \notin HeldFrames(F)) /\ Partition(S, Refs(N), (HeldFrames(F) \ {g}) \cup ({h} \cap PFrame))
    BY <1>a DEF Passes
  <1>1. Lone(G) /\ HeldFrames(G) = (HeldFrames(F) \ {g}) \cup ({h} \cap PFrame)
    <2>1. Lone(F) /\ k \in Nat
      BY <1>0 DEF PagingSound
    <2> QED BY <1>0, <1>a, <1>b, <2>1, HeldStep
  <1>2. WorksSound(N, V, G)
    <2>1. ASSUME NEW x \in PagingCpu, NEW n \in Nat, On(G, x, n) PROVE WorkSound(N, V, It(G, x, n))
      <3>1. CASE x = c /\ n = k
        BY <2>1, <3>1 DEF TopSound
      <3>2. CASE ~(x = c /\ n = k)
        <4>1. On(F, x, n) /\ It(G, x, n) = It(F, x, n)
          BY <1>0, <2>1, <3>2 DEF Moves
        <4> QED BY <3>2, <4>1 DEF OthersSound
      <3> QED BY <3>1, <3>2
    <2> QED BY <2>1 DEF WorksSound
  <1>3. Climbing(G)
    <2>1. ASSUME NEW x \in PagingCpu, NEW n \in Nat, On(G, x, n), n # 1 PROVE Climbs(G, x, n, It(G, x, n))
      <3>0. Len(G[x]) \in Nat
        BY <1>0, TopStack
      <3>1. n \in 1 .. Len(G[x]) /\ On(G, x, 1)
        BY <2>1, <3>0 DEF On
      <3>2. ~(x = c /\ 1 = k)
        BY <1>0, <2>1, <3>0, <3>1
      <3>3. It(G, x, 1) = It(F, x, 1)
        BY <1>0, <3>1, <3>2 DEF Moves
      <3>4. Climbs(F, x, n, It(G, x, n))
        <4>1. CASE x = c /\ n = k
          BY <2>1, <4>1 DEF TopSound
        <4>2. CASE ~(x = c /\ n = k)
          <5>1. On(F, x, n) /\ It(G, x, n) = It(F, x, n)
            BY <1>0, <2>1, <4>2 DEF Moves
          <5> QED BY <5>1 DEF PagingSound, Climbing
        <4> QED BY <4>1, <4>2
      <3> QED BY <3>3, <3>4 DEF Climbs
    <2>2. ASSUME NEW x \in PagingCpu, NEW n \in Nat, On(G, x, n) PROVE Climbs(G, x, n, It(G, x, n))
      <3>1. CASE n = 1
        BY <3>1 DEF Climbs
      <3> QED BY <2>1, <2>2, <3>1
    <2> QED BY <2>2 DEF Climbing
  <1>4. Partition(S, Refs(N), HeldFrames(G))
    BY <1>1, <1>b
  <1> QED BY <1>0, <1>1, <1>2, <1>3, <1>4 DEF PagingSound

(* What is known of the work on top.                                        *)
TopFacts(M, U, F, c, w, k) ==
  /\ w = It(F, c, k) /\ k = Len(F[c]) /\ k \in Nat \ {0} /\ On(F, c, k) /\ w \in Works
  /\ WorkSound(M, U, w) /\ Climbs(F, c, k, w) /\ HeldFrame(F, c, k) = w.f

LEMMA TopKnown ==
  ASSUME NEW M, NEW R, NEW U, NEW F, PagingSound(M, R, U, F), NEW c \in PagingCpu, F[c] # <<>>
  PROVE  TopFacts(M, U, F, c, Head(F[c]), Len(F[c]))
  <1>1. F \in FaultStacks
    BY DEF PagingSound
  <1>2. /\ Len(F[c]) \in Nat /\ Len(F[c]) # 0 /\ On(F, c, Len(F[c])) /\ Head(F[c]) = It(F, c, Len(F[c]))
        /\ It(F, c, Len(F[c])) \in Works
    BY <1>1, TopStack DEF On
  <1>3. WorkSound(M, U, Head(F[c])) /\ Climbs(F, c, Len(F[c]), Head(F[c]))
    BY <1>2 DEF PagingSound, WorksSound, Climbing
  <1> QED BY <1>2, <1>3 DEF TopFacts, HeldFrame

(* The others stay sound when no entry loses its frame and no page its use. *)
LEMMA OthersKept ==
  ASSUME NEW M, NEW R, NEW U, NEW F, PagingSound(M, R, U, F), NEW N, NEW V, NEW c, NEW k,
         \A v \in PPage, d \in 1 .. Depth : EntryOf(M, v, d) \in PFrame => EntryOf(N, v, d) \in PFrame,
         \A v \in PPage : U[v] = "mapped" => V[v] = "mapped"
  PROVE  OthersSound(N, V, F, c, k)
  <1>1. ASSUME NEW x \in PagingCpu, NEW n \in Nat, On(F, x, n)
        PROVE  WorkSound(N, V, It(F, x, n))
    <2>1. PICK w : w = It(F, x, n)
      OBVIOUS
    <2>2. w \in Works
      <3>1. F \in FaultStacks
        BY DEF PagingSound
      <3> QED BY <1>1, <2>1, <3>1, TopStack DEF On
    <2>3. w.v \in PPage /\ w.d \in 1 .. Depth
      BY <2>2 DEF Works
    <2>4. WorkSound(M, U, w)
      BY <1>1, <2>1 DEF PagingSound, WorksSound
    <2>5. WorkSound(N, V, w)
      BY <2>3, <2>4 DEF WorkSound
    <2> QED BY <2>1, <2>5
  <1> QED BY <1>1 DEF OthersSound

(* A free frame, if there is one.                                           *)
LEMMA AllocatedFree ==
  ASSUME freeFrames \subseteq PFrame, freeFrames # {}
  PROVE  Allocated \in freeFrames
  <1>1. freeFrames \in SUBSET Nat
    BY PagingConstants
  <1>2. PICK m \in freeFrames : \A y \in freeFrames : m <= y
    BY <1>1, LeastNumber
  <1> QED BY <1>2 DEF Allocated, Min

(* The state's walks.                                                       *)
LEMMA StateWalks ==
  ASSUME NEW v, NEW d
  PROVE  /\ Tables(v)[d] = At(frameMem, v, d)
         /\ Reached(v, d) <=> At(frameMem, v, d) \in PFrame
         /\ Entry(v, d) = EntryOf(frameMem, v, d)
  <1>1. Tables(v)[d] = At(frameMem, v, d)
    BY TablesWalk DEF At
  <1> QED BY <1>1 DEF Reached, Entry, EntryOf, Follow

-----------------------------------------------------------------------------
(* The actions.                                                             *)
SoundNow == PagingSound(frameMem, freeFrames, use, faults)
SoundNext == PagingSound(frameMem', freeFrames', use', faults')

LEMMA TableFaultSound ==
  ASSUME SoundNow, NEW c \in PagingCpu, TableFault(c)
  PROVE  SoundNext
  <1>1. PICK w, k : w = Top(c) /\ k = Len(faults[c])
    OBVIOUS
  <1>2. TopFacts(frameMem, use, faults, c, w, k)
    BY <1>1, TopKnown DEF SoundNow, TableFault, Faulting, Top
  <1>3. faults \in FaultStacks /\ use \in Uses /\ Tree(frameMem) /\ MappedSound(frameMem, use)
    BY DEF SoundNow, PagingSound
  <1>4. Partition(freeFrames, Refs(frameMem), HeldFrames(faults))
    BY DEF SoundNow, PagingSound
  <1>5. PICK a : a = Allocated /\ a \in freeFrames /\ a \in PFrame
    BY <1>4, AllocatedFree DEF Partition, TableFault
  <1>6. w \in Works /\ k \in Nat \ {0}
    BY <1>2 DEF TopFacts
  <1>7. w.v \in PPage /\ w.d \in 1 .. Depth /\ w.d # 1
    <2>1. At(frameMem, w.v, w.d) \notin PFrame
      BY <1>1, StateWalks DEF TableFault
    <2>2. At(frameMem, w.v, 1) = Root
      BY WalkIs
    <2> QED BY <1>6, <2>1, <2>2, PagingConstants DEF Works
  <1>8. PICK z : z = [op |-> "mapTable", v |-> w.v, d |-> w.d - 1, pc |-> "cas", f |-> a]
    OBVIOUS
  <1>9. w.d - 1 \in 1 .. Depth /\ w.d - 1 < Depth
    BY <1>7, PagingConstants
  <1>10. z \in Works
    BY <1>5, <1>7, <1>8, <1>9 DEF Works
  <1>11. Pushed(faults, faults', c, z)
    <2>1. z = [Work("mapTable", Top(c).v, Top(c).d - 1, "cas") EXCEPT !.f = Allocated]
      BY <1>1, <1>5, <1>8 DEF Work
    <2> QED BY <2>1 DEF TableFault, Push, Pushed
  <1>12. /\ faults' \in FaultStacks /\ Len(faults'[c]) = k + 1
         /\ Moves(faults, faults', c, k + 1) /\ It(faults', c, k + 1) = z
    BY <1>1, <1>3, <1>10, <1>11, PushStack
  <1>13. k + 1 \in Nat \ {0} /\ On(faults', c, k + 1) /\ ~On(faults, c, k + 1)
    BY <1>1, <1>6, <1>12 DEF On
  <1>14. HeldFrame(faults, c, k + 1) = NoFrame /\ HeldFrame(faults', c, k + 1) = a
    BY <1>8, <1>12, <1>13 DEF HeldFrame
  <1>15. frameMem' = frameMem /\ use' = use /\ freeFrames' = freeFrames \ {a}
    BY <1>5 DEF TableFault
  <1>16. OthersSound(frameMem, use, faults, c, k + 1)
    BY OthersKept DEF SoundNow
  <1>17. TopSound(frameMem, use, faults, faults', c, k + 1)
    <2>1. WorkSound(frameMem, use, z)
      BY <1>5, <1>8, <1>9 DEF WorkSound
    <2>2. w.d + k = It(faults, c, 1).d + 1
      <3>1. CASE k = 1
        BY <1>2, <1>7, <3>1 DEF TopFacts
      <3>2. CASE k # 1
        BY <1>2, <3>2 DEF TopFacts, Climbs
      <3> QED BY <3>1, <3>2
    <2>3. z.d + (k + 1) = w.d + k /\ z.op = "mapTable"
      BY <1>6, <1>7, <1>8
    <2> QED BY <1>12, <2>1, <2>2, <2>3 DEF TopSound, Climbs
  <1>18. /\ a \notin HeldFrames(faults)
         /\ Partition(freeFrames \ {a}, Refs(frameMem), (HeldFrames(faults) \ {NoFrame}) \cup ({a} \cap PFrame))
    <2>1. NoFrame \notin HeldFrames(faults)
      BY PagingConstants DEF HeldFrames
    <2> QED BY <1>4, <1>5, <2>1 DEF Partition
  <1>19. Len(faults'[c]) <= k + 1
    BY <1>6, <1>12
  <1>a. TopMoves(faults, faults', c, k + 1) /\ Passes(faults, faults', c, k + 1, freeFrames \ {a}, Refs(frameMem))
    BY <1>12, <1>13, <1>14, <1>18, <1>19 DEF TopMoves, Passes
  <1>20. PagingSound(frameMem, freeFrames \ {a}, use, faults')
    BY <1>3, <1>16, <1>17, <1>a, PagingStep DEF SoundNow
  <1> QED BY <1>15, <1>20 DEF SoundNext

LEMMA MapRegionSound ==
  ASSUME SoundNow, NEW c \in PagingCpu, NEW v \in PPage, MapRegion(c, v)
  PROVE  SoundNext
  <1>3. faults \in FaultStacks /\ use \in Uses /\ Tree(frameMem) /\ MappedSound(frameMem, use)
    BY DEF SoundNow, PagingSound
  <1>4. Partition(freeFrames, Refs(frameMem), HeldFrames(faults))
    BY DEF SoundNow, PagingSound
  <1>5. Len(faults[c]) = 0
    BY DEF MapRegion, Faulting
  <1>8. PICK z : z = [op |-> "mapToLazy", v |-> v, d |-> Depth, pc |-> "cas", f |-> NoFrame]
    OBVIOUS
  <1>10. z \in Works
    BY <1>8, PagingConstants DEF Works
  <1>11. Pushed(faults, faults', c, z)
    BY <1>8 DEF MapRegion, Push, Work, Pushed
  <1>12. /\ faults' \in FaultStacks /\ Len(faults'[c]) = 1
         /\ Moves(faults, faults', c, 1) /\ It(faults', c, 1) = z
    <2>1. Len(faults[c]) + 1 = 1
      BY <1>5
    <2>2. /\ faults' \in FaultStacks /\ Len(faults'[c]) = Len(faults[c]) + 1
          /\ Moves(faults, faults', c, Len(faults[c]) + 1) /\ It(faults', c, Len(faults[c]) + 1) = z
      BY <1>3, <1>10, <1>11, PushStack
    <2> QED BY <2>1, <2>2
  <1>13. On(faults', c, 1) /\ ~On(faults, c, 1)
    BY <1>5, <1>12 DEF On
  <1>14. HeldFrame(faults, c, 1) = NoFrame /\ HeldFrame(faults', c, 1) = NoFrame
    BY <1>8, <1>12, <1>13 DEF HeldFrame
  <1>15. PICK V : V = use'
    OBVIOUS
  <1>16. V \in Uses /\ (\A u \in PPage : V[u] = IF u = v THEN "mapping" ELSE use[u]) /\ use[v] = "free"
    BY <1>3, <1>15 DEF MapRegion, Uses
  <1>17. (\A u \in PPage : use[u] = "mapped" => V[u] = "mapped") /\ \A u \in PPage : V[u] = "mapped" => use[u] = "mapped"
    BY <1>16
  <1>18. MappedSound(frameMem, V)
    BY <1>3, <1>17 DEF MappedSound
  <1>19. OthersSound(frameMem, V, faults, c, 1)
    BY <1>17, OthersKept DEF SoundNow
  <1>20. TopSound(frameMem, V, faults, faults', c, 1)
    <2>1. WorkSound(frameMem, V, z)
      BY <1>8, PagingConstants DEF WorkSound
    <2> QED BY <1>12, <2>1 DEF TopSound, Climbs
  <1>21. Partition(freeFrames, Refs(frameMem), (HeldFrames(faults) \ {NoFrame}) \cup ({NoFrame} \cap PFrame))
    <2>1. NoFrame \notin HeldFrames(faults) /\ NoFrame \notin PFrame
      BY PagingConstants DEF HeldFrames
    <2> QED BY <1>4, <2>1 DEF Partition
  <1>22. 1 \in Nat \ {0} /\ Len(faults'[c]) <= 1
    BY <1>12
  <1>23. PagingSound(frameMem, freeFrames, V, faults')
    <2>1. TopMoves(faults, faults', c, 1) /\ Passes(faults, faults', c, 1, freeFrames, Refs(frameMem))
      BY <1>12, <1>14, <1>21, <1>22 DEF TopMoves, Passes
    <2> QED BY <1>3, <1>16, <1>18, <1>19, <1>20, <2>1, PagingStep DEF SoundNow
  <1>24. frameMem' = frameMem /\ freeFrames' = freeFrames
    BY DEF MapRegion
  <1> QED BY <1>15, <1>23, <1>24 DEF SoundNext

LEMMA PageFaultInSound ==
  ASSUME SoundNow, NEW c \in PagingCpu, NEW v \in PPage, PageFaultIn(c, v)
  PROVE  SoundNext
  <1>3. faults \in FaultStacks /\ use \in Uses /\ Tree(frameMem) /\ MappedSound(frameMem, use)
    BY DEF SoundNow, PagingSound
  <1>4. Partition(freeFrames, Refs(frameMem), HeldFrames(faults))
    BY DEF SoundNow, PagingSound
  <1>5. Len(faults[c]) = 0
    BY DEF PageFaultIn, Faulting
  <1>8. PICK z : z = [op |-> "mapFromLazy", v |-> v, d |-> 2, pc |-> "walk", f |-> NoFrame]
    OBVIOUS
  <1>10. z \in Works
    BY <1>8, PagingConstants DEF Works
  <1>11. Pushed(faults, faults', c, z)
    BY <1>8 DEF PageFaultIn, Push, Work, Pushed
  <1>12. /\ faults' \in FaultStacks /\ Len(faults'[c]) = 1
         /\ Moves(faults, faults', c, 1) /\ It(faults', c, 1) = z
    <2>1. Len(faults[c]) + 1 = 1
      BY <1>5
    <2>2. /\ faults' \in FaultStacks /\ Len(faults'[c]) = Len(faults[c]) + 1
          /\ Moves(faults, faults', c, Len(faults[c]) + 1) /\ It(faults', c, Len(faults[c]) + 1) = z
      BY <1>3, <1>10, <1>11, PushStack
    <2> QED BY <2>1, <2>2
  <1>13. On(faults', c, 1) /\ ~On(faults, c, 1)
    BY <1>5, <1>12 DEF On
  <1>14. HeldFrame(faults, c, 1) = NoFrame /\ HeldFrame(faults', c, 1) = NoFrame
    BY <1>8, <1>12, <1>13 DEF HeldFrame
  <1>19. OthersSound(frameMem, use, faults, c, 1)
    BY OthersKept DEF SoundNow
  <1>20. TopSound(frameMem, use, faults, faults', c, 1)
    <2>1. WorkSound(frameMem, use, z)
      BY <1>8, PagingConstants DEF WorkSound, PageFaultIn
    <2> QED BY <1>12, <2>1 DEF TopSound, Climbs
  <1>21. Partition(freeFrames, Refs(frameMem), (HeldFrames(faults) \ {NoFrame}) \cup ({NoFrame} \cap PFrame))
    <2>1. NoFrame \notin HeldFrames(faults) /\ NoFrame \notin PFrame
      BY PagingConstants DEF HeldFrames
    <2> QED BY <1>4, <2>1 DEF Partition
  <1>22. 1 \in Nat \ {0} /\ Len(faults'[c]) <= 1
    BY <1>12
  <1>23. PagingSound(frameMem, freeFrames, use, faults')
    <2>1. TopMoves(faults, faults', c, 1) /\ Passes(faults, faults', c, 1, freeFrames, Refs(frameMem))
      BY <1>12, <1>14, <1>21, <1>22 DEF TopMoves, Passes
    <2> QED BY <1>3, <1>19, <1>20, <2>1, PagingStep DEF SoundNow
  <1>24. frameMem' = frameMem /\ freeFrames' = freeFrames /\ use' = use
    BY DEF PageFaultIn
  <1> QED BY <1>23, <1>24 DEF SoundNext

(* The work on top changes, and no frame changes hands.                     *)
LEMMA CheckMappingSound ==
  ASSUME SoundNow, NEW c \in PagingCpu, CheckMapping(c)
  PROVE  SoundNext
  <1>1. PICK w, k : w = Top(c) /\ k = Len(faults[c])
    OBVIOUS
  <1>2. TopFacts(frameMem, use, faults, c, w, k)
    BY <1>1, TopKnown DEF SoundNow, CheckMapping, Faulting, Top
  <1>3. faults \in FaultStacks /\ use \in Uses /\ Tree(frameMem) /\ MappedSound(frameMem, use)
    BY DEF SoundNow, PagingSound
  <1>4. Partition(freeFrames, Refs(frameMem), HeldFrames(faults))
    BY DEF SoundNow, PagingSound
  <1>5. /\ faults' \in FaultStacks /\ Len(faults'[c]) = k - 1 /\ k \in Nat \ {0}
        /\ Moves(faults, faults', c, k) /\ ~On(faults', c, k)
    <2>1. Popped(faults, faults', c)
      BY DEF CheckMapping, Faulting, Pop, Popped
    <2> QED BY <1>1, <1>3, <2>1, PopStack
  <1>6. HeldFrame(faults, c, k) = w.f /\ HeldFrame(faults', c, k) = NoFrame
    BY <1>2, <1>5 DEF TopFacts, HeldFrame
  <1>7. w.f = NoFrame
    <2>1. w.pc = "check" /\ w \in Works /\ WorkSound(frameMem, use, w)
      BY <1>1, <1>2 DEF CheckMapping, TopFacts
    <2> QED BY <2>1 DEF WorkSound, Works
  <1>8. OthersSound(frameMem, use, faults, c, k)
    BY OthersKept DEF SoundNow
  <1>9. TopSound(frameMem, use, faults, faults', c, k)
    BY <1>5 DEF TopSound
  <1>10. Partition(freeFrames, Refs(frameMem), (HeldFrames(faults) \ {NoFrame}) \cup ({NoFrame} \cap PFrame))
    <2>1. NoFrame \notin HeldFrames(faults) /\ NoFrame \notin PFrame
      BY PagingConstants DEF HeldFrames
    <2> QED BY <1>4, <2>1 DEF Partition
  <1>11. Len(faults'[c]) <= k
    BY <1>5
  <1>12. PagingSound(frameMem, freeFrames, use, faults')
    <2>1. TopMoves(faults, faults', c, k) /\ Passes(faults, faults', c, k, freeFrames, Refs(frameMem))
      BY <1>5, <1>6, <1>7, <1>10, <1>11 DEF TopMoves, Passes
    <2> QED BY <1>3, <1>8, <1>9, <2>1, PagingStep DEF SoundNow
  <1>13. frameMem' = frameMem /\ freeFrames' = freeFrames /\ use' = use
    BY DEF CheckMapping
  <1> QED BY <1>12, <1>13 DEF SoundNext

LEMMA ReleaseLostSound ==
  ASSUME SoundNow, NEW c \in PagingCpu, ReleaseLost(c)
  PROVE  SoundNext
  <1>1. PICK w, k : w = Top(c) /\ k = Len(faults[c])
    OBVIOUS
  <1>2. TopFacts(frameMem, use, faults, c, w, k)
    BY <1>1, TopKnown DEF SoundNow, ReleaseLost, Faulting, Top
  <1>3. faults \in FaultStacks /\ use \in Uses /\ Tree(frameMem) /\ MappedSound(frameMem, use)
    BY DEF SoundNow, PagingSound
  <1>4. Partition(freeFrames, Refs(frameMem), HeldFrames(faults))
    BY DEF SoundNow, PagingSound
  <1>a. w.pc = "release" /\ w \in Works /\ WorkSound(frameMem, use, w)
    BY <1>1, <1>2 DEF ReleaseLost, TopFacts
  <1>b. PICK z : z = [w EXCEPT !.pc = "check", !.f = NoFrame]
    OBVIOUS
  <1>c. z \in Works /\ z.op = w.op /\ z.d = w.d /\ z.f = NoFrame /\ WorkSound(frameMem, use, z)
    <2>1. /\ z \in Works /\ z.op = w.op /\ z.d = w.d /\ z.v = w.v /\ z.pc = "check" /\ z.f = NoFrame
      BY <1>a, <1>b DEF Works
    <2> QED BY <1>a, <2>1, PagingConstants DEF WorkSound, Works
  <1>5. /\ faults' \in FaultStacks /\ Len(faults'[c]) = k /\ k \in Nat \ {0}
        /\ Moves(faults, faults', c, k) /\ It(faults', c, k) = z
    <2>1. Changed(faults, faults', c, z)
      BY <1>1, <1>b DEF ReleaseLost, GiveBack, Become, Faulting, Changed
    <2> QED BY <1>1, <1>3, <1>c, <2>1, BecomeStack
  <1>6. HeldFrame(faults, c, k) = w.f /\ HeldFrame(faults', c, k) = NoFrame /\ w.f \in PFrame
    <2>1. On(faults', c, k)
      BY <1>5 DEF On
    <2>2. w.f \in PFrame
      BY <1>a DEF WorkSound, Works
    <2> QED BY <1>2, <1>5, <1>c, <2>1, <2>2 DEF TopFacts, HeldFrame
  <1>8. OthersSound(frameMem, use, faults, c, k)
    BY OthersKept DEF SoundNow
  <1>9. TopSound(frameMem, use, faults, faults', c, k)
    BY <1>2, <1>5, <1>c DEF TopSound, TopFacts, Climbs
  <1>10. /\ Partition(freeFrames \cup {w.f}, Refs(frameMem), (HeldFrames(faults) \ {w.f}) \cup ({NoFrame} \cap PFrame))
         /\ NoFrame \notin HeldFrames(faults)
    <2>1. NoFrame \notin HeldFrames(faults) /\ NoFrame \notin PFrame
      BY PagingConstants DEF HeldFrames
    <2>2. w.f \in HeldFrames(faults)
      BY <1>5, <1>6 DEF HeldFrames
    <2> QED BY <1>4, <1>6, <2>1, <2>2 DEF Partition
  <1>11. Len(faults'[c]) <= k
    BY <1>5
  <1>12. PagingSound(frameMem, freeFrames \cup {w.f}, use, faults')
    <2>1. TopMoves(faults, faults', c, k) /\ Passes(faults, faults', c, k, freeFrames \cup {w.f}, Refs(frameMem))
      BY <1>5, <1>6, <1>10, <1>11 DEF TopMoves, Passes
    <2> QED BY <1>3, <1>8, <1>9, <2>1, PagingStep DEF SoundNow
  <1>13. frameMem' = frameMem /\ freeFrames' = freeFrames \cup {w.f} /\ use' = use
    BY <1>1 DEF ReleaseLost, GiveBack
  <1> QED BY <1>12, <1>13 DEF SoundNext

LEMMA MapToLazySound ==
  ASSUME SoundNow, NEW c \in PagingCpu, MapToLazy(c)
  PROVE  SoundNext
  <1>1. PICK w, k, v, V, N : w = Top(c) /\ k = Len(faults[c]) /\ v = w.v /\ V = use' /\ N = frameMem'
    OBVIOUS
  <1>2. TopFacts(frameMem, use, faults, c, w, k)
    BY <1>1, TopKnown DEF SoundNow, MapToLazy, Reaches, Faulting, Top
  <1>3. faults \in FaultStacks /\ use \in Uses /\ Tree(frameMem) /\ MappedSound(frameMem, use)
    BY DEF SoundNow, PagingSound
  <1>4. Partition(freeFrames, Refs(frameMem), HeldFrames(faults))
    BY DEF SoundNow, PagingSound
  <1>5. /\ faults' \in FaultStacks /\ Len(faults'[c]) = k - 1 /\ k \in Nat \ {0}
        /\ Moves(faults, faults', c, k) /\ ~On(faults', c, k)
    <2>1. Popped(faults, faults', c)
      BY DEF MapToLazy, Reaches, Faulting, Pop, Popped
    <2> QED BY <1>1, <1>3, <2>1, PopStack
  <1>6. HeldFrame(faults, c, k) = w.f /\ HeldFrame(faults', c, k) = NoFrame
    BY <1>2, <1>5 DEF TopFacts, HeldFrame
  <1>7. w.f = NoFrame /\ w.d = Depth /\ v \in PPage
    <2>1. w.op = "mapToLazy" /\ w \in Works /\ WorkSound(frameMem, use, w)
      BY <1>1, <1>2 DEF MapToLazy, TopFacts
    <2> QED BY <1>1, <2>1 DEF WorkSound, Works
  <1>8. V \in Uses /\ \A u \in PPage : V[u] = IF u = v THEN "mapped" ELSE use[u]
    BY <1>1, <1>3, <1>7 DEF MapToLazy, Uses
  <1>a. Depth \in 1 .. Depth
    BY PagingConstants
  <1>9. /\ Tree(N) /\ Refs(N) = Refs(frameMem) /\ EntryOf(N, v, Depth) # NoEntry
        /\ \A u \in PPage, d \in 1 .. Depth : EntryOf(frameMem, u, d) # NoEntry => EntryOf(N, u, d) = EntryOf(frameMem, u, d)
    <2>1. N = IF EntryOf(frameMem, v, Depth) # NoEntry THEN frameMem
              ELSE [frameMem EXCEPT ![At(frameMem, v, Depth)][v[Depth]] = LazyPage]
      BY <1>1, StateWalks DEF MapToLazy
    <2>2. CASE EntryOf(frameMem, v, Depth) # NoEntry
      BY <1>3, <2>1, <2>2
    <2>3. CASE EntryOf(frameMem, v, Depth) = NoEntry
      <3>1. At(frameMem, v, Depth) \in PFrame
        BY <1>1, <1>7, StateWalks DEF MapToLazy, Reaches
      <3>2. Written(frameMem, N, v, Depth, LazyPage)
        BY <1>3, <1>7, <1>a, <2>1, <2>3, <3>1 DEF Written, Entries
      <3>3. Tree(N)
        BY <3>2, MarkTree
      <3>4. \A u \in PPage, d \in 1 .. Depth : EntryOf(N, u, d) = IF u = v /\ d = Depth THEN LazyPage ELSE EntryOf(frameMem, u, d)
        BY <3>2, EntryLast
      <3>5. Refs(N) = Refs(frameMem)
        <4>1. Refs(N) = (Refs(frameMem) \ {frameMem[At(frameMem, v, Depth)][v[Depth]]}) \cup ({LazyPage} \cap PFrame)
          BY <3>2, RefsWritten, PagingConstants
        <4>2. frameMem[At(frameMem, v, Depth)][v[Depth]] = NoEntry
          BY <2>3, <3>1 DEF EntryOf, Follow
        <4>3. NoEntry \notin Refs(frameMem) /\ LazyPage \notin PFrame
          BY PagingConstants DEF Refs
        <4> QED BY <4>1, <4>2, <4>3
      <3>6. NoEntry # LazyPage
        BY PagingConstants
      <3> QED BY <1>7, <1>a, <2>3, <3>3, <3>4, <3>5, <3>6
    <2> QED BY <2>2, <2>3
  <1>10. MappedSound(N, V)
    <2>1. ASSUME NEW u \in PPage, V[u] = "mapped" PROVE EntryOf(N, u, Depth) # NoEntry
      <3>1. CASE u = v
        BY <1>9, <3>1
      <3>2. CASE u # v
        BY <1>3, <1>8, <1>9, <1>a, <2>1, <3>2 DEF MappedSound
      <3> QED BY <3>1, <3>2
    <2> QED BY <2>1 DEF MappedSound
  <1>11. OthersSound(N, V, faults, c, k)
    <2>1. \A u \in PPage, d \in 1 .. Depth : EntryOf(frameMem, u, d) \in PFrame => EntryOf(N, u, d) \in PFrame
      BY <1>9, PagingConstants
    <2>2. \A u \in PPage : use[u] = "mapped" => V[u] = "mapped"
      BY <1>8
    <2> QED BY <2>1, <2>2, OthersKept DEF SoundNow
  <1>12. TopSound(N, V, faults, faults', c, k)
    BY <1>5 DEF TopSound
  <1>13. TopMoves(faults, faults', c, k) /\ Passes(faults, faults', c, k, freeFrames, Refs(N))
    <2>1. NoFrame \notin HeldFrames(faults) /\ NoFrame \notin PFrame
      BY PagingConstants DEF HeldFrames
    <2>2. Partition(freeFrames, Refs(N), (HeldFrames(faults) \ {NoFrame}) \cup ({NoFrame} \cap PFrame))
      BY <1>4, <1>9, <2>1 DEF Partition
    <2>3. Len(faults'[c]) <= k
      BY <1>5
    <2> QED BY <1>5, <1>6, <1>7, <2>2, <2>3 DEF TopMoves, Passes
  <1>14. PagingSound(N, freeFrames, V, faults')
    BY <1>8, <1>9, <1>10, <1>11, <1>12, <1>13, PagingStep DEF SoundNow
  <1>15. freeFrames' = freeFrames
    BY DEF MapToLazy
  <1> QED BY <1>1, <1>14, <1>15 DEF SoundNext

(* A mapped page's tables are all there: a lazy mapping's walk ends at the   *)
(* last level.                                                              *)
LEMMA WalkEnds ==
  ASSUME SoundNow, NEW v \in PPage, use[v] = "mapped", NEW d \in 1 .. Depth, d # Depth
  PROVE  EntryOf(frameMem, v, d) \in PFrame
  <1>1. Depth \in 1 .. Depth /\ d + 1 \in 1 .. Depth /\ d \in 1 .. Depth - 1
    BY PagingConstants
  <1>2. EntryOf(frameMem, v, Depth) # NoEntry
    BY DEF SoundNow, PagingSound, MappedSound
  <1>3. At(frameMem, v, Depth) \in PFrame
    BY <1>2 DEF EntryOf, Follow
  <1>4. At(frameMem, v, d + 1) \in PFrame
    BY <1>1, <1>3, Prefix
  <1>5. At(frameMem, v, d + 1) = EntryOf(frameMem, v, d)
    BY <1>1, WalkIs DEF EntryOf
  <1> QED BY <1>4, <1>5

LEMMA MapFromLazySound ==
  ASSUME SoundNow, NEW c \in PagingCpu, MapFromLazy(c)
  PROVE  SoundNext
  <1>1. PICK w, k : w = Top(c) /\ k = Len(faults[c])
    OBVIOUS
  <1>2. TopFacts(frameMem, use, faults, c, w, k)
    BY <1>1, TopKnown DEF SoundNow, MapFromLazy, Reaches, Faulting, Top
  <1>3. faults \in FaultStacks /\ use \in Uses /\ Tree(frameMem) /\ MappedSound(frameMem, use)
    BY DEF SoundNow, PagingSound
  <1>4. Partition(freeFrames, Refs(frameMem), HeldFrames(faults))
    BY DEF SoundNow, PagingSound
  <1>5. w.pc = "walk" /\ w \in Works /\ WorkSound(frameMem, use, w) /\ Climbs(faults, c, k, w)
    BY <1>1, <1>2 DEF MapFromLazy, Reaches, TopFacts
  <1>6. w.op = "mapFromLazy" /\ w.f = NoFrame /\ k = 1 /\ w.v \in PPage /\ w.d \in 1 .. Depth /\ use[w.v] = "mapped"
    BY <1>5 DEF WorkSound, Works, Climbs
  <1>7. OthersSound(frameMem, use, faults, c, 1)
    BY OthersKept DEF SoundNow
  <1>8. NoFrame \notin HeldFrames(faults) /\ NoFrame \notin PFrame
    BY PagingConstants DEF HeldFrames
  <1>9. HeldFrame(faults, c, 1) = NoFrame
    BY <1>2, <1>6 DEF TopFacts
  <1>10. ASSUME NEW z \in Works, WorkSound(frameMem, use, z), Changed(faults, faults', c, z)
         PROVE  /\ TopMoves(faults, faults', c, 1) /\ TopSound(frameMem, use, faults, faults', c, 1)
                /\ HeldFrame(faults', c, 1) = z.f
    <2>a. /\ faults' \in FaultStacks /\ Len(faults'[c]) = Len(faults[c])
          /\ Moves(faults, faults', c, Len(faults[c])) /\ It(faults', c, Len(faults[c])) = z
      BY <1>3, <1>10, BecomeStack
    <2>1. /\ faults' \in FaultStacks /\ Len(faults'[c]) = 1
          /\ Moves(faults, faults', c, 1) /\ It(faults', c, 1) = z
      BY <1>1, <1>6, <2>a
    <2>2. On(faults', c, 1) /\ 1 \in Nat \ {0} /\ Len(faults'[c]) <= 1
      BY <2>1 DEF On
    <2> QED BY <1>10, <2>1, <2>2 DEF TopMoves, TopSound, HeldFrame, Climbs
  <1>11. CASE w.d < Depth /\ Present(Entry(w.v, w.d))
    <2>1. PICK z : z = [w EXCEPT !.d = @ + 1]
      OBVIOUS
    <2>2. w.d + 1 \in 1 .. Depth
      BY <1>6, <1>11, PagingConstants
    <2>3. z \in Works /\ z.op = "mapFromLazy" /\ z.v = w.v /\ z.pc = "walk" /\ z.f = NoFrame
      BY <1>5, <1>6, <2>1, <2>2 DEF Works
    <2>4. WorkSound(frameMem, use, z)
      BY <1>6, <1>8, <2>3 DEF WorkSound
    <2>5. Changed(faults, faults', c, z) /\ freeFrames' = freeFrames
      BY <1>1, <1>11, <2>1 DEF MapFromLazy, Reaches, Faulting, Become, Changed
    <2>6. TopMoves(faults, faults', c, 1) /\ TopSound(frameMem, use, faults, faults', c, 1) /\ HeldFrame(faults', c, 1) = NoFrame
      BY <1>10, <2>3, <2>4, <2>5
    <2>7. Passes(faults, faults', c, 1, freeFrames, Refs(frameMem))
      <3>1. Partition(freeFrames, Refs(frameMem), (HeldFrames(faults) \ {NoFrame}) \cup ({NoFrame} \cap PFrame))
        BY <1>4, <1>8 DEF Partition
      <3> QED BY <1>9, <2>6, <3>1 DEF Passes
    <2>8. PagingSound(frameMem, freeFrames, use, faults')
      BY <1>3, <1>7, <2>6, <2>7, PagingStep DEF SoundNow
    <2>9. frameMem' = frameMem /\ use' = use
      BY DEF MapFromLazy
    <2> QED BY <2>5, <2>8, <2>9 DEF SoundNext
  <1>12. CASE ~(w.d < Depth /\ Present(Entry(w.v, w.d)))
    <2>1. w.d = Depth
      <3>1. ASSUME w.d # Depth PROVE FALSE
        <4>1. EntryOf(frameMem, w.v, w.d) \in PFrame
          BY <1>6, <3>1, WalkEnds
        <4>2. w.d < Depth
          BY <1>6, <3>1, PagingConstants
        <4> QED BY <1>12, <4>1, <4>2, StateWalks DEF Present
      <3> QED BY <3>1
    <2>a. freeFrames # {}
      BY <1>1, <1>12 DEF MapFromLazy
    <2>2. PICK a : a = Allocated /\ a \in freeFrames /\ a \in PFrame
      BY <1>4, <2>a, AllocatedFree DEF Partition
    <2>3. PICK z : z = [w EXCEPT !.pc = "cas", !.f = a]
      OBVIOUS
    <2>4. z \in Works /\ z.op = "mapFromLazy" /\ z.v = w.v /\ z.pc = "cas" /\ z.f = a /\ z.d = w.d
      BY <1>5, <1>6, <2>2, <2>3 DEF Works
    <2>5. WorkSound(frameMem, use, z)
      BY <1>6, <2>1, <2>2, <2>4 DEF WorkSound
    <2>6. Changed(faults, faults', c, z) /\ freeFrames' = freeFrames \ {a}
      <3>1. Become(c, [w EXCEPT !.pc = "cas", !.f = Allocated]) /\ freeFrames' = freeFrames \ {Allocated}
        BY <1>1, <1>12 DEF MapFromLazy
      <3>2. faults[c] # <<>>
        BY DEF MapFromLazy, Reaches, Faulting
      <3> QED BY <2>2, <2>3, <3>1, <3>2 DEF Become, Changed
    <2>7. TopMoves(faults, faults', c, 1) /\ TopSound(frameMem, use, faults, faults', c, 1) /\ HeldFrame(faults', c, 1) = a
      BY <1>10, <2>4, <2>5, <2>6
    <2>8. Passes(faults, faults', c, 1, freeFrames \ {a}, Refs(frameMem))
      <3>1. a \notin HeldFrames(faults) /\ Partition(freeFrames \ {a}, Refs(frameMem), (HeldFrames(faults) \ {NoFrame}) \cup ({a} \cap PFrame))
        BY <1>4, <1>8, <2>2 DEF Partition
      <3> QED BY <1>9, <2>7, <3>1 DEF Passes
    <2>9. PagingSound(frameMem, freeFrames \ {a}, use, faults')
      BY <1>3, <1>7, <2>7, <2>8, PagingStep DEF SoundNow
    <2>10. frameMem' = frameMem /\ use' = use
      BY DEF MapFromLazy
    <2> QED BY <2>6, <2>9, <2>10 DEF SoundNext
  <1> QED BY <1>11, <1>12

LEMMA InstallSound ==
  ASSUME SoundNow, NEW c \in PagingCpu, Install(c)
  PROVE  SoundNext
  <1>1. PICK w, k, N, v, d, f :
          w = Top(c) /\ k = Len(faults[c]) /\ N = frameMem' /\ v = w.v /\ d = w.d /\ f = w.f
    OBVIOUS
  <1>2. TopFacts(frameMem, use, faults, c, w, k)
    BY <1>1, TopKnown DEF SoundNow, Install, Reaches, Faulting, Top
  <1>3. faults \in FaultStacks /\ use \in Uses /\ Tree(frameMem) /\ MappedSound(frameMem, use)
    BY DEF SoundNow, PagingSound
  <1>4. Partition(freeFrames, Refs(frameMem), HeldFrames(faults))
    BY DEF SoundNow, PagingSound
  <1>5. w.pc = "cas" /\ w.op # "mapToLazy" /\ w \in Works /\ WorkSound(frameMem, use, w)
    BY <1>1, <1>2 DEF Install, Reaches, TopFacts
  <1>6. f \in PFrame /\ v \in PPage /\ d \in 1 .. Depth
    BY <1>1, <1>5 DEF WorkSound, Works
  <1>7. w.op = "mapTable" => d \in 1 .. Depth - 1
    BY <1>1, <1>5, <1>6, PagingConstants DEF WorkSound
  <1>8. w.op # "mapTable" => use[v] = "mapped" /\ d = Depth
    BY <1>1, <1>5 DEF WorkSound, Works
  <1>9. At(frameMem, v, d) \in PFrame /\ v[d] \in Index
    BY <1>1, <1>6, StateWalks, PagingConstants DEF Install, Reaches
  <1>10. PICK o : o = frameMem[At(frameMem, v, d)][v[d]]
    OBVIOUS
  <1>11. o = EntryOf(frameMem, v, d) /\ o \in Entries
    BY <1>3, <1>9, <1>10 DEF EntryOf, Follow, Tree
  <1>12. IF o = Expected(w)
         THEN /\ N = [frameMem EXCEPT ![At(frameMem, v, d)][v[d]] = f]
              /\ Become(c, [w EXCEPT !.pc = "check", !.f = NoFrame])
         ELSE Become(c, [w EXCEPT !.pc = "release"]) /\ N = frameMem
    BY <1>1, <1>10, StateWalks DEF Install, MapInternal
  <1>13. faults[c] # <<>>
    BY DEF Install, Reaches, Faulting
  <1>14. f \in HeldFrames(faults) /\ HeldFrame(faults, c, k) = f
    BY <1>1, <1>2, <1>6 DEF TopFacts, HeldFrames
  <1>15. f # Root /\ f \notin Refs(frameMem) /\ ~Referenced(frameMem, f)
    BY <1>4, <1>6, <1>14 DEF Partition, Refs
  <1>16. NoFrame \notin HeldFrames(faults) /\ NoFrame \notin PFrame
    BY PagingConstants DEF HeldFrames
  <1>17. ASSUME NEW z \in Works, WorkSound(N, use, z), Changed(faults, faults', c, z), z.op = w.op, z.d = w.d
         PROVE  /\ TopMoves(faults, faults', c, k) /\ TopSound(N, use, faults, faults', c, k)
                /\ HeldFrame(faults', c, k) = z.f
    <2>1. /\ faults' \in FaultStacks /\ Len(faults'[c]) = Len(faults[c]) /\ Len(faults[c]) \in Nat \ {0}
          /\ Moves(faults, faults', c, Len(faults[c])) /\ It(faults', c, Len(faults[c])) = z
      BY <1>3, <1>17, BecomeStack
    <2>2. /\ faults' \in FaultStacks /\ Len(faults'[c]) = k /\ k \in Nat \ {0}
          /\ Moves(faults, faults', c, k) /\ It(faults', c, k) = z
      BY <1>1, <2>1
    <2>3. On(faults', c, k) /\ Len(faults'[c]) <= k
      BY <2>2 DEF On
    <2>4. Climbs(faults, c, k, z)
      BY <1>2, <1>17 DEF TopFacts, Climbs
    <2> QED BY <1>17, <2>2, <2>3, <2>4 DEF TopMoves, TopSound, HeldFrame
  <1>18. CASE o = Expected(w)
    <2>1. o \notin PFrame
      BY <1>18, PagingConstants DEF Expected
    <2>2. Written(frameMem, N, v, d, f)
      BY <1>3, <1>6, <1>9, <1>12, <1>18 DEF Written, Entries
    <2>3. Tree(N)
      BY <1>6, <1>10, <1>15, <2>1, <2>2, InstallTree
    <2>4. /\ EntryOf(N, v, d) = f
          /\ \A u \in PPage, e \in 1 .. Depth :
               /\ EntryOf(frameMem, u, e) # NoEntry => EntryOf(N, u, e) # NoEntry
               /\ EntryOf(frameMem, u, e) \in PFrame => EntryOf(N, u, e) \in PFrame
      BY <1>6, <1>10, <2>1, <2>2, EntryInstalled
    <2>5. Refs(N) = Refs(frameMem) \cup {f}
      <3>1. Refs(N) = (Refs(frameMem) \ {o}) \cup ({f} \cap PFrame)
        BY <1>10, <1>15, <2>2, RefsWritten
      <3>2. o \notin Refs(frameMem)
        BY <2>1 DEF Refs
      <3> QED BY <1>6, <3>1, <3>2
    <2>6. MappedSound(N, use)
      <3>1. Depth \in 1 .. Depth
        BY PagingConstants
      <3> QED BY <1>3, <2>4, <3>1 DEF MappedSound
    <2>7. OthersSound(N, use, faults, c, k)
      BY <2>4, OthersKept DEF SoundNow
    <2>8. PICK z : z = [w EXCEPT !.pc = "check", !.f = NoFrame]
      OBVIOUS
    <2>9. z \in Works /\ z.op = w.op /\ z.d = w.d /\ z.v = w.v /\ z.pc = "check" /\ z.f = NoFrame
      BY <1>5, <2>8 DEF Works
    <2>10. WorkSound(N, use, z)
      BY <1>1, <1>5, <1>6, <1>7, <1>8, <1>16, <2>4, <2>9 DEF WorkSound
    <2>11. Changed(faults, faults', c, z)
      BY <1>12, <1>13, <1>18, <2>8 DEF Become, Changed
    <2>12. TopMoves(faults, faults', c, k) /\ TopSound(N, use, faults, faults', c, k) /\ HeldFrame(faults', c, k) = NoFrame
      BY <1>17, <2>9, <2>10, <2>11
    <2>13. Passes(faults, faults', c, k, freeFrames, Refs(N))
      <3>1. Partition(freeFrames, Refs(N), (HeldFrames(faults) \ {f}) \cup ({NoFrame} \cap PFrame))
        BY <1>4, <1>6, <1>14, <1>16, <2>5 DEF Partition
      <3> QED BY <1>14, <1>16, <2>12, <3>1 DEF Passes
    <2>14. PagingSound(N, freeFrames, use, faults')
      BY <1>3, <2>3, <2>6, <2>7, <2>12, <2>13, PagingStep DEF SoundNow
    <2>15. freeFrames' = freeFrames /\ use' = use
      BY DEF Install
    <2> QED BY <1>1, <2>14, <2>15 DEF SoundNext
  <1>19. CASE o # Expected(w)
    <2>1. o \in PFrame
      <3>1. CASE w.op = "mapTable"
        <4>1. o # NoEntry
          BY <1>19, <3>1 DEF Expected
        <4>2. o # LazyPage
          BY <1>3, <1>6, <1>7, <1>9, <1>10, <3>1 DEF Tree, LazyLast
        <4> QED BY <1>11, <4>1, <4>2 DEF Entries
      <3>2. CASE w.op # "mapTable"
        <4>1. o # LazyPage
          BY <1>19, <3>2 DEF Expected
        <4>2. o # NoEntry
          BY <1>3, <1>6, <1>8, <1>11, <3>2 DEF MappedSound
        <4> QED BY <1>11, <4>1, <4>2 DEF Entries
      <3> QED BY <3>1, <3>2
    <2>2. N = frameMem
      BY <1>12, <1>19
    <2>3. PICK z : z = [w EXCEPT !.pc = "release"]
      OBVIOUS
    <2>4. z \in Works /\ z.op = w.op /\ z.d = w.d /\ z.v = w.v /\ z.pc = "release" /\ z.f = f
      BY <1>1, <1>5, <2>3 DEF Works
    <2>5. WorkSound(N, use, z)
      BY <1>1, <1>5, <1>6, <1>7, <1>8, <1>11, <2>1, <2>2, <2>4 DEF WorkSound
    <2>6. Changed(faults, faults', c, z)
      BY <1>12, <1>13, <1>19, <2>3 DEF Become, Changed
    <2>7. TopMoves(faults, faults', c, k) /\ TopSound(N, use, faults, faults', c, k) /\ HeldFrame(faults', c, k) = f
      BY <1>17, <2>4, <2>5, <2>6
    <2>8. OthersSound(N, use, faults, c, k)
      BY <2>2, OthersKept DEF SoundNow
    <2>9. Passes(faults, faults', c, k, freeFrames, Refs(N))
      <3>1. Partition(freeFrames, Refs(N), (HeldFrames(faults) \ {f}) \cup ({f} \cap PFrame))
        BY <1>4, <1>6, <1>14, <2>2 DEF Partition
      <3> QED BY <1>14, <2>7, <3>1 DEF Passes
    <2>10. PagingSound(N, freeFrames, use, faults')
      BY <1>3, <2>2, <2>7, <2>8, <2>9, PagingStep DEF SoundNow
    <2>11. freeFrames' = freeFrames /\ use' = use
      BY DEF Install
    <2> QED BY <1>1, <2>10, <2>11 DEF SoundNext
  <1> QED BY <1>18, <1>19

LEMMA UnmapSound ==
  ASSUME SoundNow, NEW c \in PagingCpu, NEW v \in PPage, Unmap(c, v)
  PROVE  SoundNext
  <1>1. PICK N, V, S, o : N = frameMem' /\ V = use' /\ S = freeFrames' /\ o = EntryOf(frameMem, v, Depth)
    OBVIOUS
  <1>2. Depth \in 1 .. Depth /\ use[v] = "mapped"
    BY PagingConstants DEF Unmap
  <1>3. faults \in FaultStacks /\ use \in Uses /\ Tree(frameMem) /\ MappedSound(frameMem, use)
    BY DEF SoundNow, PagingSound
  <1>4. /\ Partition(freeFrames, Refs(frameMem), HeldFrames(faults)) /\ Lone(faults) /\ Climbing(faults)
        /\ WorksSound(frameMem, use, faults)
    BY DEF SoundNow, PagingSound
  <1>5. At(frameMem, v, Depth) \in PFrame /\ o = frameMem[At(frameMem, v, Depth)][v[Depth]] /\ v[Depth] \in Index
    <2>1. EntryOf(frameMem, v, Depth) # NoEntry
      BY <1>2, <1>3 DEF MappedSound
    <2> QED BY <1>1, <1>2, <2>1, PagingConstants DEF EntryOf, Follow
  <1>6. N = [frameMem EXCEPT ![At(frameMem, v, Depth)][v[Depth]] = NoEntry] /\ S = freeFrames \cup ({o} \cap PFrame)
    BY <1>1, StateWalks DEF Unmap
  <1>7. Written(frameMem, N, v, Depth, NoEntry)
    BY <1>2, <1>3, <1>5, <1>6 DEF Written, Entries
  <1>8. Tree(N)
    BY <1>7, MarkTree
  <1>9. \A u \in PPage, d \in 1 .. Depth : EntryOf(N, u, d) = IF u = v /\ d = Depth THEN NoEntry ELSE EntryOf(frameMem, u, d)
    BY <1>7, EntryLast
  <1>10. Refs(N) = Refs(frameMem) \ {o}
    <2>1. Refs(N) = (Refs(frameMem) \ {o}) \cup ({NoEntry} \cap PFrame)
      BY <1>5, <1>7, RefsWritten, PagingConstants
    <2> QED BY <2>1, PagingConstants
  <1>11. Partition(S, Refs(N), HeldFrames(faults))
    <2>1. o \in PFrame => o \in Refs(frameMem)
      BY <1>5 DEF Refs, Referenced
    <2> QED BY <1>4, <1>6, <1>10, <2>1 DEF Partition
  <1>12. V \in Uses /\ \A u \in PPage : V[u] = IF u = v THEN "free" ELSE use[u]
    BY <1>1, <1>3 DEF Unmap, Uses
  <1>13. MappedSound(N, V)
    BY <1>2, <1>3, <1>9, <1>12 DEF MappedSound
  <1>14. WorksSound(N, V, faults)
    <2>1. ASSUME NEW x \in PagingCpu, NEW n \in Nat, On(faults, x, n) PROVE WorkSound(N, V, It(faults, x, n))
      <3>1. PICK w : w = It(faults, x, n)
        OBVIOUS
      <3>2. w \in Works
        BY <1>3, <2>1, <3>1, TopStack DEF On
      <3>3. w.v # v
        <4>1. PICK s : s = faults[x]
          OBVIOUS
        <4>2. s \in Seq(Works) /\ Len(s) \in Nat /\ DOMAIN s = 1 .. Len(s) /\ n \in 1 .. Len(s)
          BY <1>3, <2>1, <4>1 DEF FaultStacks, On
        <4>3. Len(s) + 1 - n \in 1 .. Len(s)
          BY <4>2
        <4>4. Len(s) + 1 - n \in DOMAIN faults[x] /\ w = faults[x][Len(s) + 1 - n]
          BY <3>1, <4>1, <4>2, <4>3 DEF It
        <4> QED BY <4>4 DEF Unmap
      <3>4. w.v \in PPage /\ w.d \in 1 .. Depth
        BY <3>2 DEF Works
      <3>5. EntryOf(N, w.v, w.d) = EntryOf(frameMem, w.v, w.d) /\ V[w.v] = use[w.v]
        BY <1>9, <1>12, <3>3, <3>4
      <3>6. WorkSound(frameMem, use, w)
        BY <1>4, <2>1, <3>1 DEF WorksSound
      <3>7. WorkSound(N, V, w)
        BY <3>5, <3>6 DEF WorkSound
      <3> QED BY <3>1, <3>7
    <2> QED BY <2>1 DEF WorksSound
  <1>15. faults' = faults
    BY DEF Unmap
  <1>16. PagingSound(N, S, V, faults)
    BY <1>3, <1>4, <1>8, <1>11, <1>12, <1>13, <1>14 DEF PagingSound
  <1> QED BY <1>1, <1>15, <1>16 DEF SoundNext

(* The empty page table, and no fault.                                      *)
LEMMA EmptySound ==
  ASSUME NEW N, N = [f \in PFrame |-> EmptyTable], NEW V, V = [v \in PPage |-> "free"],
         NEW F \in FaultStacks, \A c \in PagingCpu : F[c] = <<>>
  PROVE  PagingSound(N, PFrame \ {Root}, V, F)
  <1>1. \A t \in PFrame, i \in Index : N[t][i] = NoEntry
    BY DEF EmptyTable
  <1>2. Tree(N)
    <2>1. N \in [PFrame -> [Index -> Entries]]
      BY DEF EmptyTable, Entries
    <2>2. OneParent(N) /\ OnTheWay(N) /\ \A t \in PFrame, i \in Index : N[t][i] # Root
      BY <1>1, PagingConstants DEF OneParent, OnTheWay
    <2>3. LazyLast(N)
      <3>1. ASSUME NEW v \in PPage, NEW d \in 1 .. Depth - 1, At(N, v, d) \in PFrame
            PROVE  N[At(N, v, d)][v[d]] # LazyPage
        <4>1. v[d] \in Index
          BY PagingConstants
        <4>2. N[At(N, v, d)][v[d]] = NoEntry
          BY <1>1, <3>1, <4>1
        <4> QED BY <4>2, PagingConstants
      <3> QED BY <3>1 DEF LazyLast
    <2> QED BY <2>1, <2>2, <2>3 DEF Tree
  <1>3. \A c \in PagingCpu, k \in Nat : ~On(F, c, k)
    BY DEF On
  <1>4. HeldFrames(F) = {} /\ Lone(F)
    BY <1>3, PagingConstants DEF HeldFrames, Lone, HeldFrame
  <1>5. Refs(N) = {}
    BY <1>1, PagingConstants DEF Refs, Referenced
  <1>6. WorksSound(N, V, F) /\ Climbing(F)
    BY <1>3 DEF WorksSound, Climbing
  <1>7. V \in Uses /\ MappedSound(N, V)
    BY DEF Uses, MappedSound
  <1>8. Partition(PFrame \ {Root}, Refs(N), HeldFrames(F))
    BY <1>4, <1>5 DEF Partition
  <1> QED BY <1>2, <1>4, <1>6, <1>7, <1>8 DEF PagingSound

(* The frames that clear releases are the ones that entries refer to.       *)
LEMMA ClearedAll ==
  ASSUME Tree(frameMem)
  PROVE  Cleared = Refs(frameMem)
  <1>1. Cleared = {f \in PFrame : \E v \in PPage, d \in 1 .. Depth : EntryOf(frameMem, v, d) = f}
    BY StateWalks DEF Cleared
  <1>2. ASSUME NEW f \in PFrame, NEW v \in PPage, NEW d \in 1 .. Depth, EntryOf(frameMem, v, d) = f
        PROVE  Referenced(frameMem, f)
    <2>1. At(frameMem, v, d) \in PFrame /\ v[d] \in Index /\ frameMem[At(frameMem, v, d)][v[d]] = f
      BY <1>2, PagingConstants DEF EntryOf, Follow
    <2> QED BY <2>1 DEF Referenced
  <1>3. ASSUME NEW f \in PFrame, Referenced(frameMem, f)
        PROVE  \E v \in PPage, d \in 1 .. Depth : EntryOf(frameMem, v, d) = f
    <2>1. PICK t \in PFrame, i \in Index : frameMem[t][i] = f
      BY <1>3 DEF Referenced
    <2>2. frameMem[t][i] # NoEntry
      BY <2>1, PagingConstants
    <2>3. PICK v \in PPage, d \in 1 .. Depth : At(frameMem, v, d) = t /\ v[d] = i
      BY <2>2 DEF Tree, OnTheWay
    <2>4. EntryOf(frameMem, v, d) = f
      BY <2>1, <2>3 DEF EntryOf, Follow
    <2> QED BY <2>4
  <1> QED BY <1>1, <1>2, <1>3 DEF Refs

LEMMA CleanSound ==
  ASSUME SoundNow, Clean
  PROVE  SoundNext
  <1>1. faults \in FaultStacks /\ Tree(frameMem) /\ Partition(freeFrames, Refs(frameMem), HeldFrames(faults))
    BY DEF SoundNow, PagingSound
  <1>2. \A c \in PagingCpu : faults[c] = <<>>
    BY DEF Clean, Faulting
  <1>3. HeldFrames(faults) = {}
    BY <1>2, PagingConstants DEF HeldFrames, HeldFrame, On
  <1>4. freeFrames' = PFrame \ {Root}
    BY <1>1, <1>3, ClearedAll DEF Clean, Partition
  <1>5. PagingSound(frameMem', PFrame \ {Root}, use', faults)
    BY <1>1, <1>2, EmptySound DEF Clean
  <1>6. faults' = faults
    BY DEF Clean
  <1> QED BY <1>4, <1>5, <1>6 DEF SoundNext

(* No CPU's faults nest deeper than the tables.                             *)
LEMMA NestingBound ==
  ASSUME SoundNow, NEW c \in PagingCpu
  PROVE  Len(faults[c]) \in Nat /\ Len(faults[c]) <= Depth
  <1>0. faults \in FaultStacks
    BY DEF SoundNow, PagingSound
  <1>1. Len(faults[c]) \in Nat
    BY <1>0, TopStack
  <1>2. CASE Len(faults[c]) = 0
    BY <1>2, PagingConstants
  <1>3. CASE Len(faults[c]) # 0
    <2>1. PICK k : k = Len(faults[c])
      OBVIOUS
    <2>2. On(faults, c, k) /\ On(faults, c, 1) /\ k \in 1 .. Len(faults[c]) /\ 1 \in 1 .. Len(faults[c])
      BY <1>1, <1>3, <2>1 DEF On
    <2>3. It(faults, c, k).d \in 1 .. Depth /\ It(faults, c, 1).d \in 1 .. Depth
      BY <1>0, <2>2, TopStack DEF Works
    <2>4. Climbs(faults, c, k, It(faults, c, k))
      BY <1>1, <2>1, <2>2 DEF SoundNow, PagingSound, Climbing
    <2>5. k <= Depth
      <3>1. PICK d, e : d = It(faults, c, k).d /\ e = It(faults, c, 1).d
        OBVIOUS
      <3>2. d \in 1 .. Depth /\ e \in 1 .. Depth /\ (k = 1 \/ d + k = e + 1) /\ k \in Nat /\ Depth \in Nat
        BY <1>1, <2>1, <2>3, <2>4, <3>1, PagingConstants DEF Climbs
      <3> QED BY <3>2
    <2> QED BY <1>1, <2>1, <2>5
  <1> QED BY <1>1, <1>2, <1>3

LEMMA ReferringOnce ==
  ASSUME SoundNow, NEW f \in PFrame \ {Root}
  PROVE  Cardinality(Referring(Cleared \cup {Root}, f)) = IF f \in Refs(frameMem) THEN 1 ELSE 0
  <1>1. Tree(frameMem)
    BY DEF SoundNow, PagingSound
  <1>2. PICK X : X = Cleared \cup {Root}
    OBVIOUS
  <1>3. Cleared = Refs(frameMem) /\ X \subseteq PFrame
    BY <1>1, <1>2, ClearedAll, PagingConstants DEF Cleared
  <1>4. CASE f \notin Refs(frameMem)
    <2>1. Referring(X, f) = {}
      BY <1>3, <1>4 DEF Referring, Refs, Referenced
    <2> QED BY <1>2, <1>4, <2>1, FS_EmptySet
  <1>5. CASE f \in Refs(frameMem)
    <2>1. PICK t \in PFrame, i \in Index : frameMem[t][i] = f
      BY <1>5 DEF Refs, Referenced
    <2>2. t \in X
      <3>1. frameMem[t][i] # NoEntry
        BY <2>1, PagingConstants
      <3>2. PICK v \in PPage, d \in 1 .. Depth : At(frameMem, v, d) = t
        BY <1>1, <3>1 DEF Tree, OnTheWay
      <3>3. CASE d = 1
        BY <1>2, <3>2, <3>3, WalkIs
      <3>4. CASE d # 1
        <4>1. Hangs(frameMem, v, d)
          BY <3>2, <3>4, Above
        <4>2. Referenced(frameMem, t)
          BY <3>2, <4>1 DEF Hangs, Referenced
        <4> QED BY <1>2, <1>3, <4>2 DEF Refs
      <3> QED BY <3>3, <3>4
    <2>3. ASSUME NEW e \in X \X Index, frameMem[e[1]][e[2]] = f PROVE e = <<t, i>>
      <3>1. e[1] \in PFrame /\ e[2] \in Index /\ e = <<e[1], e[2]>>
        BY <1>3
      <3>2. OneParent(frameMem)
        BY <1>1 DEF Tree
      <3>3. frameMem[e[1]][e[2]] = frameMem[t][i] /\ frameMem[e[1]][e[2]] \in PFrame
        BY <2>1, <2>3
      <3>4. PICK u, j : u = e[1] /\ j = e[2]
        OBVIOUS
      <3>5. frameMem[u][j] = frameMem[t][i] /\ frameMem[u][j] \in PFrame /\ u \in PFrame /\ j \in Index
        BY <3>1, <3>3, <3>4
      <3>6. u = t /\ j = i
        BY <3>2, <3>5, Zenon DEF OneParent
      <3> QED BY <3>1, <3>4, <3>6
    <2>4. <<t, i>> \in Referring(X, f)
      BY <2>1, <2>2 DEF Referring
    <2>5. Referring(X, f) = {<<t, i>>}
      BY <2>3, <2>4 DEF Referring
    <2> QED BY <1>2, <1>5, <2>5, FS_Singleton
  <1> QED BY <1>4, <1>5

LEMMA HeldOnce ==
  ASSUME SoundNow, NEW f \in PFrame \ {Root}
  PROVE  Cardinality(HeldBy(f)) = IF f \in HeldFrames(faults) THEN 1 ELSE 0
  <1>0. faults \in FaultStacks /\ Lone(faults)
    BY DEF SoundNow, PagingSound
  <1>1. ASSUME NEW c \in PagingCpu, NEW n \in DOMAIN faults[c]
        PROVE  /\ Len(faults[c]) \in Nat /\ n \in 1 .. Len(faults[c]) /\ Len(faults[c]) + 1 - n \in Nat
               /\ HeldFrame(faults, c, Len(faults[c]) + 1 - n) = faults[c][n].f
    <2>1. PICK s : s = faults[c]
      OBVIOUS
    <2>2. s \in Seq(Works) /\ Len(s) \in Nat /\ n \in 1 .. Len(s)
      BY <1>0, <1>1, <2>1 DEF FaultStacks
    <2>3. Len(s) + 1 - n \in 1 .. Len(s) /\ Len(s) + 1 - (Len(s) + 1 - n) = n /\ Len(s) + 1 - n \in Nat
      BY <2>2
    <2> QED BY <2>1, <2>2, <2>3 DEF HeldFrame, On, It
  <1>2. CASE f \notin HeldFrames(faults)
    <2>1. ASSUME NEW h \in HeldBy(f) PROVE FALSE
      <3>1. h[1] \in PagingCpu /\ h[2] \in DOMAIN faults[h[1]] /\ faults[h[1]][h[2]].f = f
        BY <2>1 DEF HeldBy
      <3>2. PICK c, n : c = h[1] /\ n = h[2]
        OBVIOUS
      <3>3. Len(faults[c]) + 1 - n \in Nat /\ HeldFrame(faults, c, Len(faults[c]) + 1 - n) = f /\ c \in PagingCpu
        BY <1>1, <3>1, <3>2
      <3> QED BY <1>2, <3>3 DEF HeldFrames
    <2>2. HeldBy(f) = {}
      BY <2>1
    <2> QED BY <1>2, <2>2, FS_EmptySet
  <1>3. CASE f \in HeldFrames(faults)
    <2>1. PICK c \in PagingCpu, k \in Nat : HeldFrame(faults, c, k) = f
      BY <1>3 DEF HeldFrames
    <2>2. On(faults, c, k) /\ It(faults, c, k).f = f
      BY <2>1, PagingConstants DEF HeldFrame
    <2>3. PICK L, n : L = Len(faults[c]) /\ n = L + 1 - k
      OBVIOUS
    <2>4. L \in Nat /\ L <= Depth /\ n \in 1 .. L /\ n \in 1 .. (Depth + 1) /\ faults[c][n].f = f /\ k = L + 1 - n
      BY <2>2, <2>3, NestingBound, PagingConstants DEF On, It
    <2>5. n \in DOMAIN faults[c]
      <3>1. DOMAIN faults[c] = 1 .. Len(faults[c])
        BY <1>0 DEF FaultStacks
      <3> QED BY <2>3, <2>4, <3>1
    <2>6. <<c, n>> \in HeldBy(f)
      BY <2>4, <2>5 DEF HeldBy
    <2>7. ASSUME NEW h \in HeldBy(f) PROVE h = <<c, n>>
      <3>1. /\ h[1] \in PagingCpu /\ h[2] \in DOMAIN faults[h[1]] /\ faults[h[1]][h[2]].f = f
            /\ h = <<h[1], h[2]>>
        BY <2>7 DEF HeldBy
      <3>2. PICK x, m, l : x = h[1] /\ m = h[2] /\ l = Len(faults[x]) + 1 - m
        OBVIOUS
      <3>3. x \in PagingCpu /\ l \in Nat /\ HeldFrame(faults, x, l) = f /\ Len(faults[x]) \in Nat /\ m \in 1 .. Len(faults[x])
        BY <1>1, <3>1, <3>2
      <3>4. HeldFrame(faults, x, l) \in PFrame /\ HeldFrame(faults, x, l) = HeldFrame(faults, c, k)
        BY <2>1, <3>3
      <3>5. x = c /\ l = k
        BY <1>0, <2>1, <3>3, <3>4, Zenon DEF Lone
      <3>6. m = n
        <4>1. l = L + 1 - m /\ m \in 1 .. L /\ L \in Nat /\ l = k
          BY <2>3, <2>4, <3>2, <3>3, <3>5
        <4>2. L + 1 - m = L + 1 - n /\ n \in 1 .. L
          BY <2>4, <4>1
        <4> QED BY <4>1, <4>2
      <3> QED BY <3>1, <3>2, <3>5, <3>6
    <2>8. HeldBy(f) = {<<c, n>>}
      BY <2>6, <2>7
    <2> QED BY <1>3, <2>8, FS_Singleton
  <1> QED BY <1>2, <1>3

LEMMA SoundOwned ==
  ASSUME SoundNow
  PROVE  PageTableSound
  <1>1. FramesOwned
    <2>1. ASSUME NEW f \in PFrame \ {Root}
          PROVE  Cardinality(Referring(Cleared \cup {Root}, f)) + Cardinality(HeldBy(f)) + (IF f \in freeFrames THEN 1 ELSE 0) = 1
      <3>1. Partition(freeFrames, Refs(frameMem), HeldFrames(faults))
        BY DEF SoundNow, PagingSound
      <3>2. /\ f \in freeFrames \/ f \in Refs(frameMem) \/ f \in HeldFrames(faults)
            /\ ~(f \in freeFrames /\ f \in Refs(frameMem)) /\ ~(f \in freeFrames /\ f \in HeldFrames(faults))
            /\ ~(f \in Refs(frameMem) /\ f \in HeldFrames(faults))
        BY <3>1 DEF Partition
      <3>3. /\ Cardinality(Referring(Cleared \cup {Root}, f)) = IF f \in Refs(frameMem) THEN 1 ELSE 0
            /\ Cardinality(HeldBy(f)) = IF f \in HeldFrames(faults) THEN 1 ELSE 0
        BY ReferringOnce, HeldOnce
      <3> QED BY <3>2, <3>3
    <2> QED BY <2>1 DEF FramesOwned
  <1>2. \A v \in PPage : use[v] = "mapped" => Entry(v, Depth) # NoEntry
    BY StateWalks DEF SoundNow, PagingSound, MappedSound
  <1>3. ASSUME NEW c \in PagingCpu, Faulting(c), Top(c).pc = "check"
        PROVE  Present(Entry(Top(c).v, Top(c).d))
    <2>1. WorkSound(frameMem, use, Top(c))
      BY <1>3, TopKnown DEF SoundNow, Faulting, Top, TopFacts
    <2> QED BY <1>3, <2>1, StateWalks DEF WorkSound, Present
  <1> QED BY <1>1, <1>2, <1>3 DEF PageTableSound, MappingKept

(* CPUs that fault at the same time, in tables and in pages, and unmap and  *)
(* clean in between, neither leak a frame nor use one twice, and lose no    *)
(* mapping: every frame is free, or the root, or referred to once, or held  *)
(* by one CPU; a mapped page keeps its entry; and checkMapping's assertion  *)
(* holds (Paging.h mapTable, mapToLazy, mapFromLazy, unmap, clear), for any *)
(* number of CPUs, frames, pages, indices and levels.                       *)
THEOREM PageTableStaysSound == PagingSpec => []PageTableSound
  <1>1. PagingInit => SoundNow
    <2> SUFFICES ASSUME PagingInit PROVE SoundNow
      OBVIOUS
    <2>1. faults \in FaultStacks /\ \A c \in PagingCpu : faults[c] = <<>>
      BY DEF PagingInit, FaultStacks
    <2> QED BY <2>1, EmptySound DEF PagingInit, SoundNow
  <1>2. SoundNow /\ [PagingNext]_pagingVars => SoundNow'
    <2> SUFFICES ASSUME SoundNow, [PagingNext]_pagingVars PROVE SoundNext
      BY DEF SoundNow, SoundNext
    <2>1. CASE UNCHANGED pagingVars
      BY <2>1 DEF SoundNow, SoundNext, pagingVars
    <2>2. CASE PagingNext
      <3>1. ASSUME NEW c \in PagingCpu, TableFault(c) \/ MapToLazy(c) \/ MapFromLazy(c)
            PROVE  SoundNext
        BY <3>1, TableFaultSound, MapToLazySound, MapFromLazySound
      <3>2. ASSUME NEW c \in PagingCpu, Install(c) \/ ReleaseLost(c) \/ CheckMapping(c)
            PROVE  SoundNext
        BY <3>2, InstallSound, ReleaseLostSound, CheckMappingSound
      <3>3. ASSUME NEW c \in PagingCpu, NEW v \in PPage, MapRegion(c, v) \/ PageFaultIn(c, v) \/ Unmap(c, v)
            PROVE  SoundNext
        BY <3>3, MapRegionSound, PageFaultInSound, UnmapSound
      <3>4. CASE Clean
        BY <3>4, CleanSound
      <3> QED BY <2>2, <3>1, <3>2, <3>3, <3>4 DEF PagingNext
    <2> QED BY <2>1, <2>2
  <1>3. SoundNow => PageTableSound
    BY SoundOwned
  <1> QED BY <1>1, <1>2, <1>3, PTL DEF PagingSpec
=============================================================================
