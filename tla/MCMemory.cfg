SPECIFICATION MCSpec
CONSTANTS
  c1 = c1  c2 = c2  c3 = c3  p = p  q = q
  CPU = {c1, c2, c3}
  NPages = 2
  Frame = {p, q}
  EpochMod = 5
  Nobody = Nobody  Absent = Absent  Lazy = Lazy
  FmCpu = {p, q}
  B = 2
  Levels = 3
  N = 6
  RegionSizes = {1}
  Limits = {2, 5}
  SmallPs = 2
  KernelPs = 8
  Boot16 = 2
  KernelBoot = 4
  KernelCode = 8
  KernelEnd = 16
  BootTables = 2
  HeapPages = 1
  MemoryMaps <- MCMemoryMaps
  PagingCpu = {1, 2}
  PFrame = {0, 1, 2, 3, 4, 5, 6}
  Index = {1, 2}
  Depth = 3
  PPage <- MCPages
  HeapCpu = {1, 2}
  Segment = {1, 2, 3}
  ListAnchor = {"a", "b"}
  Elem = {"w", "x", "y", "z"}
  IsrCpu = {1, 2}
  UserThread = {"u1"}
  IdleOf <- MCIdleOf
  MaxDepth = 4
SYMMETRY MCSymmetry
INVARIANTS   FrameManagerSound BootMemorySound PageTableSound HeapSound RingsSound 
