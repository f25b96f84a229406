SPECIFICATION FmSpec
CONSTANTS
  FmCpu = {"d1"}
  B = 4
  Levels = 2
  N = 8
  RegionSizes = {3}
  Limits = {5}
INVARIANTS FramesAccounted
