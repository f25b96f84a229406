CONSTANTS
  N = 3
  Place = {a1}
  BufLen = 2
  MaxAsk = 3
  MaxNoise = 2
SPECIFICATION MCSpec
INVARIANTS SessionSound 
 
