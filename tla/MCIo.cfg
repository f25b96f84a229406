SPECIFICATION MCSpec
CONSTANTS
  DeviceIrq = {1, 9}
  Override <- MCOverride
  Processors = 2
  MaxWork = 1
  MaxTokens = 1
  MaxShared = 2
  MaxTyped = 3
  IoThread = {"x", "y"}
  FileSize = 2
  MaxBytes = 2
  MaxOffset = 3
  MaxKeys = 2
  t1 = t1  t2 = t2  t3 = t3  a1 = a1  a2 = a2  a3 = a3  a4 = a4
  Thread = {t1, t2, t3}
  Openers = {t1}
  Closers = {t1}
  Access = {a1, a2, a3}
  Std <- MCStd
  Limit = 4
  None = None  Garbage = Garbage
INVARIANTS  AccessSound 
PROPERTIES IrqDelivered MCPreemptEverywhere CloseReturns
