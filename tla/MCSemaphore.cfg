SPECIFICATION SemSpec
CONSTANTS
  t1 = t1  t2 = t2  t3 = t3
  Clock = Clock  Nobody = Nobody  NoQueue = NoQueue
  semLock = semLock  ThreadLock = ThreadLock  TimeoutLock = TimeoutLock  Sem = Sem
  Thread = {t1, t2, t3}
  Lock = {semLock, ThreadLock}
  Queue = {Sem}
  LockOf <- MCLockOf
  Cancellable = {t1}
  Tokens = 0
  MaxCalls = 2
INVARIANTS NoIdleToken
PROPERTIES ImplementsSemaphore
CHECK_DEADLOCK FALSE
SYMMETRY MCSymmetry
