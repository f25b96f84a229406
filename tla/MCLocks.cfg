SPECIFICATION MCSpec
CONSTANTS
  t1 = t1  t2 = t2  t3 = t3
  Clock = Clock  Nobody = Nobody  NoQueue = NoQueue  Fence = Fence
  mtxLock = mtxLock  ThreadLock = ThreadLock  TimeoutLock = TimeoutLock  Mtx = Mtx
  Thread = {t1, t2, t3}
  Lock = {mtxLock, ThreadLock}
  Queue = {Mtx}
  LockOf <- MCLockOf
  Cancellable = {}
  Recursive = TRUE
  MaxCalls <- MCMaxCalls
  SpinCpu = {"c1", "c2"}
  MaxNest = 2
  Locker = {"l1", "l2", "l3"}
  Signaller = {"s1"}
  MaxRound = 1
INVARIANTS MutualExclusion OwnerSound SpinSound UserSyncSound
PROPERTIES AcquireReturns TicketServed
CHECK_DEADLOCK FALSE
