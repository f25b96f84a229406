SPECIFICATION ProcFairSpec
CONSTANTS
  t1 = t1  t2 = t2  t3 = t3  q1 = q1  q2 = q2  q3 = q3
  Clock = Clock  Nobody = Nobody  NoQueue = NoQueue
  ThreadLock = ThreadLock  TimeoutLock = TimeoutLock
  Thread = {t1, t2}
  Lock = {ThreadLock}
  Queue <- MCQueue
  JoinQueue <- MCJoinQueue
  LockOf <- MCLockOf
  First = t1
  Cancellable = {t1, t2}
  Exiters = {t1}
  MaxJoins = 2
CHECK_DEADLOCK FALSE
PROPERTIES ExitCancelsAll
