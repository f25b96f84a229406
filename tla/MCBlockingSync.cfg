SPECIFICATION Spec
CONSTANTS
  t1 = t1  t2 = t2  t3 = t3
  Clock = Clock  Nobody = Nobody  NoQueue = NoQueue
  bLock = bLock  ThreadLock = ThreadLock  TimeoutLock = TimeoutLock  q1 = q1
  Thread = {t1, t2, t3}
  Lock = {bLock, ThreadLock}
  Queue = {q1}
  LockOf <- MCLockOf
  Cancellable = {t1, t2}
INVARIANTS TypeOK OneWinner InfoAlive ResumedOnce QueuesSound
CHECK_DEADLOCK FALSE
SYMMETRY MCSymmetry
