SPECIFICATION MqFairSpec
CONSTANTS
  t1 = t1  t2 = t2
  Clock = Clock  Nobody = Nobody  NoQueue = NoQueue
  mqLock = mqLock  ThreadLock = ThreadLock  TimeoutLock = TimeoutLock
  sendQ = sendQ  recvQ = recvQ
  Thread = {t1, t2}
  Lock = {mqLock, ThreadLock}
  Queue = {sendQ, recvQ}
  QueueOf <- MCQueueOf
  LockOf <- MCLockOf
  Cancellable = {t1}
  Capacity = 2
  MaxCalls = 3
INVARIANTS SlotsBalance
PROPERTIES ImplementsChannel NobodyStuck
CHECK_DEADLOCK FALSE
