SPECIFICATION FairSpec
CONSTANTS
  Threads = {t1, t2, t3}
  NoThread = NoThread
INVARIANTS
  IInv
  IdMatchIsOwnership
PROPERTIES
  ImplementsMutexObject
  LockIsReleased
