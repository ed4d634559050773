SPECIFICATION FairSpec
CONSTANTS
  Tasks = {c1, c2, c3, c4}
  Locks = {k1, k2, k3}
  NoLock = NoLock
INVARIANT LockInv
PROPERTIES ImplementsMutex InOrder Served
