SPECIFICATION FairSpec
CONSTANTS
  w1 = w1  w2 = w2  j1 = j1  j2 = j2
  Free = Free
  Orphan = Orphan
  Workers = {w1, w2}
  Jobs = {j1, j2}
  MaxVisits = 2
  MaxAdmits = 2
  MaxFaults = 2
INVARIANTS
  QueueTypeOK NoWorkLost OnlyExpiryTakesALock
PROPERTIES
  HolderAloneRetires AdmittedIsFinished
CHECK_DEADLOCK FALSE
