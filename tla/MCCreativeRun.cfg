SPECIFICATION FairSpec
CONSTANTS
  c = c  w1 = w1  w2 = w2  d1 = d1
  Creator = c
  Dispatchers = {d1}
  Workers = {w1, w2}
  MaxAttempts = 2
  MaxFaults = 1
  FailAt = {"reserve", "saveInput", "phaseEnqueued", "abortWrite", "abortEnsure", "lostWrite", "ensure", "refund", "finish", "save", "capture", "completeKept"}
INVARIANTS
  PaidOrRefunded EndedIsSettled
PROPERTY EveryRunEnds
CHECK_DEADLOCK FALSE
