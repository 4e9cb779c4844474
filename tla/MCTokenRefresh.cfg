SPECIFICATION FairSpec
CONSTANTS
  p1 = p1  p2 = p2  b1 = b1  q1 = q1  m1 = m1
  Procs = {p1, p2}
  Workers = {b1}
  Requests = {q1}
  Managers = {m1}
  Home <- HomeOf
  Retries = 2
  MaxTokens = 2
  MaxFaults = 1
INVARIANTS StoredTokenLives DrainedIsQuiet
PROPERTIES LateResultsYield OnlyDeadIsCondemned DueIsRefreshed
CHECK_DEADLOCK FALSE
