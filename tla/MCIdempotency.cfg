SPECIFICATION Spec
CONSTANTS
  r1 = r1  r2 = r2  r3 = r3  r4 = r4  p = p  q = q
  NoRow = NoRow
  Requests = {r1, r2, r3, r4}
  PrintOf <- PrintOfAll
  TTL = 3
  Timeout = 2
  Backoff = 1
  MaxStall = 1
  MaxClock = 6
SYMMETRY SameCommand
INVARIANT OneClaimant
PROPERTY LateArrivalReplays
CHECK_DEADLOCK FALSE
