SPECIFICATION Spec
CONSTANTS
  c1 = c1
  v1 = v1
  v2 = v2
  Chats <- OneChat
  Lives <- TwoLives
  Limit = 1
  MaxWait = 1
  Tries = 2
  MaxFaults = 1
SYMMETRY Swap
INVARIANTS SlotsTypeOK LimitHolds NothingLeaks ClosedHoldsNothing WaitersCounted LoadIsIndexed
CHECK_DEADLOCK FALSE
