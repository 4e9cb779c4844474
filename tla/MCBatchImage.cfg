SPECIFICATION BSpec
CONSTANTS
  t0 = t0  t1 = t1  u1 = u1  k1 = k1
  Users = {u1}
  Keys = {k1}
  Tasks = {t0, t1}
  Legacy = {t0}
  Requests = {}
  Updates = {}
  KeyOfUpdate <- KeyOfNone
  NewQuotas = {}
  PayerOf <- PayerOfAll
  KeyOf <- KeyOfAll
  ModeOf <- AutoMode
  Estimate <- HoldThree
  ActualOfJob <- ChargeTwo
  Cost <- CostNone
  Actuals = {}
  InitBalance <- Wallet2
  SubLimit <- Limit1
  KeyQuota <- Quota6
  MaxAmount = 3
  LastDay = 0
  MaxIssue = 0
  MaxRetries = 4
  MaxFaults = 4
  CrashAt = {"reserve", "items", "upload", "platform", "save", "enqueue", "compensate", "giveBack", "record", "hide", "recordRetry", "retry", "cancelTransition", "cancelRelease", "cancelProvider", "poll", "index", "terminalRelease", "capture", "mark", "exhaust", "exhaustFail", "staleRelease"}
  FailAt = {"reserve", "items", "upload", "platform", "save", "enqueue", "compensate", "giveBack", "record", "retry", "cancelTransition", "cancelRelease", "cancelProvider", "poll", "index", "terminalRelease", "capture", "mark", "exhaust", "exhaustFail", "staleRelease"}
  LoseAt = {"compensate", "giveBack", "cancelRelease", "terminalRelease", "exhaust", "staleRelease", "upload", "save", "cancelTransition", "poll", "index", "mark", "exhaustFail", "failStale"}
  Schedules = {}
INVARIANTS
  FrozenIsOutstanding ChargedIffDelivered
  RefundedIsStopped HoldHasACloser
PROPERTY FinishedStaysFinished
