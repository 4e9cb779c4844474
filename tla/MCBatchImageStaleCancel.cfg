SPECIFICATION BSpec
CONSTANTS
  t0 = t0  t1 = t1  u1 = u1  k1 = k1
  Users = {u1}
  Keys = {k1}
  Tasks = {t0, t1}
  Legacy = {t0}
  Requests = {}
  Updates = {}
  KeyOfUpdate <- KeyOfNone
  NewQuotas = {}
  PayerOf <- PayerOfAll
  KeyOf <- KeyOfAll
  ModeOf <- AutoMode
  Estimate <- HoldThree
  ActualOfJob <- ChargeTwo
  Cost <- CostNone
  Actuals = {}
  InitBalance <- Wallet2
  SubLimit <- Limit1
  KeyQuota <- Quota6
  MaxAmount = 3
  LastDay = 0
  MaxIssue = 0
  MaxRetries = 2
  MaxFaults = 0
  CrashAt = {}
  FailAt = {}
  LoseAt = {}
  Schedules = {"cancel-before-reserve"}
INVARIANT NoHoldStolen
