SPECIFICATION Spec
CONSTANTS
  t0 = t0  t2 = t2  r1 = r1  e1 = e1  u1 = u1  k1 = k1
  Users = {u1}
  Keys = {k1}
  Tasks = {t0, t2}
  Legacy = {t0}
  Requests = {r1}
  Updates = {e1}
  KeyOfUpdate <- KeyOfEvery
  NewQuotas = {4}
  PayerOf <- PayerOfAll
  KeyOf <- KeyOfAll
  ModeOf <- RequestFromSubscription
  Estimate <- HoldTwo
  Cost <- CostTwo
  Actuals = {1}
  InitBalance <- Wallet2
  SubLimit <- Limit1
  KeyQuota <- Quota3
  MaxAmount = 2
  LastDay = 1
  MaxIssue = 2
INVARIANTS
  MoneyConserved KeyUsageCoversCharges ExhaustedKeyIsSpent WindowCoversShares
PROPERTY LedgerSpec
