SPECIFICATION Spec
CONSTANTS
  a1 = a1  a2 = a2
  Admins = {a1, a2}
  Methods = {"wechat", "easypay"}
  Balance = 3
  Amount = 2
  MaxVersion = 7
SYMMETRY SameAdmins
INVARIANTS BalanceExplained RefundedAtProvider UnknownKeepsDeduction
CHECK_DEADLOCK FALSE
