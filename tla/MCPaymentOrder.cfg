SPECIFICATION Spec
CONSTANTS
  call = call  loop = loop
  Requests = {call}
  Loop = loop
  Methods = {"stripe", "alipay", "airwallex", "easypay"}
  Kinds = {"balance", "subscription"}
  MaxFaults = 2
INVARIANTS DeliveredOnce CompletedIsDelivered ClosedIsUnpaid
PROPERTIES PaidStaysPaid PaidIsFulfilled
CHECK_DEADLOCK FALSE
