----------------------------- MODULE OrderProofs -----------------------------
(***************************************************************************)
(* The safety properties of PaymentOrder, for any number of requests and   *)
(* faults.  What a call knows at its stage is of a kind that nobody takes  *)
(* back: a payment stays made, a payment that can no longer be made stays  *)
(* so, a paid order stays paid, a credit stays given.                      *)
(***************************************************************************)
EXTENDS PaymentOrder, TLAPS

(* The shapes of the variables, in groups that change together. *)
RowShapes ==
  /\ row \in [status : Statuses, paid : BOOLEAN, trade : BOOLEAN]
  /\ age \in 0..2 /\ current \subseteq Calls

OutsideShapes ==
  /\ kind \in Kinds /\ method \in Methods
  /\ pay \in {"signed", "open", "processing", "paid", "failed", "closed"}
  /\ notices \subseteq {"processing", "paid", "failed"}
  /\ forced \in BOOLEAN /\ missed \in BOOLEAN /\ faults \in 0..MaxFaults

DeliveryShapes ==
  /\ code \in {"none", "unused", "used"} /\ audit \in BOOLEAN
  /\ credits \in Nat /\ rebates \in Nat

CallShapes ==
  /\ pc \in [Calls -> Stages]
  /\ seen \in [Calls -> [status : Statuses, trade : BOOLEAN]]
  /\ goal \in [Calls -> {"none", "check", "settle"} \cup Closed]

(* A call that is about to close the order knows what it closes it for.    *)
GoalsKnown ==
  \A c \in Calls : pc[c] \in {"cancel", "requery", "finalize"} => goal[c] \in Closed

Shapes == RowShapes /\ OutsideShapes /\ DeliveryShapes /\ CallShapes /\ GoalsKnown

(* An order is paid in these states, and only after the provider was.      *)
Unpayable == pay \in {"failed", "closed"}

RowTruth ==
  /\ row.paid <=> row.status \notin Unpaid
  /\ row.paid => row.trade /\ pay = "paid"
  /\ "paid" \in notices => pay = "paid"
  /\ "failed" \in notices => Unpayable
  /\ ClosedIsUnpaid

(* What a call knows of the payment at its stage.                          *)
PaymentKnown(c) ==
  /\ pc[c] \in {"trade", "paid", "confirm", "reload"} => pay = "paid"
  /\ pc[c] \in {"failed", "markFailed", "reloadFailed"} => Unpayable
  /\ pc[c] = "finalize" /\ Cancelable /\ ~missed => Unpayable
  /\ pc[c] \in Fulfilling => row.paid

(* What is delivered, and what a call knows of it at its stage.            *)
Deliveries ==
  /\ credits = IF code = "used" THEN 1 ELSE 0
  /\ rebates \in {0, 1}
  /\ audit => code = "used"
  /\ kind = "subscription" => code # "unused"
  /\ code = "used" => row.paid
  /\ row.status = "COMPLETED" => code = "used" /\ rebates = 1

DeliveryKnown(c) ==
  /\ pc[c] \in {"assigned", "assign", "audit"} => kind # "balance"
  /\ pc[c] \in {"lookup", "create", "redeem"} => kind = "balance"
  /\ pc[c] \in {"audit", "rebate", "complete"} => code = "used"
  /\ pc[c] = "complete" => rebates = 1

PaymentsKnown == \A c \in Calls : PaymentKnown(c)
DeliveriesKnown == \A c \in Calls : DeliveryKnown(c)

LEMMA CallsAreRequests == Requests \subseteq Calls /\ Loop \in Calls
BY DEF Calls
-----------------------------------------------------------------------------
(* What an update of the row may write. *)
Rows == [status : Statuses, paid : BOOLEAN, trade : BOOLEAN]

LEMMA UpdatesAreRows ==
  ASSUME row \in Rows, NEW s \in Statuses
  PROVE  /\ Is(s) \in Rows /\ [Is(s) EXCEPT !.trade = TRUE] \in Rows
         /\ [row EXCEPT !.trade = TRUE] \in Rows /\ Paid(row) \in Rows
         /\ Is(s).status = s /\ Is(s).paid = row.paid /\ Is(s).trade = row.trade
         /\ [Is(s) EXCEPT !.trade = TRUE].status = s
         /\ [Is(s) EXCEPT !.trade = TRUE].paid = row.paid
         /\ [row EXCEPT !.trade = TRUE].status = row.status
         /\ [row EXCEPT !.trade = TRUE].paid = row.paid
         /\ Paid(row).status = "PAID" /\ Paid(row).paid /\ Paid(row).trade
<1>1. "PAID" \in Statuses
  BY DEF Statuses, Fulfillable
<1> QED BY <1>1 DEF Rows, Is, Paid

LEMMA WritesRows ==
  ASSUME NEW new \in Rows, Writes(new) PROVE RowShapes' /\ row' = new
BY DEF Writes, RowShapes, Rows

(* The statuses that the code names. *)
LEMMA NamedStatuses ==
  /\ {"PENDING", "PROCESSING", "EXPIRED", "CANCELLED", "PAID", "RECHARGING", "FAILED",
      "COMPLETED"} \subseteq Statuses
  /\ Closed \subseteq Statuses
BY DEF Statuses, Open, Closed, Fulfillable

(* A call that moves on, or ends, keeps the shapes of the calls. *)
LEMMA GoesInShape ==
  ASSUME CallShapes, NEW c \in Calls, NEW s \in Stages, Goes(c, s),
         \/ UNCHANGED seen \/ Forgets(c)
         \/ Reads(c) /\ row.status \in Statuses /\ row.trade \in BOOLEAN
  PROVE  /\ CallShapes'
         /\ GoalsKnown /\ s \notin {"cancel", "requery", "finalize"} => GoalsKnown'
<1>1. /\ pc' = [pc EXCEPT ![c] = s]
      /\ goal' = goal \/ goal' = [goal EXCEPT ![c] = "none"]
  BY DEF Goes
<1>2. pc' \in [Calls -> Stages] /\ goal' \in [Calls -> {"none", "check", "settle"} \cup Closed]
  BY <1>1 DEF CallShapes
<1>3. seen' \in [Calls -> [status : Statuses, trade : BOOLEAN]]
  <2>1. NotRead \in [status : Statuses, trade : BOOLEAN]
    BY NamedStatuses DEF NotRead
  <2> QED BY <2>1 DEF CallShapes, Reads, Forgets
<1>4. ASSUME GoalsKnown, s \notin {"cancel", "requery", "finalize"} PROVE GoalsKnown'
  BY <1>1, <1>4 DEF GoalsKnown, CallShapes, Goes, Asking
<1> QED BY <1>2, <1>3, <1>4 DEF CallShapes
-----------------------------------------------------------------------------
(* The order keeps its shape. *)
LEMMA RowShapesKept ==
  ASSUME Shapes, [Next]_vars PROVE RowShapes'
<1> USE CallsAreRequests DEF Shapes, RowShapes, Unowned, order
<1>0. row \in Rows
  BY DEF Shapes, RowShapes, Rows
<1>1. ASSUME NEW result \in {"processing", "paid", "failed"}, Pay(result) PROVE RowShapes'
  BY <1>1 DEF Pay
<1>2. CASE Age
  BY <1>2 DEF Age
<1>2a. CASE OpenCheckout
  BY <1>2a DEF OpenCheckout
<1>3. ASSUME NEW h \in Requests, NEW n \in {"processing", "paid", "failed"}, Deliver(h, n)
     
      PROVE   RowShapes'
  BY <1>3 DEF Deliver
<1>4. ASSUME NEW c \in Requests, Verify(c) PROVE RowShapes'
  BY <1>4 DEF Verify, Starts, Reads
<1>5. ASSUME NEW c \in Requests, Cancel(c) PROVE RowShapes'
  BY <1>5 DEF Cancel, Starts, Reads
<1>6. ASSUME NEW c \in Requests, ForceExpire(c) PROVE RowShapes'
  <2>1. UNCHANGED order \/ Writes(Is("EXPIRED"))
    BY <1>6 DEF ForceExpire
  <2>2. Is("EXPIRED") \in Rows
    BY <1>0, UpdatesAreRows, NamedStatuses
  <2> QED BY <2>1, <2>2, WritesRows
<1>7. ASSUME NEW c \in Requests, RetryFulfillment(c) PROVE RowShapes'
  BY <1>7 DEF RetryFulfillment
<1>8. CASE ReconcilePending
  BY <1>8 DEF ReconcilePending, Starts, Reads
<1>9. CASE ReconcileProcessing
  BY <1>9 DEF ReconcileProcessing, Starts, Reads
<1>10. CASE ReconcileFulfillment
  BY <1>10 DEF ReconcileFulfillment
<1>11. CASE Expire
  BY <1>11 DEF Expire, Starts, Reads
<1>12. ASSUME NEW c \in Calls, Find(c) PROVE RowShapes'
  BY <1>12 DEF Find, Reads
<1>13. ASSUME NEW c \in Calls, MarkPaymentProcessing(c) PROVE RowShapes'
  <2>1. UNCHANGED order \/ Writes([Is("PROCESSING") EXCEPT !.trade = TRUE])
    BY <1>13 DEF MarkPaymentProcessing
  <2>2. [Is("PROCESSING") EXCEPT !.trade = TRUE] \in Rows
    BY <1>0, UpdatesAreRows, NamedStatuses
  <2> QED BY <2>1, <2>2, WritesRows
<1>14. ASSUME NEW c \in Calls, MarkPaymentFailed(c) PROVE RowShapes'
  <2>1. UNCHANGED order \/ Writes([Is("EXPIRED") EXCEPT !.trade = TRUE])
    BY <1>14 DEF MarkPaymentFailed
  <2>2. [Is("EXPIRED") EXCEPT !.trade = TRUE] \in Rows
    BY <1>0, UpdatesAreRows, NamedStatuses
  <2> QED BY <2>1, <2>2, WritesRows
<1>15. ASSUME NEW c \in Calls, ToPaid(c) PROVE RowShapes'
  <2>1. UNCHANGED order \/ Writes(Paid(row))
    BY <1>15 DEF ToPaid
  <2>2. Paid(row) \in Rows
    BY <1>0, UpdatesAreRows, NamedStatuses
  <2> QED BY <2>1, <2>2, WritesRows
<1>16. ASSUME NEW c \in Calls, Reload(c) PROVE RowShapes'
  BY <1>16 DEF Reload, Reads
<1>17. ASSUME NEW c \in Calls, Load(c) PROVE RowShapes'
  BY <1>17 DEF Load
<1>18. ASSUME NEW c \in Calls, Claim(c) PROVE RowShapes'
  <2>1. UNCHANGED order \/ Writes(Is("RECHARGING"))
    BY <1>18 DEF Claim
  <2>2. Is("RECHARGING") \in Rows
    BY <1>0, UpdatesAreRows, NamedStatuses
  <2> QED BY <2>1, <2>2, WritesRows
<1>19. ASSUME NEW c \in Calls, Lease(c) PROVE RowShapes'
  BY <1>19 DEF Lease
<1>20. ASSUME NEW c \in Calls, Lookup(c) PROVE RowShapes'
  BY <1>20 DEF Lookup
<1>21. ASSUME NEW c \in Calls, CreateCode(c) PROVE RowShapes'
  BY <1>21 DEF CreateCode
<1>22. ASSUME NEW c \in Calls, Redeem(c) PROVE RowShapes'
  BY <1>22 DEF Redeem
<1>23. ASSUME NEW c \in Calls, Assigned(c) PROVE RowShapes'
  BY <1>23 DEF Assigned
<1>24. ASSUME NEW c \in Calls, Assign(c) PROVE RowShapes'
  BY <1>24 DEF Assign
<1>25. ASSUME NEW c \in Calls, Audit(c) PROVE RowShapes'
  BY <1>25 DEF Audit
<1>26. ASSUME NEW c \in Calls, Rebate(c) PROVE RowShapes'
  BY <1>26 DEF Rebate
<1>27. ASSUME NEW c \in Calls, MarkCompleted(c) PROVE RowShapes'
  <2>1. UNCHANGED order \/ Writes(Is("COMPLETED"))
    BY <1>27 DEF MarkCompleted
  <2>2. Is("COMPLETED") \in Rows
    BY <1>0, UpdatesAreRows, NamedStatuses
  <2> QED BY <2>1, <2>2, WritesRows
<1>28. ASSUME NEW c \in Calls, MarkFailed(c) PROVE RowShapes'
  <2>1. \/ Unowned(c) /\ UNCHANGED <<row, age>>
        \/ Writes(Is("FAILED"))
    BY <1>28 DEF MarkFailed
  <2>2. Is("FAILED") \in Rows
    BY <1>0, UpdatesAreRows, NamedStatuses
  <2> QED BY <2>1, <2>2, WritesRows
<1>29. ASSUME NEW c \in Calls, Query(c) PROVE RowShapes'
  BY <1>29 DEF Query, Answered, Closing, Keeps, Forgets
<1>30. ASSUME NEW c \in Calls, SaveTradeNumber(c) PROVE RowShapes'
  <2>1. UNCHANGED order \/ Writes([row EXCEPT !.trade = TRUE])
    BY <1>30 DEF SaveTradeNumber
  <2>2. [row EXCEPT !.trade = TRUE] \in Rows
    BY <1>0, UpdatesAreRows, NamedStatuses
  <2> QED BY <2>1, <2>2, WritesRows
<1>31. ASSUME NEW c \in Calls, CancelPayment(c) PROVE RowShapes'
  BY <1>31 DEF CancelPayment, Keeps, Forgets
<1>32. ASSUME NEW c \in Calls, Requery(c) PROVE RowShapes'
  BY <1>32 DEF Requery, Answered, Closing, Keeps, Forgets
<1>33. ASSUME NEW c \in Calls, TouchPending(c) PROVE RowShapes'
  <2>1. UNCHANGED order \/ Writes(row)
    BY <1>33 DEF TouchPending
  <2>2. row \in Rows
    BY <1>0, UpdatesAreRows, NamedStatuses
  <2> QED BY <2>1, <2>2, WritesRows
<1>34. ASSUME NEW c \in Calls, FinalizePendingOrder(c) PROVE RowShapes'
  <2>1. UNCHANGED order \/ Writes(Is(goal[c]))
    BY <1>34 DEF FinalizePendingOrder
  <2>2. goal[c] \in Statuses
    BY <1>34, NamedStatuses DEF FinalizePendingOrder, GoalsKnown
  <2>3. Is(goal[c]) \in Rows
    BY <1>0, <2>2, UpdatesAreRows
  <2> QED BY <2>1, <2>3, WritesRows
<1>35. ASSUME NEW c \in Calls, Crash(c) PROVE RowShapes'
  BY <1>35 DEF Crash
<1>36. CASE UNCHANGED vars
  BY <1>36 DEF vars
<1> QED BY <1>1, <1>2, <1>2a, <1>3, <1>4, <1>5, <1>6, <1>7, <1>8, <1>9, <1>10,
        <1>11, <1>12, <1>13, <1>14, <1>15, <1>16, <1>17, <1>18, <1>19, <1>20,
        <1>21, <1>22, <1>23, <1>24, <1>25, <1>26, <1>27, <1>28, <1>29, <1>30,
        <1>31, <1>32, <1>33, <1>34, <1>35, <1>36
        DEF Next, Request, Reconcile, Continue, Fulfil

(* Provider, notices and bounds keep their shape. *)
LEMMA OutsideShapesKept ==
  ASSUME Shapes, [Next]_vars PROVE OutsideShapes'
<1> USE OrderAssumption DEF Shapes, OutsideShapes, Fault, choice, history, provider
<1>1. ASSUME NEW result \in {"processing", "paid", "failed"}, Pay(result)
      PROVE  OutsideShapes'
  BY <1>1 DEF Pay
<1>2. CASE Age
  BY <1>2 DEF Age
<1>2a. CASE OpenCheckout
  BY <1>2a DEF OpenCheckout
<1>3. ASSUME NEW h \in Requests, NEW n \in {"processing", "paid", "failed"}, Deliver(h, n)
     
      PROVE   OutsideShapes'
  BY <1>3 DEF Deliver
<1>4. ASSUME NEW c \in Requests, Verify(c) PROVE OutsideShapes'
  BY <1>4 DEF Verify, Starts, Reads
<1>5. ASSUME NEW c \in Requests, Cancel(c) PROVE OutsideShapes'
  BY <1>5 DEF Cancel, Starts, Reads
<1>6. ASSUME NEW c \in Requests, ForceExpire(c) PROVE OutsideShapes'
  BY <1>6 DEF ForceExpire
<1>7. ASSUME NEW c \in Requests, RetryFulfillment(c) PROVE OutsideShapes'
  BY <1>7 DEF RetryFulfillment
<1>8. CASE ReconcilePending
  BY <1>8 DEF ReconcilePending, Starts, Reads
<1>9. CASE ReconcileProcessing
  BY <1>9 DEF ReconcileProcessing, Starts, Reads
<1>10. CASE ReconcileFulfillment
  BY <1>10 DEF ReconcileFulfillment
<1>11. CASE Expire
  BY <1>11 DEF Expire, Starts, Reads
<1>12. ASSUME NEW c \in Calls, Find(c) PROVE OutsideShapes'
  BY <1>12 DEF Find, Reads
<1>13. ASSUME NEW c \in Calls, MarkPaymentProcessing(c) PROVE OutsideShapes'
  BY <1>13 DEF MarkPaymentProcessing
<1>14. ASSUME NEW c \in Calls, MarkPaymentFailed(c) PROVE OutsideShapes'
  BY <1>14 DEF MarkPaymentFailed
<1>15. ASSUME NEW c \in Calls, ToPaid(c) PROVE OutsideShapes'
  BY <1>15 DEF ToPaid
<1>16. ASSUME NEW c \in Calls, Reload(c) PROVE OutsideShapes'
  BY <1>16 DEF Reload, Reads
<1>17. ASSUME NEW c \in Calls, Load(c) PROVE OutsideShapes'
  BY <1>17 DEF Load
<1>18. ASSUME NEW c \in Calls, Claim(c) PROVE OutsideShapes'
  BY <1>18 DEF Claim
<1>19. ASSUME NEW c \in Calls, Lease(c) PROVE OutsideShapes'
  BY <1>19 DEF Lease
<1>20. ASSUME NEW c \in Calls, Lookup(c) PROVE OutsideShapes'
  BY <1>20 DEF Lookup
<1>21. ASSUME NEW c \in Calls, CreateCode(c) PROVE OutsideShapes'
  BY <1>21 DEF CreateCode
<1>22. ASSUME NEW c \in Calls, Redeem(c) PROVE OutsideShapes'
  BY <1>22 DEF Redeem
<1>23. ASSUME NEW c \in Calls, Assigned(c) PROVE OutsideShapes'
  BY <1>23 DEF Assigned
<1>24. ASSUME NEW c \in Calls, Assign(c) PROVE OutsideShapes'
  BY <1>24 DEF Assign
<1>25. ASSUME NEW c \in Calls, Audit(c) PROVE OutsideShapes'
  BY <1>25 DEF Audit
<1>26. ASSUME NEW c \in Calls, Rebate(c) PROVE OutsideShapes'
  BY <1>26 DEF Rebate
<1>27. ASSUME NEW c \in Calls, MarkCompleted(c) PROVE OutsideShapes'
  BY <1>27 DEF MarkCompleted
<1>28. ASSUME NEW c \in Calls, MarkFailed(c) PROVE OutsideShapes'
  BY <1>28 DEF MarkFailed
<1>29. ASSUME NEW c \in Calls, Query(c) PROVE OutsideShapes'
  BY <1>29 DEF Query, Answered, Closing, Keeps, Forgets
<1>30. ASSUME NEW c \in Calls, SaveTradeNumber(c) PROVE OutsideShapes'
  BY <1>30 DEF SaveTradeNumber
<1>31. ASSUME NEW c \in Calls, CancelPayment(c) PROVE OutsideShapes'
  <2>1. missed' \in BOOLEAN
    BY <1>31, Zenon DEF CancelPayment
  <2>2. UNCHANGED <<choice, notices, forced>> /\ faults' \in 0..MaxFaults
    BY <1>31 DEF CancelPayment
  <2>3. pay' \in {pay, "closed"}
    BY <1>31 DEF CancelPayment
  <2> QED BY <2>1, <2>2, <2>3
<1>32. ASSUME NEW c \in Calls, Requery(c) PROVE OutsideShapes'
  BY <1>32 DEF Requery, Answered, Closing, Keeps, Forgets
<1>33. ASSUME NEW c \in Calls, TouchPending(c) PROVE OutsideShapes'
  BY <1>33 DEF TouchPending
<1>34. ASSUME NEW c \in Calls, FinalizePendingOrder(c) PROVE OutsideShapes'
  BY <1>34 DEF FinalizePendingOrder
<1>35. ASSUME NEW c \in Calls, Crash(c) PROVE OutsideShapes'
  BY <1>35 DEF Crash
<1>36. CASE UNCHANGED vars
  BY <1>36 DEF vars
<1> QED BY <1>1, <1>2, <1>2a, <1>3, <1>4, <1>5, <1>6, <1>7, <1>8, <1>9, <1>10,
        <1>11, <1>12, <1>13, <1>14, <1>15, <1>16, <1>17, <1>18, <1>19, <1>20,
        <1>21, <1>22, <1>23, <1>24, <1>25, <1>26, <1>27, <1>28, <1>29, <1>30,
        <1>31, <1>32, <1>33, <1>34, <1>35, <1>36
        DEF Next, Request, Reconcile, Continue, Fulfil

(* What is delivered keeps its shape. *)
LEMMA DeliveryShapesKept ==
  ASSUME Shapes, [Next]_vars PROVE DeliveryShapes'
<1> USE DEF Shapes, DeliveryShapes, delivery
<1>1. ASSUME NEW result \in {"processing", "paid", "failed"}, Pay(result)
      PROVE  DeliveryShapes'
  BY <1>1 DEF Pay
<1>2. CASE Age
  BY <1>2 DEF Age
<1>2a. CASE OpenCheckout
  BY <1>2a DEF OpenCheckout
<1>3. ASSUME NEW h \in Requests, NEW n \in {"processing", "paid", "failed"}, Deliver(h, n)
     
      PROVE   DeliveryShapes'
  BY <1>3 DEF Deliver
<1>4. ASSUME NEW c \in Requests, Verify(c) PROVE DeliveryShapes'
  BY <1>4 DEF Verify, Starts, Reads
<1>5. ASSUME NEW c \in Requests, Cancel(c) PROVE DeliveryShapes'
  BY <1>5 DEF Cancel, Starts, Reads
<1>6. ASSUME NEW c \in Requests, ForceExpire(c) PROVE DeliveryShapes'
  BY <1>6 DEF ForceExpire
<1>7. ASSUME NEW c \in Requests, RetryFulfillment(c) PROVE DeliveryShapes'
  BY <1>7 DEF RetryFulfillment
<1>8. CASE ReconcilePending
  BY <1>8 DEF ReconcilePending, Starts, Reads
<1>9. CASE ReconcileProcessing
  BY <1>9 DEF ReconcileProcessing, Starts, Reads
<1>10. CASE ReconcileFulfillment
  BY <1>10 DEF ReconcileFulfillment
<1>11. CASE Expire
  BY <1>11 DEF Expire, Starts, Reads
<1>12. ASSUME NEW c \in Calls, Find(c) PROVE DeliveryShapes'
  BY <1>12 DEF Find, Reads
<1>13. ASSUME NEW c \in Calls, MarkPaymentProcessing(c) PROVE DeliveryShapes'
  BY <1>13 DEF MarkPaymentProcessing
<1>14. ASSUME NEW c \in Calls, MarkPaymentFailed(c) PROVE DeliveryShapes'
  BY <1>14 DEF MarkPaymentFailed
<1>15. ASSUME NEW c \in Calls, ToPaid(c) PROVE DeliveryShapes'
  BY <1>15 DEF ToPaid
<1>16. ASSUME NEW c \in Calls, Reload(c) PROVE DeliveryShapes'
  BY <1>16 DEF Reload, Reads
<1>17. ASSUME NEW c \in Calls, Load(c) PROVE DeliveryShapes'
  BY <1>17 DEF Load
<1>18. ASSUME NEW c \in Calls, Claim(c) PROVE DeliveryShapes'
  BY <1>18 DEF Claim
<1>19. ASSUME NEW c \in Calls, Lease(c) PROVE DeliveryShapes'
  BY <1>19 DEF Lease
<1>20. ASSUME NEW c \in Calls, Lookup(c) PROVE DeliveryShapes'
  BY <1>20 DEF Lookup
<1>21. ASSUME NEW c \in Calls, CreateCode(c) PROVE DeliveryShapes'
  BY <1>21 DEF CreateCode
<1>22. ASSUME NEW c \in Calls, Redeem(c) PROVE DeliveryShapes'
  BY <1>22 DEF Redeem
<1>23. ASSUME NEW c \in Calls, Assigned(c) PROVE DeliveryShapes'
  BY <1>23 DEF Assigned
<1>24. ASSUME NEW c \in Calls, Assign(c) PROVE DeliveryShapes'
  BY <1>24 DEF Assign
<1>25. ASSUME NEW c \in Calls, Audit(c) PROVE DeliveryShapes'
  BY <1>25 DEF Audit
<1>26. ASSUME NEW c \in Calls, Rebate(c) PROVE DeliveryShapes'
  BY <1>26 DEF Rebate
<1>27. ASSUME NEW c \in Calls, MarkCompleted(c) PROVE DeliveryShapes'
  BY <1>27 DEF MarkCompleted
<1>28. ASSUME NEW c \in Calls, MarkFailed(c) PROVE DeliveryShapes'
  BY <1>28 DEF MarkFailed
<1>29. ASSUME NEW c \in Calls, Query(c) PROVE DeliveryShapes'
  BY <1>29 DEF Query, Answered, Closing, Keeps, Forgets
<1>30. ASSUME NEW c \in Calls, SaveTradeNumber(c) PROVE DeliveryShapes'
  BY <1>30 DEF SaveTradeNumber
<1>31. ASSUME NEW c \in Calls, CancelPayment(c) PROVE DeliveryShapes'
  BY <1>31 DEF CancelPayment, Keeps, Forgets
<1>32. ASSUME NEW c \in Calls, Requery(c) PROVE DeliveryShapes'
  BY <1>32 DEF Requery, Answered, Closing, Keeps, Forgets
<1>33. ASSUME NEW c \in Calls, TouchPending(c) PROVE DeliveryShapes'
  BY <1>33 DEF TouchPending
<1>34. ASSUME NEW c \in Calls, FinalizePendingOrder(c) PROVE DeliveryShapes'
  BY <1>34 DEF FinalizePendingOrder
<1>35. ASSUME NEW c \in Calls, Crash(c) PROVE DeliveryShapes'
  BY <1>35 DEF Crash
<1>36. CASE UNCHANGED vars
  BY <1>36 DEF vars
<1> QED BY <1>1, <1>2, <1>2a, <1>3, <1>4, <1>5, <1>6, <1>7, <1>8, <1>9, <1>10,
        <1>11, <1>12, <1>13, <1>14, <1>15, <1>16, <1>17, <1>18, <1>19, <1>20,
        <1>21, <1>22, <1>23, <1>24, <1>25, <1>26, <1>27, <1>28, <1>29, <1>30,
        <1>31, <1>32, <1>33, <1>34, <1>35, <1>36
        DEF Next, Request, Reconcile, Continue, Fulfil

(* A call that asks the provider remembers what for.                       *)
LEMMA StartsInShape ==
  ASSUME Shapes, NEW c \in Calls, NEW p \in {"check", "settle", "EXPIRED", "CANCELLED"},
         Starts(c, p)
  PROVE  CallShapes' /\ GoalsKnown'
<1>1. pc' \in [Calls -> Stages]
  BY DEF Shapes, CallShapes, Starts, Stages
<1>2. goal' \in [Calls -> {"none", "check", "settle"} \cup Closed]
  BY DEF Shapes, CallShapes, Starts, Closed
<1>3. seen' \in [Calls -> [status : Statuses, trade : BOOLEAN]]
  BY DEF Shapes, CallShapes, RowShapes, Starts, Reads
<1>4. GoalsKnown'
  BY DEF Shapes, CallShapes, GoalsKnown, Starts
<1> QED BY <1>1, <1>2, <1>3, <1>4 DEF CallShapes

(* The calls keep their shape, and their purpose while they close the order. *)
LEMMA CallShapesKept ==
  ASSUME Shapes, [Next]_vars PROVE CallShapes' /\ GoalsKnown'
<1> USE CallsAreRequests DEF Shapes, RowShapes, CallShapes, Stages, Fulfilling
<1>1. ASSUME NEW result \in {"processing", "paid", "failed"}, Pay(result)
      PROVE  CallShapes' /\ GoalsKnown'
  BY <1>1 DEF Pay, GoalsKnown
<1>2. CASE Age
  BY <1>2 DEF Age, GoalsKnown
<1>2a. CASE OpenCheckout
  BY <1>2a DEF OpenCheckout, GoalsKnown
<1>3. ASSUME NEW h \in Requests, NEW n \in {"processing", "paid", "failed"}, Deliver(h, n)
     
      PROVE   CallShapes' /\ GoalsKnown'
  <2>1. PICK s \in Stages : /\ Goes(h, s) /\ s \notin {"cancel", "requery", "finalize"}
                            /\ UNCHANGED seen \/ Forgets(h)
    BY <1>3 DEF Deliver
  <2> QED BY <2>1, GoesInShape
<1>4. ASSUME NEW c \in Requests, Verify(c) PROVE CallShapes' /\ GoalsKnown'
  <2>1. PICK p \in {"check", "settle", "EXPIRED", "CANCELLED"} : Starts(c, p)
    BY <1>4 DEF Verify
  <2> QED BY <2>1, StartsInShape
<1>5. ASSUME NEW c \in Requests, Cancel(c) PROVE CallShapes' /\ GoalsKnown'
  <2>1. PICK p \in {"check", "settle", "EXPIRED", "CANCELLED"} : Starts(c, p)
    BY <1>5 DEF Cancel
  <2> QED BY <2>1, StartsInShape
<1>6. ASSUME NEW c \in Requests, ForceExpire(c) PROVE CallShapes' /\ GoalsKnown'
  BY <1>6 DEF ForceExpire, GoalsKnown
<1>7. ASSUME NEW c \in Requests, RetryFulfillment(c) PROVE CallShapes' /\ GoalsKnown'
  <2>1. PICK s \in Stages : /\ Goes(c, s) /\ s \notin {"cancel", "requery", "finalize"}
                            /\ UNCHANGED seen \/ Forgets(c)
    BY <1>7 DEF RetryFulfillment
  <2> QED BY <2>1, GoesInShape
<1>8. CASE ReconcilePending
  <2>1. PICK p \in {"check", "settle", "EXPIRED", "CANCELLED"} : Starts(Loop, p)
    BY <1>8 DEF ReconcilePending
  <2> QED BY <2>1, StartsInShape
<1>9. CASE ReconcileProcessing
  <2>1. PICK p \in {"check", "settle", "EXPIRED", "CANCELLED"} : Starts(Loop, p)
    BY <1>9 DEF ReconcileProcessing
  <2> QED BY <2>1, StartsInShape
<1>10. CASE ReconcileFulfillment
  <2>1. PICK s \in Stages : /\ Goes(Loop, s) /\ s \notin {"cancel", "requery", "finalize"}
                            /\ UNCHANGED seen \/ Forgets(Loop)
    BY <1>10 DEF ReconcileFulfillment
  <2> QED BY <2>1, GoesInShape
<1>11. CASE Expire
  <2>1. PICK p \in {"check", "settle", "EXPIRED", "CANCELLED"} : Starts(Loop, p)
    BY <1>11 DEF Expire
  <2> QED BY <2>1, StartsInShape
<1>12. ASSUME NEW c \in Calls, Find(c) PROVE CallShapes' /\ GoalsKnown'
  <2>1. PICK s \in Stages : /\ Goes(c, s) /\ s \notin {"cancel", "requery", "finalize"}
                            /\ UNCHANGED seen \/ Reads(c)
    BY <1>12 DEF Find
  <2> QED BY <2>1, GoesInShape
<1>13. ASSUME NEW c \in Calls, MarkPaymentProcessing(c) PROVE CallShapes' /\ GoalsKnown'
  <2>1. PICK s \in Stages : /\ Goes(c, s) /\ s \notin {"cancel", "requery", "finalize"}
                            /\ UNCHANGED seen \/ Forgets(c)
    BY <1>13 DEF MarkPaymentProcessing, Ends
  <2> QED BY <2>1, GoesInShape
<1>14. ASSUME NEW c \in Calls, MarkPaymentFailed(c) PROVE CallShapes' /\ GoalsKnown'
  <2>1. PICK s \in Stages : /\ Goes(c, s) /\ s \notin {"cancel", "requery", "finalize"}
                            /\ UNCHANGED seen \/ Forgets(c)
    BY <1>14 DEF MarkPaymentFailed, Ends
  <2> QED BY <2>1, GoesInShape
<1>15. ASSUME NEW c \in Calls, ToPaid(c) PROVE CallShapes' /\ GoalsKnown'
  <2>1. PICK s \in Stages : /\ Goes(c, s) /\ s \notin {"cancel", "requery", "finalize"}
                            /\ UNCHANGED seen \/ Forgets(c)
    BY <1>15 DEF ToPaid, Ends
  <2> QED BY <2>1, GoesInShape
<1>16. ASSUME NEW c \in Calls, Reload(c) PROVE CallShapes' /\ GoalsKnown'
  <2>1. PICK s \in Stages : /\ Goes(c, s) /\ s \notin {"cancel", "requery", "finalize"}
                            /\ UNCHANGED seen \/ Reads(c)
    BY <1>16 DEF Reload
  <2> QED BY <2>1, GoesInShape
<1>17. ASSUME NEW c \in Calls, Load(c) PROVE CallShapes' /\ GoalsKnown'
  <2>1. PICK s \in Stages : /\ Goes(c, s) /\ s \notin {"cancel", "requery", "finalize"}
                            /\ UNCHANGED seen \/ Forgets(c)
    BY <1>17 DEF Load
  <2> QED BY <2>1, GoesInShape
<1>18. ASSUME NEW c \in Calls, Claim(c) PROVE CallShapes' /\ GoalsKnown'
  <2>1. PICK s \in Stages : /\ Goes(c, s) /\ s \notin {"cancel", "requery", "finalize"}
                            /\ UNCHANGED seen \/ Forgets(c)
    BY <1>18 DEF Claim
  <2> QED BY <2>1, GoesInShape
<1>19. ASSUME NEW c \in Calls, Lease(c) PROVE CallShapes' /\ GoalsKnown'
  <2>1. PICK s \in Stages : /\ Goes(c, s) /\ s \notin {"cancel", "requery", "finalize"}
                            /\ UNCHANGED seen \/ Forgets(c)
    BY <1>19 DEF Lease
  <2> QED BY <2>1, GoesInShape
<1>20. ASSUME NEW c \in Calls, Lookup(c) PROVE CallShapes' /\ GoalsKnown'
  <2>1. PICK s \in Stages : /\ Goes(c, s) /\ s \notin {"cancel", "requery", "finalize"}
                            /\ UNCHANGED seen \/ Forgets(c)
    BY <1>20 DEF Lookup, DeliveryShapes
  <2> QED BY <2>1, GoesInShape
<1>21. ASSUME NEW c \in Calls, CreateCode(c) PROVE CallShapes' /\ GoalsKnown'
  <2>1. PICK s \in Stages : /\ Goes(c, s) /\ s \notin {"cancel", "requery", "finalize"}
                            /\ UNCHANGED seen \/ Forgets(c)
    BY <1>21 DEF CreateCode
  <2> QED BY <2>1, GoesInShape
<1>22. ASSUME NEW c \in Calls, Redeem(c) PROVE CallShapes' /\ GoalsKnown'
  <2>1. PICK s \in Stages : /\ Goes(c, s) /\ s \notin {"cancel", "requery", "finalize"}
                            /\ UNCHANGED seen \/ Forgets(c)
    BY <1>22 DEF Redeem
  <2> QED BY <2>1, GoesInShape
<1>23. ASSUME NEW c \in Calls, Assigned(c) PROVE CallShapes' /\ GoalsKnown'
  <2>1. PICK s \in Stages : /\ Goes(c, s) /\ s \notin {"cancel", "requery", "finalize"}
                            /\ UNCHANGED seen \/ Forgets(c)
    BY <1>23 DEF Assigned
  <2> QED BY <2>1, GoesInShape
<1>24. ASSUME NEW c \in Calls, Assign(c) PROVE CallShapes' /\ GoalsKnown'
  <2>1. PICK s \in Stages : /\ Goes(c, s) /\ s \notin {"cancel", "requery", "finalize"}
                            /\ UNCHANGED seen \/ Forgets(c)
    BY <1>24 DEF Assign
  <2> QED BY <2>1, GoesInShape
<1>25. ASSUME NEW c \in Calls, Audit(c) PROVE CallShapes' /\ GoalsKnown'
  <2>1. PICK s \in Stages : /\ Goes(c, s) /\ s \notin {"cancel", "requery", "finalize"}
                            /\ UNCHANGED seen \/ Forgets(c)
    BY <1>25 DEF Audit
  <2> QED BY <2>1, GoesInShape
<1>26. ASSUME NEW c \in Calls, Rebate(c) PROVE CallShapes' /\ GoalsKnown'
  <2>1. PICK s \in Stages : /\ Goes(c, s) /\ s \notin {"cancel", "requery", "finalize"}
                            /\ UNCHANGED seen \/ Forgets(c)
    BY <1>26 DEF Rebate
  <2> QED BY <2>1, GoesInShape
<1>27. ASSUME NEW c \in Calls, MarkCompleted(c) PROVE CallShapes' /\ GoalsKnown'
  <2>1. PICK s \in Stages : /\ Goes(c, s) /\ s \notin {"cancel", "requery", "finalize"}
                            /\ UNCHANGED seen \/ Forgets(c)
    BY <1>27 DEF MarkCompleted
  <2> QED BY <2>1, GoesInShape
<1>28. ASSUME NEW c \in Calls, MarkFailed(c) PROVE CallShapes' /\ GoalsKnown'
  <2>1. PICK s \in Stages : /\ Goes(c, s) /\ s \notin {"cancel", "requery", "finalize"}
                            /\ UNCHANGED seen \/ Forgets(c)
    BY <1>28 DEF MarkFailed
  <2> QED BY <2>1, GoesInShape
<1>29. ASSUME NEW c \in Calls, Query(c) PROVE CallShapes' /\ GoalsKnown'
  <2>1. PICK s \in Stages : /\ Goes(c, s)
                            /\ UNCHANGED seen \/ Forgets(c)
                            /\ s \in {"cancel", "requery", "finalize"} => goal[c] \in Closed
    BY <1>29 DEF Query, Answered, Closing, Keeps, GoalsKnown
  <2>2. GoalsKnown' /\ CallShapes'
    <3>1. CallShapes'
      BY <2>1, GoesInShape
    <3>2. pc' = [pc EXCEPT ![c] = s] /\ \A d \in Calls : d # c => goal'[d] = goal[d]
      BY <2>1 DEF Goes, CallShapes
    <3>3. s \in {"cancel", "requery", "finalize"} => goal'[c] = goal[c]
      BY <2>1 DEF Goes, Asking
    <3> QED BY <2>1, <3>1, <3>2, <3>3 DEF GoalsKnown, CallShapes
  <2> QED BY <2>2
<1>30. ASSUME NEW c \in Calls, SaveTradeNumber(c) PROVE CallShapes' /\ GoalsKnown'
  <2>1. PICK s \in Stages : /\ Goes(c, s) /\ s \notin {"cancel", "requery", "finalize"}
                            /\ UNCHANGED seen \/ Forgets(c)
    BY <1>30 DEF SaveTradeNumber
  <2> QED BY <2>1, GoesInShape
<1>31. ASSUME NEW c \in Calls, CancelPayment(c) PROVE CallShapes' /\ GoalsKnown'
  <2>1. PICK s \in Stages : /\ Goes(c, s)
                            /\ UNCHANGED seen \/ Forgets(c)
                            /\ s \in {"cancel", "requery", "finalize"} => goal[c] \in Closed
    BY <1>31 DEF CancelPayment, Answered, Closing, Keeps, GoalsKnown
  <2>2. GoalsKnown' /\ CallShapes'
    <3>1. CallShapes'
      BY <2>1, GoesInShape
    <3>2. pc' = [pc EXCEPT ![c] = s] /\ \A d \in Calls : d # c => goal'[d] = goal[d]
      BY <2>1 DEF Goes, CallShapes
    <3>3. s \in {"cancel", "requery", "finalize"} => goal'[c] = goal[c]
      BY <2>1 DEF Goes, Asking
    <3> QED BY <2>1, <3>1, <3>2, <3>3 DEF GoalsKnown, CallShapes
  <2> QED BY <2>2
<1>32. ASSUME NEW c \in Calls, Requery(c) PROVE CallShapes' /\ GoalsKnown'
  <2>1. PICK s \in Stages : /\ Goes(c, s)
                            /\ UNCHANGED seen \/ Forgets(c)
                            /\ s \in {"cancel", "requery", "finalize"} => goal[c] \in Closed
    BY <1>32 DEF Requery, Answered, Closing, Keeps, GoalsKnown
  <2>2. GoalsKnown' /\ CallShapes'
    <3>1. CallShapes'
      BY <2>1, GoesInShape
    <3>2. pc' = [pc EXCEPT ![c] = s] /\ \A d \in Calls : d # c => goal'[d] = goal[d]
      BY <2>1 DEF Goes, CallShapes
    <3>3. s \in {"cancel", "requery", "finalize"} => goal'[c] = goal[c]
      BY <2>1 DEF Goes, Asking
    <3> QED BY <2>1, <3>1, <3>2, <3>3 DEF GoalsKnown, CallShapes
  <2> QED BY <2>2
<1>33. ASSUME NEW c \in Calls, TouchPending(c) PROVE CallShapes' /\ GoalsKnown'
  <2>1. PICK s \in Stages : /\ Goes(c, s) /\ s \notin {"cancel", "requery", "finalize"}
                            /\ UNCHANGED seen \/ Forgets(c)
    BY <1>33 DEF TouchPending, Ends
  <2> QED BY <2>1, GoesInShape
<1>34. ASSUME NEW c \in Calls, FinalizePendingOrder(c) PROVE CallShapes' /\ GoalsKnown'
  <2>1. PICK s \in Stages : /\ Goes(c, s) /\ s \notin {"cancel", "requery", "finalize"}
                            /\ UNCHANGED seen \/ Forgets(c)
    BY <1>34 DEF FinalizePendingOrder, Ends
  <2> QED BY <2>1, GoesInShape
<1>35. ASSUME NEW c \in Calls, Crash(c) PROVE CallShapes' /\ GoalsKnown'
  <2>1. PICK s \in Stages : /\ Goes(c, s) /\ s \notin {"cancel", "requery", "finalize"}
                            /\ UNCHANGED seen \/ Forgets(c)
    BY <1>35 DEF Crash, Ends
  <2> QED BY <2>1, GoesInShape
<1>36. CASE UNCHANGED vars
  BY <1>36 DEF vars, GoalsKnown
<1> QED BY <1>1, <1>2, <1>2a, <1>3, <1>4, <1>5, <1>6, <1>7, <1>8, <1>9, <1>10,
        <1>11, <1>12, <1>13, <1>14, <1>15, <1>16, <1>17, <1>18, <1>19, <1>20,
        <1>21, <1>22, <1>23, <1>24, <1>25, <1>26, <1>27, <1>28, <1>29, <1>30,
        <1>31, <1>32, <1>33, <1>34, <1>35, <1>36
        DEF Next, Request, Reconcile, Continue, Fulfil

LEMMA ShapesKept == ASSUME Shapes, [Next]_vars PROVE Shapes'
BY RowShapesKept, OutsideShapesKept, DeliveryShapesKept, CallShapesKept DEF Shapes
-----------------------------------------------------------------------------
(* What is never taken back, and what a write finds.                       *)
Lasting ==
  /\ UNCHANGED <<kind, method>>
  /\ pay = "paid" => pay' = "paid"
  /\ Unpayable => Unpayable'
  /\ row.paid => row'.paid
  /\ (forced => forced') /\ (missed => missed')

(* The provider does not take its word back, nor the order its payment. *)
LEMMA PaymentsLast ==
  ASSUME Shapes, [Next]_vars PROVE Lasting
<1> USE DEF Shapes, OutsideShapes, Lasting, Unpayable, choice, history, provider, order, Fault
<1>0. row \in Rows
  BY DEF Shapes, RowShapes, Rows
<1> USE <1>0 DEF Writes, Is, Paid, Rows
<1>1. ASSUME NEW result \in {"processing", "paid", "failed"}, Pay(result) PROVE Lasting
  BY <1>1 DEF Pay
<1>2. CASE Age
  BY <1>2 DEF Age
<1>2a. CASE OpenCheckout
  BY <1>2a DEF OpenCheckout
<1>3. ASSUME NEW h \in Requests, NEW n \in {"processing", "paid", "failed"}, Deliver(h, n)
     
      PROVE   Lasting
  BY <1>3 DEF Deliver
<1>4. ASSUME NEW c \in Requests, Verify(c) PROVE Lasting
  BY <1>4 DEF Verify, Starts, Reads
<1>5. ASSUME NEW c \in Requests, Cancel(c) PROVE Lasting
  BY <1>5 DEF Cancel, Starts, Reads
<1>6. ASSUME NEW c \in Requests, ForceExpire(c) PROVE Lasting
  BY <1>6 DEF ForceExpire
<1>7. ASSUME NEW c \in Requests, RetryFulfillment(c) PROVE Lasting
  BY <1>7 DEF RetryFulfillment
<1>8. CASE ReconcilePending
  BY <1>8 DEF ReconcilePending, Starts, Reads
<1>9. CASE ReconcileProcessing
  BY <1>9 DEF ReconcileProcessing, Starts, Reads
<1>10. CASE ReconcileFulfillment
  BY <1>10 DEF ReconcileFulfillment
<1>11. CASE Expire
  BY <1>11 DEF Expire, Starts, Reads
<1>12. ASSUME NEW c \in Calls, Find(c) PROVE Lasting
  BY <1>12 DEF Find, Reads
<1>13. ASSUME NEW c \in Calls, MarkPaymentProcessing(c) PROVE Lasting
  BY <1>13 DEF MarkPaymentProcessing
<1>14. ASSUME NEW c \in Calls, MarkPaymentFailed(c) PROVE Lasting
  BY <1>14 DEF MarkPaymentFailed
<1>15. ASSUME NEW c \in Calls, ToPaid(c) PROVE Lasting
  BY <1>15 DEF ToPaid
<1>16. ASSUME NEW c \in Calls, Reload(c) PROVE Lasting
  BY <1>16 DEF Reload, Reads
<1>17. ASSUME NEW c \in Calls, Load(c) PROVE Lasting
  BY <1>17 DEF Load
<1>18. ASSUME NEW c \in Calls, Claim(c) PROVE Lasting
  BY <1>18 DEF Claim
<1>19. ASSUME NEW c \in Calls, Lease(c) PROVE Lasting
  BY <1>19 DEF Lease
<1>20. ASSUME NEW c \in Calls, Lookup(c) PROVE Lasting
  BY <1>20 DEF Lookup
<1>21. ASSUME NEW c \in Calls, CreateCode(c) PROVE Lasting
  BY <1>21 DEF CreateCode
<1>22. ASSUME NEW c \in Calls, Redeem(c) PROVE Lasting
  BY <1>22 DEF Redeem
<1>23. ASSUME NEW c \in Calls, Assigned(c) PROVE Lasting
  BY <1>23 DEF Assigned
<1>24. ASSUME NEW c \in Calls, Assign(c) PROVE Lasting
  BY <1>24 DEF Assign
<1>25. ASSUME NEW c \in Calls, Audit(c) PROVE Lasting
  BY <1>25 DEF Audit
<1>26. ASSUME NEW c \in Calls, Rebate(c) PROVE Lasting
  BY <1>26 DEF Rebate
<1>27. ASSUME NEW c \in Calls, MarkCompleted(c) PROVE Lasting
  BY <1>27 DEF MarkCompleted
<1>28. ASSUME NEW c \in Calls, MarkFailed(c) PROVE Lasting
  BY <1>28 DEF MarkFailed
<1>29. ASSUME NEW c \in Calls, Query(c) PROVE Lasting
  BY <1>29 DEF Query, Answered, Closing, Keeps, Forgets
<1>30. ASSUME NEW c \in Calls, SaveTradeNumber(c) PROVE Lasting
  BY <1>30 DEF SaveTradeNumber
<1>31. ASSUME NEW c \in Calls, CancelPayment(c) PROVE Lasting
  BY <1>31 DEF CancelPayment, Keeps, Forgets
<1>32. ASSUME NEW c \in Calls, Requery(c) PROVE Lasting
  BY <1>32 DEF Requery, Answered, Closing, Keeps, Forgets
<1>33. ASSUME NEW c \in Calls, TouchPending(c) PROVE Lasting
  BY <1>33 DEF TouchPending
<1>34. ASSUME NEW c \in Calls, FinalizePendingOrder(c) PROVE Lasting
  BY <1>34 DEF FinalizePendingOrder
<1>35. ASSUME NEW c \in Calls, Crash(c) PROVE Lasting
  BY <1>35 DEF Crash
<1>36. CASE UNCHANGED vars
  BY <1>36 DEF vars
<1> QED BY <1>1, <1>2, <1>2a, <1>3, <1>4, <1>5, <1>6, <1>7, <1>8, <1>9, <1>10,
        <1>11, <1>12, <1>13, <1>14, <1>15, <1>16, <1>17, <1>18, <1>19, <1>20,
        <1>21, <1>22, <1>23, <1>24, <1>25, <1>26, <1>27, <1>28, <1>29, <1>30,
        <1>31, <1>32, <1>33, <1>34, <1>35, <1>36
        DEF Next, Request, Reconcile, Continue, Fulfil

(* The order follows the payment. *)
LEMMA RowTruthKept ==
  ASSUME Shapes, RowTruth, PaymentsKnown, [Next]_vars PROVE RowTruth'
<1> USE CallsAreRequests DEF Shapes, OutsideShapes, RowTruth, PaymentsKnown,
        PaymentKnown, Unpayable, ClosedIsUnpaid, Unpaid, Open, Closed, Cancelable,
        choice, history, provider, order
<1>0. row \in Rows
  BY DEF Shapes, RowShapes, Rows
<1> USE <1>0 DEF Writes, Is, Paid, Rows, Statuses, Fulfillable
<1>1. ASSUME NEW result \in {"processing", "paid", "failed"}, Pay(result) PROVE RowTruth'
  BY <1>1 DEF Pay
<1>2. CASE Age
  BY <1>2 DEF Age
<1>2a. CASE OpenCheckout
  BY <1>2a DEF OpenCheckout
<1>3. ASSUME NEW h \in Requests, NEW n \in {"processing", "paid", "failed"}, Deliver(h, n)
     
      PROVE   RowTruth'
  BY <1>3 DEF Deliver
<1>4. ASSUME NEW c \in Requests, Verify(c) PROVE RowTruth'
  BY <1>4 DEF Verify, Starts, Reads
<1>5. ASSUME NEW c \in Requests, Cancel(c) PROVE RowTruth'
  BY <1>5 DEF Cancel, Starts, Reads
<1>6. ASSUME NEW c \in Requests, ForceExpire(c) PROVE RowTruth'
  BY <1>6 DEF ForceExpire
<1>7. ASSUME NEW c \in Requests, RetryFulfillment(c) PROVE RowTruth'
  BY <1>7 DEF RetryFulfillment
<1>8. CASE ReconcilePending
  BY <1>8 DEF ReconcilePending, Starts, Reads
<1>9. CASE ReconcileProcessing
  BY <1>9 DEF ReconcileProcessing, Starts, Reads
<1>10. CASE ReconcileFulfillment
  BY <1>10 DEF ReconcileFulfillment
<1>11. CASE Expire
  BY <1>11 DEF Expire, Starts, Reads
<1>12. ASSUME NEW c \in Calls, Find(c) PROVE RowTruth'
  BY <1>12 DEF Find, Reads
<1>13. ASSUME NEW c \in Calls, MarkPaymentProcessing(c) PROVE RowTruth'
  BY <1>13, ZenonT(60) DEF MarkPaymentProcessing
<1>14. ASSUME NEW c \in Calls, MarkPaymentFailed(c) PROVE RowTruth'
  BY <1>14 DEF MarkPaymentFailed
<1>15. ASSUME NEW c \in Calls, ToPaid(c) PROVE RowTruth'
  BY <1>15 DEF ToPaid
<1>16. ASSUME NEW c \in Calls, Reload(c) PROVE RowTruth'
  BY <1>16 DEF Reload, Reads
<1>17. ASSUME NEW c \in Calls, Load(c) PROVE RowTruth'
  BY <1>17 DEF Load
<1>18. ASSUME NEW c \in Calls, Claim(c) PROVE RowTruth'
  BY <1>18 DEF Claim, Claimable
<1>19. ASSUME NEW c \in Calls, Lease(c) PROVE RowTruth'
  BY <1>19 DEF Lease
<1>20. ASSUME NEW c \in Calls, Lookup(c) PROVE RowTruth'
  BY <1>20 DEF Lookup
<1>21. ASSUME NEW c \in Calls, CreateCode(c) PROVE RowTruth'
  BY <1>21 DEF CreateCode
<1>22. ASSUME NEW c \in Calls, Redeem(c) PROVE RowTruth'
  BY <1>22 DEF Redeem
<1>23. ASSUME NEW c \in Calls, Assigned(c) PROVE RowTruth'
  BY <1>23 DEF Assigned
<1>24. ASSUME NEW c \in Calls, Assign(c) PROVE RowTruth'
  BY <1>24 DEF Assign
<1>25. ASSUME NEW c \in Calls, Audit(c) PROVE RowTruth'
  BY <1>25 DEF Audit
<1>26. ASSUME NEW c \in Calls, Rebate(c) PROVE RowTruth'
  BY <1>26 DEF Rebate
<1>27. ASSUME NEW c \in Calls, MarkCompleted(c) PROVE RowTruth'
  BY <1>27 DEF MarkCompleted, Owns
<1>28. ASSUME NEW c \in Calls, MarkFailed(c) PROVE RowTruth'
  BY <1>28 DEF MarkFailed, Owns
<1>29. ASSUME NEW c \in Calls, Query(c) PROVE RowTruth'
  BY <1>29 DEF Query, Answered, Closing, Keeps, Forgets
<1>30. ASSUME NEW c \in Calls, SaveTradeNumber(c) PROVE RowTruth'
  BY <1>30 DEF SaveTradeNumber
<1>31. ASSUME NEW c \in Calls, CancelPayment(c) PROVE RowTruth'
  BY <1>31 DEF CancelPayment, Keeps, Forgets
<1>32. ASSUME NEW c \in Calls, Requery(c) PROVE RowTruth'
  BY <1>32 DEF Requery, Answered, Closing, Keeps, Forgets
<1>33. ASSUME NEW c \in Calls, TouchPending(c) PROVE RowTruth'
  BY <1>33 DEF TouchPending
<1>34. ASSUME NEW c \in Calls, FinalizePendingOrder(c) PROVE RowTruth'
  BY <1>34 DEF FinalizePendingOrder, GoalsKnown
<1>35. ASSUME NEW c \in Calls, Crash(c) PROVE RowTruth'
  BY <1>35 DEF Crash
<1>36. CASE UNCHANGED vars
  BY <1>36 DEF vars
<1> QED BY <1>1, <1>2, <1>2a, <1>3, <1>4, <1>5, <1>6, <1>7, <1>8, <1>9, <1>10,
        <1>11, <1>12, <1>13, <1>14, <1>15, <1>16, <1>17, <1>18, <1>19, <1>20,
        <1>21, <1>22, <1>23, <1>24, <1>25, <1>26, <1>27, <1>28, <1>29, <1>30,
        <1>31, <1>32, <1>33, <1>34, <1>35, <1>36
        DEF Next, Request, Reconcile, Continue, Fulfil

(* What a call knows of the payment stays true. *)
LEMMA PaymentKnownKept ==
  ASSUME Shapes, RowTruth, PaymentsKnown, Lasting, NEW q \in Calls, [Next]_vars
  PROVE  PaymentKnown(q)'
<1> USE CallsAreRequests DEF Shapes, CallShapes, RowTruth, Lasting, PaymentsKnown,
        PaymentKnown, Fulfilling, Cancelable, Goes, Ends
<1>1. ASSUME NEW result \in {"processing", "paid", "failed"}, Pay(result)
      PROVE  PaymentKnown(q)'
  BY <1>1 DEF Pay
<1>2. CASE Age
  BY <1>2 DEF Age
<1>2a. CASE OpenCheckout
  BY <1>2a DEF OpenCheckout
<1>3. ASSUME NEW h \in Requests, NEW n \in {"processing", "paid", "failed"}, Deliver(h, n)
     
      PROVE   PaymentKnown(q)'
  BY <1>3 DEF Deliver
<1>4. ASSUME NEW c \in Requests, Verify(c) PROVE PaymentKnown(q)'
  BY <1>4 DEF Verify, Starts, Reads
<1>5. ASSUME NEW c \in Requests, Cancel(c) PROVE PaymentKnown(q)'
  BY <1>5 DEF Cancel, Starts, Reads
<1>6. ASSUME NEW c \in Requests, ForceExpire(c) PROVE PaymentKnown(q)'
  BY <1>6 DEF ForceExpire
<1>7. ASSUME NEW c \in Requests, RetryFulfillment(c) PROVE PaymentKnown(q)'
  BY <1>7 DEF RetryFulfillment
<1>8. CASE ReconcilePending
  BY <1>8 DEF ReconcilePending, Starts, Reads
<1>9. CASE ReconcileProcessing
  BY <1>9 DEF ReconcileProcessing, Starts, Reads
<1>10. CASE ReconcileFulfillment
  BY <1>10 DEF ReconcileFulfillment
<1>11. CASE Expire
  BY <1>11 DEF Expire, Starts, Reads
<1>12. ASSUME NEW c \in Calls, Find(c) PROVE PaymentKnown(q)'
  BY <1>12 DEF Find, Reads
<1>13. ASSUME NEW c \in Calls, MarkPaymentProcessing(c) PROVE PaymentKnown(q)'
  BY <1>13 DEF MarkPaymentProcessing
<1>14. ASSUME NEW c \in Calls, MarkPaymentFailed(c) PROVE PaymentKnown(q)'
  BY <1>14 DEF MarkPaymentFailed
<1>15. ASSUME NEW c \in Calls, ToPaid(c) PROVE PaymentKnown(q)'
  BY <1>15 DEF ToPaid
<1>16. ASSUME NEW c \in Calls, Reload(c) PROVE PaymentKnown(q)'
  BY <1>16 DEF Reload, Reads
<1>17. ASSUME NEW c \in Calls, Load(c) PROVE PaymentKnown(q)'
  BY <1>17 DEF Load
<1>18. ASSUME NEW c \in Calls, Claim(c) PROVE PaymentKnown(q)'
  BY <1>18 DEF Claim, Claimable, Unpaid, Open, Closed
<1>19. ASSUME NEW c \in Calls, Lease(c) PROVE PaymentKnown(q)'
  BY <1>19 DEF Lease
<1>20. ASSUME NEW c \in Calls, Lookup(c) PROVE PaymentKnown(q)'
  BY <1>20 DEF Lookup, DeliveryShapes
<1>21. ASSUME NEW c \in Calls, CreateCode(c) PROVE PaymentKnown(q)'
  BY <1>21 DEF CreateCode
<1>22. ASSUME NEW c \in Calls, Redeem(c) PROVE PaymentKnown(q)'
  BY <1>22 DEF Redeem
<1>23. ASSUME NEW c \in Calls, Assigned(c) PROVE PaymentKnown(q)'
  BY <1>23 DEF Assigned
<1>24. ASSUME NEW c \in Calls, Assign(c) PROVE PaymentKnown(q)'
  BY <1>24 DEF Assign
<1>25. ASSUME NEW c \in Calls, Audit(c) PROVE PaymentKnown(q)'
  BY <1>25 DEF Audit
<1>26. ASSUME NEW c \in Calls, Rebate(c) PROVE PaymentKnown(q)'
  BY <1>26 DEF Rebate
<1>27. ASSUME NEW c \in Calls, MarkCompleted(c) PROVE PaymentKnown(q)'
  BY <1>27 DEF MarkCompleted
<1>28. ASSUME NEW c \in Calls, MarkFailed(c) PROVE PaymentKnown(q)'
  BY <1>28 DEF MarkFailed
<1>29. ASSUME NEW c \in Calls, Query(c) PROVE PaymentKnown(q)'
  BY <1>29 DEF Query, Answered, Closing, Keeps, Forgets, Unpayable
<1>30. ASSUME NEW c \in Calls, SaveTradeNumber(c) PROVE PaymentKnown(q)'
  BY <1>30 DEF SaveTradeNumber
<1>31. ASSUME NEW c \in Calls, CancelPayment(c) PROVE PaymentKnown(q)'
  BY <1>31 DEF CancelPayment, Keeps, Forgets, Unpayable
<1>32. ASSUME NEW c \in Calls, Requery(c) PROVE PaymentKnown(q)'
  BY <1>32 DEF Requery, Answered, Closing, Keeps, Forgets, Unpayable
<1>33. ASSUME NEW c \in Calls, TouchPending(c) PROVE PaymentKnown(q)'
  BY <1>33 DEF TouchPending
<1>34. ASSUME NEW c \in Calls, FinalizePendingOrder(c) PROVE PaymentKnown(q)'
  BY <1>34 DEF FinalizePendingOrder
<1>35. ASSUME NEW c \in Calls, Crash(c) PROVE PaymentKnown(q)'
  BY <1>35 DEF Crash
<1>36. CASE UNCHANGED vars
  BY <1>36 DEF vars
<1> QED BY <1>1, <1>2, <1>2a, <1>3, <1>4, <1>5, <1>6, <1>7, <1>8, <1>9, <1>10,
        <1>11, <1>12, <1>13, <1>14, <1>15, <1>16, <1>17, <1>18, <1>19, <1>20,
        <1>21, <1>22, <1>23, <1>24, <1>25, <1>26, <1>27, <1>28, <1>29, <1>30,
        <1>31, <1>32, <1>33, <1>34, <1>35, <1>36
        DEF Next, Request, Reconcile, Continue, Fulfil

(* What is delivered follows the code of the order. *)
LEMMA DeliveriesKept ==
  ASSUME Shapes, RowTruth, PaymentsKnown, Lasting, Deliveries, DeliveriesKnown, [Next]_vars
  PROVE  Deliveries'
<1> USE OrderAssumption, CallsAreRequests DEF Shapes, OutsideShapes, DeliveryShapes,
        Lasting, PaymentsKnown, PaymentKnown, Fulfilling, Deliveries, DeliveriesKnown,
        DeliveryKnown, choice, history, provider, order, delivery
<1>0. row \in Rows
  BY DEF Shapes, RowShapes, Rows
<1> USE <1>0 DEF Writes, Is, Paid, Rows
<1>1. ASSUME NEW result \in {"processing", "paid", "failed"}, Pay(result)
      PROVE  Deliveries'
  BY <1>1 DEF Pay
<1>2. CASE Age
  BY <1>2 DEF Age
<1>2a. CASE OpenCheckout
  BY <1>2a DEF OpenCheckout
<1>3. ASSUME NEW h \in Requests, NEW n \in {"processing", "paid", "failed"}, Deliver(h, n)
     
      PROVE   Deliveries'
  BY <1>3 DEF Deliver
<1>4. ASSUME NEW c \in Requests, Verify(c) PROVE Deliveries'
  BY <1>4 DEF Verify, Starts, Reads
<1>5. ASSUME NEW c \in Requests, Cancel(c) PROVE Deliveries'
  BY <1>5 DEF Cancel, Starts, Reads
<1>6. ASSUME NEW c \in Requests, ForceExpire(c) PROVE Deliveries'
  BY <1>6 DEF ForceExpire
<1>7. ASSUME NEW c \in Requests, RetryFulfillment(c) PROVE Deliveries'
  BY <1>7 DEF RetryFulfillment
<1>8. CASE ReconcilePending
  BY <1>8 DEF ReconcilePending, Starts, Reads
<1>9. CASE ReconcileProcessing
  BY <1>9 DEF ReconcileProcessing, Starts, Reads
<1>10. CASE ReconcileFulfillment
  BY <1>10 DEF ReconcileFulfillment
<1>11. CASE Expire
  BY <1>11 DEF Expire, Starts, Reads
<1>12. ASSUME NEW c \in Calls, Find(c) PROVE Deliveries'
  BY <1>12 DEF Find, Reads
<1>13. ASSUME NEW c \in Calls, MarkPaymentProcessing(c) PROVE Deliveries'
  BY <1>13 DEF MarkPaymentProcessing
<1>14. ASSUME NEW c \in Calls, MarkPaymentFailed(c) PROVE Deliveries'
  BY <1>14 DEF MarkPaymentFailed
<1>15. ASSUME NEW c \in Calls, ToPaid(c) PROVE Deliveries'
  BY <1>15 DEF ToPaid
<1>16. ASSUME NEW c \in Calls, Reload(c) PROVE Deliveries'
  BY <1>16 DEF Reload, Reads
<1>17. ASSUME NEW c \in Calls, Load(c) PROVE Deliveries'
  BY <1>17 DEF Load
<1>18. ASSUME NEW c \in Calls, Claim(c) PROVE Deliveries'
  BY <1>18 DEF Claim
<1>19. ASSUME NEW c \in Calls, Lease(c) PROVE Deliveries'
  BY <1>19 DEF Lease
<1>20. ASSUME NEW c \in Calls, Lookup(c) PROVE Deliveries'
  BY <1>20 DEF Lookup
<1>21. ASSUME NEW c \in Calls, CreateCode(c) PROVE Deliveries'
  BY <1>21 DEF CreateCode
<1>22. ASSUME NEW c \in Calls, Redeem(c) PROVE Deliveries'
  BY <1>22 DEF Redeem, Redeemable
<1>23. ASSUME NEW c \in Calls, Assigned(c) PROVE Deliveries'
  BY <1>23 DEF Assigned
<1>24. ASSUME NEW c \in Calls, Assign(c) PROVE Deliveries'
  BY <1>24 DEF Assign
<1>25. ASSUME NEW c \in Calls, Audit(c) PROVE Deliveries'
  BY <1>25 DEF Audit
<1>26. ASSUME NEW c \in Calls, Rebate(c) PROVE Deliveries'
  BY <1>26 DEF Rebate, RebateDue
<1>27. ASSUME NEW c \in Calls, MarkCompleted(c) PROVE Deliveries'
  BY <1>27 DEF MarkCompleted
<1>28. ASSUME NEW c \in Calls, MarkFailed(c) PROVE Deliveries'
  BY <1>28 DEF MarkFailed
<1>29. ASSUME NEW c \in Calls, Query(c) PROVE Deliveries'
  BY <1>29 DEF Query, Answered, Closing, Keeps, Forgets
<1>30. ASSUME NEW c \in Calls, SaveTradeNumber(c) PROVE Deliveries'
  BY <1>30 DEF SaveTradeNumber
<1>31. ASSUME NEW c \in Calls, CancelPayment(c) PROVE Deliveries'
  BY <1>31 DEF CancelPayment, Keeps, Forgets
<1>32. ASSUME NEW c \in Calls, Requery(c) PROVE Deliveries'
  BY <1>32 DEF Requery, Answered, Closing, Keeps, Forgets
<1>33. ASSUME NEW c \in Calls, TouchPending(c) PROVE Deliveries'
  BY <1>33 DEF TouchPending
<1>34. ASSUME NEW c \in Calls, FinalizePendingOrder(c) PROVE Deliveries'
  BY <1>34 DEF FinalizePendingOrder, GoalsKnown, Closed
<1>35. ASSUME NEW c \in Calls, Crash(c) PROVE Deliveries'
  BY <1>35 DEF Crash
<1>36. CASE UNCHANGED vars
  BY <1>36 DEF vars
<1> QED BY <1>1, <1>2, <1>2a, <1>3, <1>4, <1>5, <1>6, <1>7, <1>8, <1>9, <1>10,
        <1>11, <1>12, <1>13, <1>14, <1>15, <1>16, <1>17, <1>18, <1>19, <1>20,
        <1>21, <1>22, <1>23, <1>24, <1>25, <1>26, <1>27, <1>28, <1>29, <1>30,
        <1>31, <1>32, <1>33, <1>34, <1>35, <1>36
        DEF Next, Request, Reconcile, Continue, Fulfil

(* What a call knows of the delivery stays true. *)
LEMMA DeliveryKnownKept ==
  ASSUME Shapes, Lasting, Deliveries, DeliveriesKnown, NEW q \in Calls, [Next]_vars
  PROVE  DeliveryKnown(q)'
<1> USE OrderAssumption, CallsAreRequests DEF Shapes, CallShapes, OutsideShapes,
        DeliveryShapes, Deliveries, DeliveriesKnown, DeliveryKnown, Goes, Ends, choice, history,
        delivery
<1>1. ASSUME NEW result \in {"processing", "paid", "failed"}, Pay(result)
      PROVE  DeliveryKnown(q)'
  BY <1>1 DEF Pay
<1>2. CASE Age
  BY <1>2 DEF Age
<1>2a. CASE OpenCheckout
  BY <1>2a DEF OpenCheckout
<1>3. ASSUME NEW h \in Requests, NEW n \in {"processing", "paid", "failed"}, Deliver(h, n)
     
      PROVE   DeliveryKnown(q)'
  BY <1>3 DEF Deliver
<1>4. ASSUME NEW c \in Requests, Verify(c) PROVE DeliveryKnown(q)'
  BY <1>4 DEF Verify, Starts, Reads
<1>5. ASSUME NEW c \in Requests, Cancel(c) PROVE DeliveryKnown(q)'
  BY <1>5 DEF Cancel, Starts, Reads
<1>6. ASSUME NEW c \in Requests, ForceExpire(c) PROVE DeliveryKnown(q)'
  BY <1>6 DEF ForceExpire
<1>7. ASSUME NEW c \in Requests, RetryFulfillment(c) PROVE DeliveryKnown(q)'
  BY <1>7 DEF RetryFulfillment
<1>8. CASE ReconcilePending
  BY <1>8 DEF ReconcilePending, Starts, Reads
<1>9. CASE ReconcileProcessing
  BY <1>9 DEF ReconcileProcessing, Starts, Reads
<1>10. CASE ReconcileFulfillment
  BY <1>10 DEF ReconcileFulfillment
<1>11. CASE Expire
  BY <1>11 DEF Expire, Starts, Reads
<1>12. ASSUME NEW c \in Calls, Find(c) PROVE DeliveryKnown(q)'
  BY <1>12 DEF Find, Reads
<1>13. ASSUME NEW c \in Calls, MarkPaymentProcessing(c) PROVE DeliveryKnown(q)'
  BY <1>13 DEF MarkPaymentProcessing
<1>14. ASSUME NEW c \in Calls, MarkPaymentFailed(c) PROVE DeliveryKnown(q)'
  BY <1>14 DEF MarkPaymentFailed
<1>15. ASSUME NEW c \in Calls, ToPaid(c) PROVE DeliveryKnown(q)'
  BY <1>15 DEF ToPaid
<1>16. ASSUME NEW c \in Calls, Reload(c) PROVE DeliveryKnown(q)'
  BY <1>16 DEF Reload, Reads
<1>17. ASSUME NEW c \in Calls, Load(c) PROVE DeliveryKnown(q)'
  BY <1>17 DEF Load
<1>18. ASSUME NEW c \in Calls, Claim(c) PROVE DeliveryKnown(q)'
  BY <1>18 DEF Claim
<1>19. ASSUME NEW c \in Calls, Lease(c) PROVE DeliveryKnown(q)'
  BY <1>19 DEF Lease
<1>20. ASSUME NEW c \in Calls, Lookup(c) PROVE DeliveryKnown(q)'
  BY <1>20 DEF Lookup
<1>21. ASSUME NEW c \in Calls, CreateCode(c) PROVE DeliveryKnown(q)'
  BY <1>21 DEF CreateCode
<1>22. ASSUME NEW c \in Calls, Redeem(c) PROVE DeliveryKnown(q)'
  BY <1>22 DEF Redeem, Redeemable
<1>23. ASSUME NEW c \in Calls, Assigned(c) PROVE DeliveryKnown(q)'
  BY <1>23 DEF Assigned
<1>24. ASSUME NEW c \in Calls, Assign(c) PROVE DeliveryKnown(q)'
  BY <1>24 DEF Assign
<1>25. ASSUME NEW c \in Calls, Audit(c) PROVE DeliveryKnown(q)'
  BY <1>25 DEF Audit
<1>26. ASSUME NEW c \in Calls, Rebate(c) PROVE DeliveryKnown(q)'
  BY <1>26 DEF Rebate, RebateDue
<1>27. ASSUME NEW c \in Calls, MarkCompleted(c) PROVE DeliveryKnown(q)'
  BY <1>27 DEF MarkCompleted
<1>28. ASSUME NEW c \in Calls, MarkFailed(c) PROVE DeliveryKnown(q)'
  BY <1>28 DEF MarkFailed
<1>29. ASSUME NEW c \in Calls, Query(c) PROVE DeliveryKnown(q)'
  BY <1>29 DEF Query, Answered, Closing, Keeps, Forgets
<1>30. ASSUME NEW c \in Calls, SaveTradeNumber(c) PROVE DeliveryKnown(q)'
  BY <1>30 DEF SaveTradeNumber
<1>31. ASSUME NEW c \in Calls, CancelPayment(c) PROVE DeliveryKnown(q)'
  BY <1>31 DEF CancelPayment, Keeps, Forgets
<1>32. ASSUME NEW c \in Calls, Requery(c) PROVE DeliveryKnown(q)'
  BY <1>32 DEF Requery, Answered, Closing, Keeps, Forgets
<1>33. ASSUME NEW c \in Calls, TouchPending(c) PROVE DeliveryKnown(q)'
  BY <1>33 DEF TouchPending
<1>34. ASSUME NEW c \in Calls, FinalizePendingOrder(c) PROVE DeliveryKnown(q)'
  BY <1>34 DEF FinalizePendingOrder
<1>35. ASSUME NEW c \in Calls, Crash(c) PROVE DeliveryKnown(q)'
  BY <1>35 DEF Crash
<1>36. CASE UNCHANGED vars
  BY <1>36 DEF vars
<1> QED BY <1>1, <1>2, <1>2a, <1>3, <1>4, <1>5, <1>6, <1>7, <1>8, <1>9, <1>10,
        <1>11, <1>12, <1>13, <1>14, <1>15, <1>16, <1>17, <1>18, <1>19, <1>20,
        <1>21, <1>22, <1>23, <1>24, <1>25, <1>26, <1>27, <1>28, <1>29, <1>30,
        <1>31, <1>32, <1>33, <1>34, <1>35, <1>36
        DEF Next, Request, Reconcile, Continue, Fulfil

StaysPaid ==
  row.paid => row'.status \notin Unpaid /\ (row.status = "COMPLETED" => row' = row)

(* No step takes a paid order back, and none touches a completed one. *)
LEMMA PaidStaysKept ==
  ASSUME Shapes, RowTruth, PaymentsKnown, [Next]_vars PROVE StaysPaid
<1> USE DEF StaysPaid, Shapes, RowTruth, Unpaid, Open, Closed, choice, history, provider, order
<1>0. row \in Rows
  BY DEF Shapes, RowShapes, Rows
<1> USE <1>0 DEF Writes, Is, Paid, Rows
<1>1. ASSUME NEW result \in {"processing", "paid", "failed"}, Pay(result) PROVE StaysPaid
  BY <1>1 DEF Pay
<1>2. CASE Age
  BY <1>2 DEF Age
<1>2a. CASE OpenCheckout
  BY <1>2a DEF OpenCheckout
<1>3. ASSUME NEW h \in Requests, NEW n \in {"processing", "paid", "failed"}, Deliver(h, n)
     
      PROVE   StaysPaid
  BY <1>3 DEF Deliver
<1>4. ASSUME NEW c \in Requests, Verify(c) PROVE StaysPaid
  BY <1>4 DEF Verify, Starts, Reads
<1>5. ASSUME NEW c \in Requests, Cancel(c) PROVE StaysPaid
  BY <1>5 DEF Cancel, Starts, Reads
<1>6. ASSUME NEW c \in Requests, ForceExpire(c) PROVE StaysPaid
  BY <1>6 DEF ForceExpire
<1>7. ASSUME NEW c \in Requests, RetryFulfillment(c) PROVE StaysPaid
  BY <1>7 DEF RetryFulfillment
<1>8. CASE ReconcilePending
  BY <1>8 DEF ReconcilePending, Starts, Reads
<1>9. CASE ReconcileProcessing
  BY <1>9 DEF ReconcileProcessing, Starts, Reads
<1>10. CASE ReconcileFulfillment
  BY <1>10 DEF ReconcileFulfillment
<1>11. CASE Expire
  BY <1>11 DEF Expire, Starts, Reads
<1>12. ASSUME NEW c \in Calls, Find(c) PROVE StaysPaid
  BY <1>12 DEF Find, Reads
<1>13. ASSUME NEW c \in Calls, MarkPaymentProcessing(c) PROVE StaysPaid
  BY <1>13 DEF MarkPaymentProcessing
<1>14. ASSUME NEW c \in Calls, MarkPaymentFailed(c) PROVE StaysPaid
  BY <1>14 DEF MarkPaymentFailed
<1>15. ASSUME NEW c \in Calls, ToPaid(c) PROVE StaysPaid
  BY <1>15 DEF ToPaid
<1>16. ASSUME NEW c \in Calls, Reload(c) PROVE StaysPaid
  BY <1>16 DEF Reload, Reads
<1>17. ASSUME NEW c \in Calls, Load(c) PROVE StaysPaid
  BY <1>17 DEF Load
<1>18. ASSUME NEW c \in Calls, Claim(c) PROVE StaysPaid
  BY <1>18 DEF Claim, Claimable
<1>19. ASSUME NEW c \in Calls, Lease(c) PROVE StaysPaid
  BY <1>19 DEF Lease
<1>20. ASSUME NEW c \in Calls, Lookup(c) PROVE StaysPaid
  BY <1>20 DEF Lookup
<1>21. ASSUME NEW c \in Calls, CreateCode(c) PROVE StaysPaid
  BY <1>21 DEF CreateCode
<1>22. ASSUME NEW c \in Calls, Redeem(c) PROVE StaysPaid
  BY <1>22 DEF Redeem
<1>23. ASSUME NEW c \in Calls, Assigned(c) PROVE StaysPaid
  BY <1>23 DEF Assigned
<1>24. ASSUME NEW c \in Calls, Assign(c) PROVE StaysPaid
  BY <1>24 DEF Assign
<1>25. ASSUME NEW c \in Calls, Audit(c) PROVE StaysPaid
  BY <1>25 DEF Audit
<1>26. ASSUME NEW c \in Calls, Rebate(c) PROVE StaysPaid
  BY <1>26 DEF Rebate
<1>27. ASSUME NEW c \in Calls, MarkCompleted(c) PROVE StaysPaid
  BY <1>27 DEF MarkCompleted, Owns
<1>28. ASSUME NEW c \in Calls, MarkFailed(c) PROVE StaysPaid
  BY <1>28 DEF MarkFailed, Owns
<1>29. ASSUME NEW c \in Calls, Query(c) PROVE StaysPaid
  BY <1>29 DEF Query, Answered, Closing, Keeps, Forgets
<1>30. ASSUME NEW c \in Calls, SaveTradeNumber(c) PROVE StaysPaid
  BY <1>30 DEF SaveTradeNumber
<1>31. ASSUME NEW c \in Calls, CancelPayment(c) PROVE StaysPaid
  BY <1>31 DEF CancelPayment, Keeps, Forgets
<1>32. ASSUME NEW c \in Calls, Requery(c) PROVE StaysPaid
  BY <1>32 DEF Requery, Answered, Closing, Keeps, Forgets
<1>33. ASSUME NEW c \in Calls, TouchPending(c) PROVE StaysPaid
  BY <1>33 DEF TouchPending
<1>34. ASSUME NEW c \in Calls, FinalizePendingOrder(c) PROVE StaysPaid
  BY <1>34 DEF FinalizePendingOrder
<1>35. ASSUME NEW c \in Calls, Crash(c) PROVE StaysPaid
  BY <1>35 DEF Crash
<1>36. CASE UNCHANGED vars
  BY <1>36 DEF vars
<1> QED BY <1>1, <1>2, <1>2a, <1>3, <1>4, <1>5, <1>6, <1>7, <1>8, <1>9, <1>10,
        <1>11, <1>12, <1>13, <1>14, <1>15, <1>16, <1>17, <1>18, <1>19, <1>20,
        <1>21, <1>22, <1>23, <1>24, <1>25, <1>26, <1>27, <1>28, <1>29, <1>30,
        <1>31, <1>32, <1>33, <1>34, <1>35, <1>36
        DEF Next, Request, Reconcile, Continue, Fulfil
-----------------------------------------------------------------------------
OrderInv ==
  /\ Shapes
  /\ RowTruth /\ PaymentsKnown
  /\ Deliveries /\ DeliveriesKnown

(* The invariant holds at the start. *)
LEMMA OrderStarts == Init => OrderInv
<1> SUFFICES ASSUME Init PROVE OrderInv
  OBVIOUS
<1> USE DEF Init
<1>1. RowShapes /\ CallShapes /\ GoalsKnown
  BY NamedStatuses DEF RowShapes, CallShapes, GoalsKnown, NotRead, Stages
<1>2. OutsideShapes
  <2>1. forced \in BOOLEAN /\ missed \in BOOLEAN
    BY Zenon
  <2> QED BY <2>1, OrderAssumption DEF OutsideShapes
<1>3. DeliveryShapes
  <2>1. audit \in BOOLEAN
    BY Zenon
  <2> QED BY <2>1 DEF DeliveryShapes
<1>4. RowTruth
  BY DEF RowTruth, ClosedIsUnpaid, Unpaid, Open, Closed
<1>5. PaymentsKnown /\ Deliveries /\ DeliveriesKnown
  BY DEF PaymentsKnown, PaymentKnown, Deliveries, DeliveriesKnown, DeliveryKnown, Fulfilling
<1> QED BY <1>1, <1>2, <1>3, <1>4, <1>5 DEF OrderInv, Shapes

(* The invariant is inductive. *)
LEMMA OrderInvHolds == Spec => []OrderInv
<1>1. Init => OrderInv
  BY OrderStarts
<1>2. OrderInv /\ [Next]_vars => OrderInv'
  <2> SUFFICES ASSUME OrderInv, [Next]_vars PROVE OrderInv'
    OBVIOUS
  <2> USE DEF OrderInv
  <2>1. Shapes' /\ Lasting
    BY ShapesKept, PaymentsLast
  <2>2. RowTruth'
    BY RowTruthKept
  <2>3. PaymentsKnown'
    BY <2>1, PaymentKnownKept DEF PaymentsKnown, Lasting
  <2>4. Deliveries'
    BY <2>1, DeliveriesKept
  <2>5. DeliveriesKnown'
    BY <2>1, DeliveryKnownKept DEF DeliveriesKnown, Lasting
  <2> QED BY <2>1, <2>2, <2>3, <2>4, <2>5
<1> QED BY <1>1, <1>2, PTL DEF Spec
-----------------------------------------------------------------------------
(* The state keeps its types. *)
THEOREM OrderTypeCorrect == Spec => []OrderTypeOK
<1>1. OrderInv => OrderTypeOK
  BY DEF OrderInv, Shapes, RowShapes, OutsideShapes, DeliveryShapes, CallShapes, OrderTypeOK
<1> QED BY <1>1, OrderInvHolds, PTL

(* However many fulfilments overlap, take over, crash and repeat, the user *)
(* is credited once at most and the inviter is rewarded once at most.      *)
THEOREM OrderDeliversOnce == Spec => []DeliveredOnce
<1>1. OrderInv => DeliveredOnce
  BY DEF OrderInv, Deliveries, DeliveredOnce
<1> QED BY <1>1, OrderInvHolds, PTL

(* A completed order was delivered, and nothing is delivered that was not  *)
(* paid for.                                                               *)
THEOREM CompletedOrderIsDelivered == Spec => []CompletedIsDelivered
<1>1. OrderInv => CompletedIsDelivered
  BY DEF OrderInv, Deliveries, RowTruth, CompletedIsDelivered
<1> QED BY <1>1, OrderInvHolds, PTL

(* A closed order can no longer be paid.                                   *)
THEOREM ClosedOrderIsUnpaid == Spec => []ClosedIsUnpaid
<1>1. OrderInv => ClosedIsUnpaid
  BY DEF OrderInv, RowTruth
<1> QED BY <1>1, OrderInvHolds, PTL

(* Late failures, cancellations and expiries find a paid order changed.    *)
THEOREM PaidOrderStaysPaid == Spec => PaidStaysPaid
<1>1. OrderInv /\ [Next]_vars => [StaysPaid]_vars
  BY PaidStaysKept DEF OrderInv
<1>2. Spec => [][StaysPaid]_vars
  BY <1>1, OrderInvHolds, PTL DEF Spec
<1> QED BY <1>2 DEF PaidStaysPaid, StaysPaid
==============================================================================
