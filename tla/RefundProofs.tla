----------------------------- MODULE RefundProofs -----------------------------
(***************************************************************************)
(* The safety properties of PaymentRefund, for any administrators, amounts *)
(* and bounds.                                                             *)
(***************************************************************************)
EXTENDS PaymentRefund, TLAPS

(* The shapes of the variables, in groups that change together. *)
OrderShapes ==
  /\ status \in Statuses /\ version \in Nat
  /\ receipt \in Receipts
  /\ pending \in [version : Nat, deducted : Nat]
  /\ final \in Nat /\ balance \in Nat /\ spent \in Nat

ProviderShapes ==
  /\ method \in Methods /\ traded \in BOOLEAN
  /\ refund \in {"none", "pending", "done", "failed"} /\ refunds \in Nat

RefundStages == {"idle", "prepare", "gateway", "unknown", "complete", "fail", "defer",
                 "query", "queryPending", "completePending", "failPending"}
AdminShapes ==
  /\ pc \in [Admins -> RefundStages]
  /\ plan \in [Admins -> [status : Preparable, version : Nat, deduct : Nat]]
  /\ got \in [Admins -> Receipts]

(* An administrator who completes a refund knows that it was made, unless  *)
(* the order has no trade number: then the provider has refunded nothing.  *)
CompletesWhatIsDone ==
  /\ \A a \in Admins : pc[a] \in {"complete", "completePending"} /\ traded => refund = "done"
  /\ ~traded => refund = "none"

(* At EasyPay one administrator at a time has the refund of a traded order *)
(* in hand, and lets go of it only when nothing was refunded or when       *)
(* nobody will touch the order again.                                      *)
InHand(a) == pc[a] \in {"gateway", "unknown", "complete", "fail"}

OneAtATime ==
  method = "easypay" /\ traded =>
    /\ \A a \in Admins :
         /\ InHand(a) => status = "REFUNDING"
         /\ pc[a] \in {"gateway", "fail"} => refund = "none"
         /\ pc[a] \notin {"defer", "query", "queryPending", "completePending", "failPending"}
    /\ \A a, b \in Admins : InHand(a) /\ InHand(b) => a = b
    /\ \/ refund = "none" /\ refunds = 0 /\ status # "REFUNDED"
       \/ refund = "done" /\ refunds = 1 /\ status \in {"REFUNDING", "REFUNDED"}

Shapes == OrderShapes /\ ProviderShapes /\ AdminShapes

LEMMA MinOfTwo ==
  ASSUME NEW m \in Nat, NEW n \in Nat
  PROVE  Min2(m, n) \in Nat /\ Min2(m, n) <= m /\ Min2(m, n) <= n
BY DEF Min2

LEMMA StatusNames ==
  /\ Preparable \subseteq Statuses /\ "REFUNDING" \in Statuses /\ "REFUNDED" \in Statuses
  /\ {"COMPLETED", "REFUND_REQUESTED", "REFUND_PENDING", "REFUND_FAILED"} \subseteq Preparable
  /\ NoReceipt \in Receipts /\ NoPlan \in [status : Preparable, version : Nat, deduct : Nat]
BY DEF Preparable, Statuses, NoReceipt, Receipts, NoPlan

LEMMA EndsInShape ==
  ASSUME AdminShapes, NEW a \in Admins, Ends(a) PROVE AdminShapes'
BY StatusNames DEF AdminShapes, RefundStages, Ends, Goes
-----------------------------------------------------------------------------
(* The order and the balance keep their shape. *)
LEMMA OrderShapesKept ==
  ASSUME Shapes, [Next]_vars PROVE OrderShapes'
<1> USE StatusNames, RefundAssumption DEF Shapes, OrderShapes, AdminShapes, Becomes,
        Receipts, order, rights, deal
<1>1. CASE Spend
  BY <1>1 DEF Spend
<1>2. CASE RequestRefund
  BY <1>2 DEF RequestRefund
<1>3. CASE Settle
  BY <1>3 DEF Settle
<1>4. ASSUME NEW a \in Admins, Plan(a) PROVE OrderShapes'
  BY <1>4 DEF Plan
<1>5. ASSUME NEW a \in Admins, Prepare(a) PROVE OrderShapes'
  <2>1. Min2(plan[a].deduct, balance) \in Nat /\ Min2(plan[a].deduct, balance) <= balance
    BY <1>5, MinOfTwo
  <2>2. CASE status = plan[a].status /\ version = plan[a].version
    BY <1>5, <2>1, <2>2 DEF Prepare, Prepared, Deducts
  <2>3. CASE ~(status = plan[a].status /\ version = plan[a].version)
    BY <1>5, <2>3 DEF Prepare
  <2> QED BY <2>2, <2>3
<1>6. ASSUME NEW a \in Admins, Gateway(a) PROVE OrderShapes'
  BY <1>6 DEF Gateway, Submit
<1>7. ASSUME NEW a \in Admins, Unknown(a) PROVE OrderShapes'
  BY <1>7 DEF Unknown
<1>8. ASSUME NEW a \in Admins, Complete(a) PROVE OrderShapes'
  BY <1>8 DEF Complete, Conflict
<1>9. ASSUME NEW a \in Admins, CompensateFailure(a) PROVE OrderShapes'
  BY <1>9 DEF CompensateFailure, Conflict, GivesBack, Deducts
<1>10. ASSUME NEW a \in Admins, Defer(a) PROVE OrderShapes'
  BY <1>10 DEF Defer, Conflict, GivesBack, Deducts
<1>11. ASSUME NEW a \in Admins, QueryStart(a) PROVE OrderShapes'
  BY <1>11 DEF QueryStart
<1>12. ASSUME NEW a \in Admins, QueryRefund(a) PROVE OrderShapes'
  BY <1>12 DEF QueryRefund
<1>13. ASSUME NEW a \in Admins, CompletePending(a) PROVE OrderShapes'
  <2>1. Min2(plan[a].deduct, balance) \in Nat /\ Min2(plan[a].deduct, balance) <= balance
    BY <1>13, MinOfTwo
  <2> QED BY <1>13, <2>1 DEF CompletePending, Deducts, Conflict
<1>14. ASSUME NEW a \in Admins, FailPendingRefund(a) PROVE OrderShapes'
  BY <1>14 DEF FailPendingRefund, Conflict
<1>15. ASSUME NEW a \in Admins, Crash(a) PROVE OrderShapes'
  BY <1>15 DEF Crash
<1>16. CASE UNCHANGED vars
  BY <1>16 DEF vars
<1> QED BY <1>1, <1>2, <1>3, <1>4, <1>5, <1>6, <1>7, <1>8, <1>9, <1>10,
        <1>11, <1>12, <1>13, <1>14, <1>15, <1>16 DEF Next, Administer

(* The provider keeps its shape. *)
LEMMA ProviderShapesKept ==
  ASSUME Shapes, [Next]_vars PROVE ProviderShapes'
<1> USE DEF Shapes, ProviderShapes, provider, deal
<1>1. CASE Spend
  BY <1>1 DEF Spend
<1>2. CASE RequestRefund
  BY <1>2 DEF RequestRefund
<1>3. CASE Settle
  BY <1>3 DEF Settle
<1>4. ASSUME NEW a \in Admins, Plan(a) PROVE ProviderShapes'
  BY <1>4 DEF Plan
<1>5. ASSUME NEW a \in Admins, Prepare(a) PROVE ProviderShapes'
  BY <1>5 DEF Prepare
<1>6. ASSUME NEW a \in Admins, Gateway(a) PROVE ProviderShapes'
  BY <1>6 DEF Gateway, Submit, Accept
<1>7. ASSUME NEW a \in Admins, Unknown(a) PROVE ProviderShapes'
  BY <1>7 DEF Unknown
<1>8. ASSUME NEW a \in Admins, Complete(a) PROVE ProviderShapes'
  BY <1>8 DEF Complete
<1>9. ASSUME NEW a \in Admins, CompensateFailure(a) PROVE ProviderShapes'
  BY <1>9 DEF CompensateFailure
<1>10. ASSUME NEW a \in Admins, Defer(a) PROVE ProviderShapes'
  BY <1>10 DEF Defer
<1>11. ASSUME NEW a \in Admins, QueryStart(a) PROVE ProviderShapes'
  BY <1>11 DEF QueryStart
<1>12. ASSUME NEW a \in Admins, QueryRefund(a) PROVE ProviderShapes'
  BY <1>12 DEF QueryRefund
<1>13. ASSUME NEW a \in Admins, CompletePending(a) PROVE ProviderShapes'
  BY <1>13 DEF CompletePending
<1>14. ASSUME NEW a \in Admins, FailPendingRefund(a) PROVE ProviderShapes'
  BY <1>14 DEF FailPendingRefund
<1>15. ASSUME NEW a \in Admins, Crash(a) PROVE ProviderShapes'
  BY <1>15 DEF Crash
<1>16. CASE UNCHANGED vars
  BY <1>16 DEF vars
<1> QED BY <1>1, <1>2, <1>3, <1>4, <1>5, <1>6, <1>7, <1>8, <1>9, <1>10,
        <1>11, <1>12, <1>13, <1>14, <1>15, <1>16 DEF Next, Administer

(* The administrators keep their shape. *)
LEMMA AdminShapesKept ==
  ASSUME Shapes, [Next]_vars PROVE AdminShapes'
<1> USE StatusNames DEF Shapes, OrderShapes, AdminShapes, RefundStages, Goes, Ends, own, deal
<1>1. CASE Spend
  BY <1>1 DEF Spend
<1>2. CASE RequestRefund
  BY <1>2 DEF RequestRefund
<1>3. CASE Settle
  BY <1>3 DEF Settle
<1>4. ASSUME NEW a \in Admins, Plan(a) PROVE AdminShapes'
  <2>1. Min2(Amount, balance) \in Nat
    BY MinOfTwo, RefundAssumption
  <2> QED BY <1>4, <2>1 DEF Plan
<1>5. ASSUME NEW a \in Admins, Prepare(a) PROVE AdminShapes'
  <2>1. Min2(plan[a].deduct, balance) \in Nat
    BY <1>5, MinOfTwo
  <2>2. CASE status = plan[a].status /\ version = plan[a].version
    <3>1. status \in Preparable /\ Prepared(a) \in Receipts
      BY <1>5, <2>1, <2>2 DEF Prepared, Receipts
    <3> QED BY <1>5, <2>2, <3>1 DEF Prepare
  <2>3. CASE ~(status = plan[a].status /\ version = plan[a].version)
    <3>1. Ends(a)
      BY <1>5, <2>3 DEF Prepare
    <3> QED BY <3>1, EndsInShape
  <2> QED BY <2>2, <2>3
<1>6. ASSUME NEW a \in Admins, Gateway(a) PROVE AdminShapes'
  BY <1>6 DEF Gateway, Submit
<1>7. ASSUME NEW a \in Admins, Unknown(a) PROVE AdminShapes'
  BY <1>7 DEF Unknown
<1>8. ASSUME NEW a \in Admins, Complete(a) PROVE AdminShapes'
  BY <1>8 DEF Complete, Conflict
<1>9. ASSUME NEW a \in Admins, CompensateFailure(a) PROVE AdminShapes'
  BY <1>9 DEF CompensateFailure, Conflict
<1>10. ASSUME NEW a \in Admins, Defer(a) PROVE AdminShapes'
  BY <1>10 DEF Defer, Conflict
<1>11. ASSUME NEW a \in Admins, QueryStart(a) PROVE AdminShapes'
  <2>1. [NoReceipt EXCEPT !.version = pending.version] \in Receipts
    BY DEF NoReceipt, Receipts
  <2>2. CASE status = "REFUNDING" /\ Goes(a, "query")
    BY <1>11, <2>2 DEF QueryStart
  <2>3. CASE status = "REFUND_PENDING" /\ Goes(a, "queryPending")
    <3>1. status \in Preparable
      BY <2>3
    <3>2. plan' \in [Admins -> [status : Preparable, version : Nat, deduct : Nat]]
      BY <1>11, <2>3, <3>1 DEF QueryStart
    <3>3. got' \in [Admins -> Receipts]
      BY <1>11, <2>1, <2>3 DEF QueryStart
    <3>4. pc' \in [Admins -> RefundStages]
      BY <2>3
    <3> QED BY <3>2, <3>3, <3>4
  <2> QED BY <1>11, <2>2, <2>3 DEF QueryStart
<1>12. ASSUME NEW a \in Admins, QueryRefund(a) PROVE AdminShapes'
  BY <1>12 DEF QueryRefund, Answers
<1>13. ASSUME NEW a \in Admins, CompletePending(a) PROVE AdminShapes'
  <2>1. Ends(a)
    BY <1>13 DEF CompletePending, Conflict
  <2> QED BY <2>1, EndsInShape
<1>14. ASSUME NEW a \in Admins, FailPendingRefund(a) PROVE AdminShapes'
  <2>1. Ends(a)
    BY <1>14 DEF FailPendingRefund, Conflict
  <2> QED BY <2>1, EndsInShape
<1>15. ASSUME NEW a \in Admins, Crash(a) PROVE AdminShapes'
  BY <1>15 DEF Crash
<1>16. CASE UNCHANGED vars
  BY <1>16 DEF vars
<1> QED BY <1>1, <1>2, <1>3, <1>4, <1>5, <1>6, <1>7, <1>8, <1>9, <1>10,
        <1>11, <1>12, <1>13, <1>14, <1>15, <1>16 DEF Next, Administer

LEMMA ShapesKept == ASSUME Shapes, [Next]_vars PROVE Shapes'
BY OrderShapesKept, ProviderShapesKept, AdminShapesKept DEF Shapes
-----------------------------------------------------------------------------
(* What is taken and given back is what the order says. *)
LEMMA BalanceKept ==
  ASSUME Shapes, BalanceExplained, [Next]_vars PROVE BalanceExplained'
<1> USE RefundAssumption DEF Shapes, OrderShapes, AdminShapes, BalanceExplained, Taken,
        Becomes, Preparable, order, rights, deal
<1>1. CASE Spend
  BY <1>1 DEF Spend
<1>2. CASE RequestRefund
  BY <1>2 DEF RequestRefund
<1>3. CASE Settle
  BY <1>3 DEF Settle
<1>4. ASSUME NEW a \in Admins, Plan(a) PROVE BalanceExplained'
  BY <1>4 DEF Plan
<1>5. ASSUME NEW a \in Admins, Prepare(a) PROVE BalanceExplained'
  <2>1. Min2(plan[a].deduct, balance) \in Nat
    BY <1>5, MinOfTwo
  <2>2. CASE status = plan[a].status /\ version = plan[a].version
    <3>1. status \in Preparable
      BY <1>5, <2>2
    <3> QED BY <1>5, <2>1, <2>2, <3>1 DEF Prepare, Prepared, Deducts
  <2>3. CASE ~(status = plan[a].status /\ version = plan[a].version)
    BY <1>5, <2>3 DEF Prepare
  <2> QED BY <2>2, <2>3
<1>6. ASSUME NEW a \in Admins, Gateway(a) PROVE BalanceExplained'
  BY <1>6 DEF Gateway, Submit
<1>7. ASSUME NEW a \in Admins, Unknown(a) PROVE BalanceExplained'
  BY <1>7 DEF Unknown
<1>8. ASSUME NEW a \in Admins, Complete(a) PROVE BalanceExplained'
  BY <1>8 DEF Complete, Conflict, Expected, Receipts
<1>9. ASSUME NEW a \in Admins, CompensateFailure(a) PROVE BalanceExplained'
  BY <1>9 DEF CompensateFailure, Conflict, Expected, GivesBack, Deducts, Receipts
<1>10. ASSUME NEW a \in Admins, Defer(a) PROVE BalanceExplained'
  BY <1>10 DEF Defer, Conflict, Expected, GivesBack, Deducts, Receipts
<1>11. ASSUME NEW a \in Admins, QueryStart(a) PROVE BalanceExplained'
  BY <1>11 DEF QueryStart
<1>12. ASSUME NEW a \in Admins, QueryRefund(a) PROVE BalanceExplained'
  BY <1>12 DEF QueryRefund
<1>13. ASSUME NEW a \in Admins, CompletePending(a) PROVE BalanceExplained'
  <2>1. Min2(plan[a].deduct, balance) \in Nat
    BY <1>13, MinOfTwo
  <2> QED BY <1>13, <2>1 DEF CompletePending, Deducts, ExpectedPending, Conflict
<1>14. ASSUME NEW a \in Admins, FailPendingRefund(a) PROVE BalanceExplained'
  BY <1>14 DEF FailPendingRefund, Conflict, ExpectedPending
<1>15. ASSUME NEW a \in Admins, Crash(a) PROVE BalanceExplained'
  BY <1>15 DEF Crash
<1>16. CASE UNCHANGED vars
  BY <1>16 DEF vars
<1> QED BY <1>1, <1>2, <1>3, <1>4, <1>5, <1>6, <1>7, <1>8, <1>9, <1>10,
        <1>11, <1>12, <1>13, <1>14, <1>15, <1>16 DEF Next, Administer

(* A refund that was made stays made. *)
LEMMA DoneKept ==
  ASSUME Shapes, CompletesWhatIsDone, RefundedAtProvider, [Next]_vars
  PROVE  (CompletesWhatIsDone /\ RefundedAtProvider)'
<1> USE DEF Shapes, AdminShapes, OrderShapes, CompletesWhatIsDone, RefundedAtProvider,
        Becomes, Goes, Ends, order, provider, deal
<1>1. CASE Spend
  BY <1>1 DEF Spend
<1>2. CASE RequestRefund
  BY <1>2 DEF RequestRefund
<1>3. CASE Settle
  BY <1>3 DEF Settle
<1>4. ASSUME NEW a \in Admins, Plan(a) PROVE (CompletesWhatIsDone /\ RefundedAtProvider)'
  BY <1>4 DEF Plan
<1>5. ASSUME NEW a \in Admins, Prepare(a)
      PROVE  (CompletesWhatIsDone /\ RefundedAtProvider)'
  BY <1>5 DEF Prepare
<1>6. ASSUME NEW a \in Admins, Gateway(a)
      PROVE  (CompletesWhatIsDone /\ RefundedAtProvider)'
  BY <1>6 DEF Gateway, Submit, Accept
<1>7. ASSUME NEW a \in Admins, Unknown(a)
      PROVE  (CompletesWhatIsDone /\ RefundedAtProvider)'
  BY <1>7 DEF Unknown
<1>8. ASSUME NEW a \in Admins, Complete(a)
      PROVE  (CompletesWhatIsDone /\ RefundedAtProvider)'
  BY <1>8 DEF Complete, Conflict
<1>9. ASSUME NEW a \in Admins, CompensateFailure(a)
      PROVE  (CompletesWhatIsDone /\ RefundedAtProvider)'
  BY <1>9 DEF CompensateFailure, Conflict
<1>10. ASSUME NEW a \in Admins, Defer(a)
      PROVE  (CompletesWhatIsDone /\ RefundedAtProvider)'
  BY <1>10 DEF Defer, Conflict
<1>11. ASSUME NEW a \in Admins, QueryStart(a)
      PROVE  (CompletesWhatIsDone /\ RefundedAtProvider)'
  BY <1>11 DEF QueryStart
<1>12. ASSUME NEW a \in Admins, QueryRefund(a)
      PROVE  (CompletesWhatIsDone /\ RefundedAtProvider)'
  BY <1>12 DEF QueryRefund, Answers
<1>13. ASSUME NEW a \in Admins, CompletePending(a)
      PROVE  (CompletesWhatIsDone /\ RefundedAtProvider)'
  BY <1>13 DEF CompletePending, Conflict
<1>14. ASSUME NEW a \in Admins, FailPendingRefund(a)
      PROVE  (CompletesWhatIsDone /\ RefundedAtProvider)'
  BY <1>14 DEF FailPendingRefund, Conflict
<1>15. ASSUME NEW a \in Admins, Crash(a)
      PROVE  (CompletesWhatIsDone /\ RefundedAtProvider)'
  BY <1>15 DEF Crash
<1>16. CASE UNCHANGED vars
  BY <1>16 DEF vars
<1> QED BY <1>1, <1>2, <1>3, <1>4, <1>5, <1>6, <1>7, <1>8, <1>9, <1>10,
        <1>11, <1>12, <1>13, <1>14, <1>15, <1>16 DEF Next, Administer

(* At EasyPay nobody takes a refund over. *)
LEMMA OneAtATimeKept ==
  ASSUME Shapes, CompletesWhatIsDone, OneAtATime, [Next]_vars PROVE OneAtATime'
<1> USE DEF Shapes, AdminShapes, OneAtATime, CompletesWhatIsDone, InHand, Becomes, Goes,
        Ends, order, provider, deal, Preparable
<1>1. CASE Spend
  BY <1>1 DEF Spend
<1>2. CASE RequestRefund
  BY <1>2 DEF RequestRefund
<1>3. CASE Settle
  BY <1>3 DEF Settle
<1>4. ASSUME NEW a \in Admins, Plan(a) PROVE OneAtATime'
  BY <1>4 DEF Plan
<1>5. ASSUME NEW a \in Admins, Prepare(a) PROVE OneAtATime'
  BY <1>5 DEF Prepare
<1>6. ASSUME NEW a \in Admins, Gateway(a) PROVE OneAtATime'
  BY <1>6 DEF Gateway, Submit, Accept
<1>7. ASSUME NEW a \in Admins, Unknown(a) PROVE OneAtATime'
  BY <1>7 DEF Unknown
<1>8. ASSUME NEW a \in Admins, Complete(a) PROVE OneAtATime'
  BY <1>8 DEF Complete, Conflict
<1>9. ASSUME NEW a \in Admins, CompensateFailure(a) PROVE OneAtATime'
  BY <1>9 DEF CompensateFailure, Conflict
<1>10. ASSUME NEW a \in Admins, Defer(a) PROVE OneAtATime'
  BY <1>10 DEF Defer, Conflict
<1>11. ASSUME NEW a \in Admins, QueryStart(a) PROVE OneAtATime'
  BY <1>11 DEF QueryStart
<1>12. ASSUME NEW a \in Admins, QueryRefund(a) PROVE OneAtATime'
  BY <1>12 DEF QueryRefund, Answers
<1>13. ASSUME NEW a \in Admins, CompletePending(a) PROVE OneAtATime'
  BY <1>13 DEF CompletePending, Conflict
<1>14. ASSUME NEW a \in Admins, FailPendingRefund(a) PROVE OneAtATime'
  BY <1>14 DEF FailPendingRefund, Conflict
<1>15. ASSUME NEW a \in Admins, Crash(a) PROVE OneAtATime'
  BY <1>15 DEF Crash
<1>16. CASE UNCHANGED vars
  BY <1>16 DEF vars
<1> QED BY <1>1, <1>2, <1>3, <1>4, <1>5, <1>6, <1>7, <1>8, <1>9, <1>10,
        <1>11, <1>12, <1>13, <1>14, <1>15, <1>16 DEF Next, Administer
-----------------------------------------------------------------------------
RefundInv ==
  /\ Shapes /\ BalanceExplained
  /\ CompletesWhatIsDone /\ RefundedAtProvider /\ OneAtATime

(* The invariant holds at the start. *)
LEMMA RefundStarts == Init => RefundInv
<1> SUFFICES ASSUME Init PROVE RefundInv
  OBVIOUS
<1>1. Shapes
  BY StatusNames, RefundAssumption
  DEF Init, Shapes, OrderShapes, ProviderShapes, AdminShapes, RefundStages, NoPending
<1>2. BalanceExplained
  BY RefundAssumption DEF Init, BalanceExplained, Taken
<1>3. CompletesWhatIsDone /\ RefundedAtProvider /\ OneAtATime
  BY DEF Init, CompletesWhatIsDone, RefundedAtProvider, OneAtATime, InHand
<1> QED BY <1>1, <1>2, <1>3 DEF RefundInv

(* The invariant is inductive. *)
LEMMA RefundInvHolds == Spec => []RefundInv
<1>1. Init => RefundInv
  BY RefundStarts
<1>2. RefundInv /\ [Next]_vars => RefundInv'
  BY ShapesKept, BalanceKept, DoneKept, OneAtATimeKept DEF RefundInv
<1> QED BY <1>1, <1>2, PTL DEF Spec
-----------------------------------------------------------------------------
(* The state keeps its types; the balance never falls below zero.          *)
THEOREM RefundTypeCorrect == Spec => []RefundTypeOK
<1>1. RefundInv => RefundTypeOK
  BY DEF RefundInv, Shapes, OrderShapes, ProviderShapes, AdminShapes, RefundStages, RefundTypeOK
<1> QED BY <1>1, RefundInvHolds, PTL

(* The balance lacks exactly what the order records as taken.              *)
THEOREM DeductionsAreExplained == Spec => []BalanceExplained
BY RefundInvHolds, PTL DEF RefundInv

(* An order with a trade number is marked refunded only when the provider  *)
(* has refunded it, whoever completes the refund; the provider is never    *)
(* asked to refund one without.                                            *)
THEOREM RefundedOrderIsRefunded == Spec => []RefundedAtProvider
BY RefundInvHolds, PTL DEF RefundInv

(* Where the adapter tells a refusal from an unknown outcome, the provider *)
(* refunds once and the credit stays taken.                                *)
THEOREM UnknownOutcomeKeepsDeduction == Spec => []UnknownKeepsDeduction
<1>1. RefundInv => UnknownKeepsDeduction
  BY DEF RefundInv, Shapes, ProviderShapes, CompletesWhatIsDone, OneAtATime,
         UnknownKeepsDeduction
<1> QED BY <1>1, RefundInvHolds, PTL
==============================================================================
