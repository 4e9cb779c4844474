---------------------------- MODULE PaymentRefund ----------------------------
(***************************************************************************)
(* The refund of a completed balance order: administrators prepare it,     *)
(* which takes the credit back from the user, call the provider, and       *)
(* complete or compensate it in a second transaction.  Between the two     *)
(* anything may happen: another administrator, a process that stops, a     *)
(* reply that is lost, usage that spends the balance.  A refund the        *)
(* provider keeps pending is settled by a later query.                     *)
(***************************************************************************)
EXTENDS Integers

CONSTANTS Admins,
          Methods,      \* families of providers
          Balance,      \* of the user when the order is completed
          Amount,       \* of the refund
          MaxVersion    \* bound: updates of the order

ASSUME RefundAssumption ==
  /\ Methods \subseteq {"wechat", "easypay"}
  /\ Balance \in Nat /\ Amount \in Nat \ {0} /\ MaxVersion \in Nat

VARIABLES
  method,
  traded,    \* the order holds the provider's number of its payment
  status, version,  \* of the order; the version is its updated_at
  receipt,   \* the last REFUND_PREPARED record
  pending,   \* the last REFUND_PENDING record
  final,     \* the deduction that REFUND_SUCCESS records
  balance, spent,
  refund,    \* the refund at the provider
  refunds,   \* refunds the provider executed
  pc, plan, got   \* of each administrator: stage, order read, receipt held

vars == <<method, traded, status, version, receipt, pending, final, balance, spent,
          refund, refunds, pc, plan, got>>
deal == <<method, traded>>
order == <<status, version, receipt, pending, final>>
provider == <<refund, refunds>>
rights == <<balance, spent>>
own == <<plan, got>>

Preparable == {"COMPLETED", "REFUND_REQUESTED", "REFUND_PENDING", "REFUND_FAILED"}
Statuses == Preparable \cup {"REFUNDING", "REFUNDED"}

NoReceipt == [version |-> 0, previous |-> "COMPLETED", deducted |-> 0]
NoPending == [version |-> 0, deducted |-> 0]
NoPlan == [status |-> "COMPLETED", version |-> 0, deduct |-> 0]

Min2(a, b) == IF a <= b THEN a ELSE b

Init ==
  /\ method \in Methods /\ traded \in BOOLEAN
  /\ status = "COMPLETED" /\ version = 1
  /\ receipt = NoReceipt /\ pending = NoPending /\ final = 0
  /\ balance = Balance /\ spent = 0
  /\ refund = "none" /\ refunds = 0
  /\ pc = [a \in Admins |-> "idle"]
  /\ plan = [a \in Admins |-> NoPlan]
  /\ got = [a \in Admins |-> NoReceipt]

Goes(a, stage) == pc' = [pc EXCEPT ![a] = stage]
Ends(a) ==
  /\ Goes(a, "idle")
  /\ plan' = [plan EXCEPT ![a] = NoPlan]
  /\ got' = [got EXCEPT ![a] = NoReceipt]

Becomes(new) == status' = new /\ version' = version + 1

(* DeductAvailableBalance takes what there is. *)
Deducts(amount) == balance' = balance - amount /\ UNCHANGED spent
-----------------------------------------------------------------------------
Spend ==
  /\ balance > 0
  /\ balance' = balance - 1 /\ spent' = spent + 1
  /\ UNCHANGED <<deal, order, provider, pc, own>>

(* RequestRefund of the user: a conditional update. *)
RequestRefund ==
  /\ version < MaxVersion
  /\ status = "COMPLETED" /\ balance >= Amount
  /\ Becomes("REFUND_REQUESTED")
  /\ UNCHANGED <<deal, receipt, pending, final, rights, provider, pc, own>>

(* PrepareRefund of the workflow: the order and the balance are read.      *)
(* Without force a balance too small ends here; without deduction nothing  *)
(* is taken.                                                               *)
Plan(a) ==
  /\ pc[a] = "idle" /\ version < MaxVersion
  /\ status \in Preparable
  /\ \E deduct \in {0, Min2(Amount, balance)} :
       plan' = [plan EXCEPT ![a] =
                  [status |-> status, version |-> version, deduct |-> deduct]]
  /\ Goes(a, "prepare")
  /\ UNCHANGED <<deal, order, rights, provider, got>>

Prepared(a) ==
  [version |-> version + 1, previous |-> status,
   deducted |-> Min2(plan[a].deduct, balance)]

(* PrepareRefund of the store: one transaction claims the order as it was  *)
(* read, takes the credit and writes the receipt.                          *)
Prepare(a) ==
  /\ pc[a] = "prepare"
  /\ \/ /\ status = plan[a].status /\ version = plan[a].version
        /\ Becomes("REFUNDING")
        /\ Deducts(Min2(plan[a].deduct, balance))
        /\ receipt' = Prepared(a)
        /\ got' = [got EXCEPT ![a] = receipt']
        /\ plan' = [plan EXCEPT ![a] = NoPlan]
        /\ Goes(a, "gateway")
     \/ /\ status # plan[a].status \/ version # plan[a].version
        /\ Ends(a)
        /\ UNCHANGED <<status, version, receipt, rights>>
  /\ UNCHANGED <<deal, pending, final, provider>>
-----------------------------------------------------------------------------
(* The provider.  A refund it has accepted is answered again as it stands  *)
(* where the request carries a refund number, and made again by EasyPay.   *)
Accept(result) ==
  \/ /\ refund = "none" \/ method = "easypay"
     /\ refund' = result
     /\ refunds' = IF result = "done" THEN refunds + 1 ELSE refunds
  \/ /\ refund = result /\ method # "easypay"
     /\ UNCHANGED provider

(* The reply of EasyPay is success, an explicit refusal, or unknown; that  *)
(* of the others is success, pending, or an error that says nothing.       *)
Submit(a) ==
  \/ Accept("done") /\ Goes(a, "complete")
  \/ method = "easypay" /\ Accept("done") /\ Goes(a, "unknown")
  \/ method # "easypay" /\ Accept("pending") /\ Goes(a, "defer")
  \/ method # "easypay" /\ Accept("failed") /\ Goes(a, "defer")
  \/ method # "easypay" /\ (Accept("pending") \/ Accept("done")) /\ Goes(a, "fail")
  \/ UNCHANGED provider /\ Goes(a, "fail")
  \/ method = "easypay" /\ UNCHANGED provider /\ Goes(a, "unknown")

(* GwRefund: an order without a trade number is answered as refunded, and  *)
(* the provider is not asked.                                              *)
Gateway(a) ==
  /\ pc[a] = "gateway"
  /\ \/ traded /\ Submit(a)
     \/ ~traded /\ UNCHANGED provider /\ Goes(a, "complete")
  /\ UNCHANGED <<deal, order, rights, own>>

Settle ==
  /\ refund = "pending"
  /\ refund' \in {"done", "failed"}
  /\ refunds' = IF refund' = "done" THEN refunds + 1 ELSE refunds
  /\ UNCHANGED <<deal, order, rights, pc, own>>

(* Mutant: an unknown outcome is compensated like a failure. *)
UnknownCompensates(a) ==
  /\ pc[a] = "unknown"
  /\ Goes(a, "fail")
  /\ UNCHANGED <<deal, order, rights, provider, own>>

(* ErrRefundOutcomeUnknown: the order stays as it is for recovery. *)
Unknown(a) ==
  /\ pc[a] = "unknown"
  /\ Ends(a)
  /\ UNCHANGED <<deal, order, rights, provider>>

(* Mutant: only the status is compared. *)
ExpectedByStatus(a) == status = "REFUNDING"

(* expected: the receipt is still the last one and the order has not been  *)
(* written since.                                                          *)
Expected(a) ==
  /\ receipt = got[a]
  /\ status = "REFUNDING" /\ version = got[a].version

Conflict(a) == Ends(a) /\ UNCHANGED <<order, rights>>

(* CompleteRefund of a prepared refund. *)
Complete(a) ==
  /\ pc[a] = "complete"
  /\ \/ /\ Expected(a)
        /\ Becomes("REFUNDED") /\ final' = got[a].deducted
        /\ Ends(a) /\ UNCHANGED <<receipt, pending, rights>>
     \/ ~Expected(a) /\ Conflict(a)
  /\ UNCHANGED <<deal, provider>>

GivesBack(a) == Deducts(-got[a].deducted)

(* CompensateRefund of a failure returns the order to where it came from,  *)
(* which is COMPLETED unless the user had asked for the refund.            *)
CompensateFailure(a) ==
  /\ pc[a] = "fail"
  /\ \/ /\ Expected(a)
        /\ Becomes(IF got[a].previous = "REFUND_REQUESTED"
                     THEN "REFUND_REQUESTED" ELSE "COMPLETED")
        /\ GivesBack(a)
        /\ Ends(a) /\ UNCHANGED <<receipt, pending, final>>
     \/ ~Expected(a) /\ Conflict(a)
  /\ UNCHANGED <<deal, provider>>

(* CompensateRefund of a pending refund gives the credit back until the    *)
(* provider has decided, and notes how much.                               *)
Defer(a) ==
  /\ pc[a] = "defer"
  /\ \/ /\ Expected(a)
        /\ Becomes("REFUND_PENDING")
        /\ pending' = [version |-> got[a].version, deducted |-> got[a].deducted]
        /\ GivesBack(a)
        /\ Ends(a) /\ UNCHANGED <<receipt, final>>
     \/ ~Expected(a) /\ Conflict(a)
  /\ UNCHANGED <<deal, provider>>
-----------------------------------------------------------------------------
(* QueryAndFinalizeRefund: the order is read with the receipt of a refund  *)
(* that was interrupted, or with the record of a pending one.              *)
QueryStart(a) ==
  /\ pc[a] = "idle" /\ method # "easypay"
  /\ \/ /\ status = "REFUNDING" /\ receipt.version = version
        /\ got' = [got EXCEPT ![a] = receipt]
        /\ Goes(a, "query") /\ UNCHANGED plan
     \/ /\ status = "REFUND_PENDING" /\ pending.version = receipt.version
        /\ plan' = [plan EXCEPT ![a] =
                      [status |-> status, version |-> version, deduct |-> pending.deducted]]
        /\ got' = [got EXCEPT ![a] = [NoReceipt EXCEPT !.version = pending.version]]
        /\ Goes(a, "queryPending")
  /\ UNCHANGED <<deal, order, rights, provider>>

(* Mutant: a pending answer passes for success. *)
AnswersPendingDone(a, done, failed, waiting) ==
  \/ refund \in {"done", "pending"} /\ Goes(a, done)
  \/ refund = "failed" /\ Goes(a, failed)

Answers(a, done, failed, waiting) ==
  \/ refund = "done" /\ Goes(a, done)
  \/ refund = "failed" /\ Goes(a, failed)
  \/ refund = "pending" /\ Goes(a, waiting)

(* A refund the provider does not know is an error that changes nothing.   *)
QueryRefund(a) ==
  /\ \/ pc[a] = "query" /\ Answers(a, "complete", "fail", "defer") /\ UNCHANGED own
     \/ /\ pc[a] = "queryPending" /\ refund # "pending"
        /\ Answers(a, "completePending", "failPending", "idle") /\ UNCHANGED own
     \/ /\ \/ pc[a] = "query" /\ refund = "none"
           \/ pc[a] = "queryPending" /\ refund \in {"none", "pending"}
        /\ Ends(a)
  /\ UNCHANGED <<deal, order, rights, provider>>

(* The order is as it was read and the pending record is the same.         *)
ExpectedPending(a) ==
  /\ status = "REFUND_PENDING" /\ version = plan[a].version
  /\ pending.version = got[a].version

(* CompleteRefund of a pending refund takes the credit for good. *)
CompletePending(a) ==
  /\ pc[a] = "completePending"
  /\ \/ /\ ExpectedPending(a)
        /\ Becomes("REFUNDED")
        /\ final' = Min2(plan[a].deduct, balance)
        /\ Deducts(final')
        /\ Ends(a) /\ UNCHANGED <<receipt, pending>>
     \/ ~ExpectedPending(a) /\ Conflict(a)
  /\ UNCHANGED <<deal, provider>>

FailPendingRefund(a) ==
  /\ pc[a] = "failPending"
  /\ \/ /\ ExpectedPending(a)
        /\ Becomes("REFUND_FAILED")
        /\ Ends(a) /\ UNCHANGED <<receipt, pending, final, rights>>
     \/ ~ExpectedPending(a) /\ Conflict(a)
  /\ UNCHANGED <<deal, provider>>

(* The process stops, or its transaction fails and rolls back. *)
Crash(a) ==
  /\ pc[a] # "idle"
  /\ Ends(a)
  /\ UNCHANGED <<deal, order, rights, provider>>
-----------------------------------------------------------------------------
Administer(a) ==
  \/ Plan(a) \/ Prepare(a) \/ Gateway(a) \/ Unknown(a)
  \/ Complete(a) \/ CompensateFailure(a) \/ Defer(a)
  \/ QueryStart(a) \/ QueryRefund(a) \/ CompletePending(a) \/ FailPendingRefund(a)
  \/ Crash(a)

Next == Spend \/ RequestRefund \/ Settle \/ \E a \in Admins : Administer(a)

Spec == Init /\ [][Next]_vars
-----------------------------------------------------------------------------
Receipts == [version : Nat, previous : Preparable, deducted : Nat]

RefundTypeOK ==
  /\ method \in Methods /\ traded \in BOOLEAN
  /\ status \in Statuses /\ version \in Nat
  /\ receipt \in Receipts
  /\ pending \in [version : Nat, deducted : Nat]
  /\ final \in Nat /\ balance \in Nat /\ spent \in Nat
  /\ refund \in {"none", "pending", "done", "failed"} /\ refunds \in Nat
  /\ pc \in [Admins -> {"idle", "prepare", "gateway", "unknown", "complete", "fail",
                        "defer", "query", "queryPending", "completePending", "failPending"}]
  /\ plan \in [Admins -> [status : Preparable, version : Nat, deduct : Nat]]
  /\ got \in [Admins -> Receipts]

(* What the order says the refund has taken from the user. *)
Taken == CASE status = "REFUNDING" -> receipt.deducted
           [] status = "REFUNDED"  -> final
           [] OTHER                -> 0

(* Whatever administrators, queries and crashes do to the order, the       *)
(* balance of the user lacks exactly what the order records as taken: no   *)
(* deduction is repeated, lost or given back twice.                        *)
BalanceExplained == balance + spent + Taken = Balance

(* Whoever completes the refund, the call, a query after a crash or one of *)
(* a pending refund, an order with a trade number is marked refunded only  *)
(* when the provider has refunded it.  One without is refunded in the      *)
(* books alone: the provider is never asked.                               *)
RefundedAtProvider == status = "REFUNDED" => refund = IF traded THEN "done" ELSE "none"

(* Where the adapter tells a refusal from an outcome it does not know, the *)
(* provider refunds once at most, and a refund it has made is never        *)
(* compensated: the credit stays taken.                                    *)
UnknownKeepsDeduction ==
  method = "easypay" /\ refund = "done" => refunds = 1 /\ status \in {"REFUNDING", "REFUNDED"}
==============================================================================
