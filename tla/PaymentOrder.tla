---------------------------- MODULE PaymentOrder ----------------------------
(***************************************************************************)
(* One payment order from PENDING to COMPLETED or closed: the webhooks     *)
(* that report its payment, the users and administrators who verify,       *)
(* cancel, expire and retry it, and the background loop that reconciles    *)
(* it.  Several of them fulfil the order at the same time; the lease of a  *)
(* fulfilment is the update time of the row, so any write to the row ends  *)
(* it.  Every statement and every call to the provider is one step.        *)
(***************************************************************************)
EXTENDS Integers, FiniteSets

CONSTANTS Requests,   \* webhooks and requests of users and administrators
          Loop,       \* the background loop, one process under its lock
          Methods,    \* families of providers the order may be paid with
          Kinds,      \* "balance" and "subscription"
          MaxFaults   \* bound: crashes, failed statements, lost replies, stalls

ASSUME OrderAssumption ==
  /\ Methods \subseteq {"stripe", "wechat", "alipay", "airwallex", "easypay"}
  /\ Kinds \subseteq {"balance", "subscription"}
  /\ MaxFaults \in Nat

Calls == Requests \cup {Loop}

VARIABLES
  kind, method,
  row,      \* the order: status, paid (paid_at set), trade (provider number stored)
  age,      \* of updated_at: 0, 1 past the retry delay, 2 past the lease
  current,  \* the calls that hold the present updated_at as their lease version
  pay,      \* the payment at the provider
  notices,  \* notifications the provider still sends
  code,     \* the redeem code of the order, or its subscription
  audit,    \* SUBSCRIPTION_ASSIGNED is logged
  credits,  \* times the user was given what the order buys
  rebates,  \* times the inviter was given the rebate
  forced,   \* an administrator expired the order without asking the provider
  missed,   \* history: a cancellation succeeded that closed nothing
  faults,
  pc, seen, goal   \* of each call: its stage, the order it read, what it is for

vars == <<kind, method, row, age, current, pay, notices, code, audit, credits,
          rebates, forced, missed, faults, pc, seen, goal>>
order == <<row, age, current>>
provider == <<pay, notices>>
delivery == <<code, audit, credits, rebates>>
choice == <<kind, method>>
history == <<forced, missed>>

Open == {"PENDING", "PROCESSING"}
Closed == {"EXPIRED", "CANCELLED"}
Fulfillable == {"PAID", "RECHARGING", "FAILED"}
Statuses == Open \cup Closed \cup Fulfillable \cup {"COMPLETED"}
Unpaid == Open \cup Closed
Fulfilling == {"lease", "lookup", "create", "redeem", "assigned", "assign",
               "audit", "rebate", "complete", "fail"}
Stages == Fulfilling \cup
  {"idle", "query", "trade", "paid", "processing", "failed", "confirm",
   "reload", "markProcessing", "markFailed", "reloadFailed", "load", "claim",
   "cancel", "requery", "finalize", "touch"}

Asking == {"query", "cancel", "requery", "finalize"}
Remembering == {"query", "cancel", "requery", "confirm", "markFailed"}
NotRead == [status |-> "PENDING", trade |-> FALSE]

Init ==
  /\ kind \in Kinds /\ method \in Methods
  /\ row = [status |-> "PENDING", paid |-> FALSE, trade |-> FALSE]
  /\ age = 0 /\ current = {}
  /\ pay = IF method = "alipay" THEN "signed" ELSE "open"
  /\ notices = {}
  /\ code = "none" /\ audit = FALSE /\ credits = 0 /\ rebates = 0
  /\ forced = FALSE /\ missed = FALSE /\ faults = 0
  /\ pc = [c \in Calls |-> "idle"]
  /\ seen = [c \in Calls |-> NotRead]
  /\ goal = [c \in Calls |-> "none"]

(* A call forgets its purpose and the order it read when it will not look  *)
(* at them again, for fewer states.                                        *)
Goes(c, stage) ==
  /\ pc' = [pc EXCEPT ![c] = stage]
  /\ goal' = IF stage \in Asking THEN goal ELSE [goal EXCEPT ![c] = "none"]

Reads(c) == seen' = [seen EXCEPT ![c] = [status |-> row.status, trade |-> row.trade]]
Forgets(c) == seen' = [seen EXCEPT ![c] = NotRead]
Keeps(c) == IF pc'[c] \in Remembering THEN UNCHANGED seen ELSE Forgets(c)
Ends(c) == Goes(c, "idle") /\ Forgets(c)
Unowned(c) == current' = current \ {c}

Fault == faults < MaxFaults /\ faults' = faults + 1

(* An update of the row: ent stamps updated_at whatever the update sets.   *)
Writes(new) == row' = new /\ age' = 0 /\ current' = {}

Paid(r) == [r EXCEPT !.status = "PAID", !.paid = TRUE, !.trade = TRUE]
Is(status) == [row EXCEPT !.status = status]
-----------------------------------------------------------------------------
(* The provider and time.                                                  *)

(* Alipay knows a trade from the moment the user opens the signed address. *)
OpenCheckout ==
  /\ pay = "signed" /\ pay' = "open"
  /\ UNCHANGED <<choice, order, notices, delivery, history, faults, pc, seen, goal>>

(* Only the payments of Stripe may take their time.                        *)
Pay(result) ==
  /\ result = "processing" => method = "stripe"
  /\ \/ pay = "open" /\ result \in {"processing", "paid", "failed"}
     \/ pay = "processing" /\ result \in {"paid", "failed"}
  /\ pay' = result
  /\ notices' = IF result = "failed" /\ method # "stripe" THEN notices ELSE notices \cup {result}
  /\ UNCHANGED <<choice, order, delivery, history, faults, pc, seen, goal>>

(* The age of the row matters while it is to be fulfilled.  A fulfilment   *)
(* that is still at work when its lease runs out is a fault.               *)
Age ==
  /\ age < 2 /\ row.status \in Fulfillable
  /\ age' = age + 1
  /\ IF age = 1 /\ \E c \in Calls : pc[c] \in Fulfilling THEN Fault ELSE UNCHANGED faults
  /\ UNCHANGED <<choice, row, current, provider, delivery, history, pc, seen, goal>>
-----------------------------------------------------------------------------
(* A webhook: HandlePaymentNotification.  An unanswered success is sent    *)
(* again until the order is paid; the others are sent once.                *)
Deliver(h, n) ==
  /\ pc[h] = "idle" /\ n \in notices
  /\ notices' = IF n = "paid" THEN notices ELSE notices \ {n}
  /\ Goes(h, n)
  /\ UNCHANGED <<choice, order, pay, delivery, history, faults, seen>>

(* The order the notification is for is read. *)
Find(c) ==
  /\ \/ pc[c] = "paid" /\ Goes(c, "confirm")
     \/ pc[c] = "processing" /\ Goes(c, IF row.status = "PENDING" THEN "markProcessing" ELSE "idle")
     \/ pc[c] = "failed" /\ Goes(c, "markFailed")
  /\ IF pc'[c] \in Remembering THEN Reads(c) ELSE UNCHANGED seen
  /\ UNCHANGED <<choice, order, provider, delivery, history, faults>>

MarkPaymentProcessing(c) ==
  /\ pc[c] = "markProcessing"
  /\ Ends(c)
  /\ IF row.status = "PENDING"
       THEN Writes([Is("PROCESSING") EXCEPT !.trade = TRUE])
       ELSE UNCHANGED order
  /\ UNCHANGED <<choice, provider, delivery, history, faults>>

(* The loop of MarkPaymentFailed: three rounds are enough for the changes  *)
(* of an unpaid order.                                                     *)
MarkPaymentFailed(c) ==
  /\ pc[c] = "markFailed"
  /\ \/ /\ seen[c].status \notin Open
        /\ Ends(c) /\ UNCHANGED order
     \/ /\ seen[c].status \in Open /\ row.status = seen[c].status
        /\ Writes([Is("EXPIRED") EXCEPT !.trade = TRUE])
        /\ Ends(c)
     \/ /\ seen[c].status \in Open /\ row.status # seen[c].status
        /\ Goes(c, "reloadFailed")
        /\ Forgets(c) /\ UNCHANGED order
  /\ UNCHANGED <<choice, provider, delivery, history, faults>>

(* Mutant: success overwrites whatever the order has become. *)
ToPaidAlways(c) ==
  /\ pc[c] = "confirm"
  /\ \/ seen[c].status \in Unpaid /\ Writes(Paid(row)) /\ Goes(c, "load")
     \/ seen[c].status \in Fulfillable /\ Goes(c, "load") /\ UNCHANGED order
     \/ seen[c].status = "COMPLETED" /\ Goes(c, "idle") /\ UNCHANGED order
  /\ Forgets(c)
  /\ UNCHANGED <<choice, provider, delivery, history, faults>>

(* One round of the loop of ToPaid; five rounds are enough for the changes *)
(* an unpaid order can go through.                                         *)
ToPaid(c) ==
  /\ pc[c] = "confirm"
  /\ \/ /\ seen[c].status \in Unpaid /\ row.status = seen[c].status
        /\ Writes(Paid(row))
        /\ Goes(c, "load") /\ Forgets(c)
     \/ /\ seen[c].status \in Unpaid /\ row.status # seen[c].status
        /\ Goes(c, "reload")
        /\ Forgets(c) /\ UNCHANGED order
     \/ /\ seen[c].status \in Fulfillable
        /\ Goes(c, "load") /\ Forgets(c) /\ UNCHANGED order
     \/ /\ seen[c].status = "COMPLETED"
        /\ Ends(c) /\ UNCHANGED order
  /\ UNCHANGED <<choice, provider, delivery, history, faults>>

Reload(c) ==
  /\ \/ pc[c] = "reload" /\ Goes(c, "confirm")
     \/ pc[c] = "reloadFailed" /\ Goes(c, "markFailed")
  /\ Reads(c)
  /\ UNCHANGED <<choice, order, provider, delivery, history, faults>>
-----------------------------------------------------------------------------
(* ExecuteFulfillment.                                                     *)
Load(c) ==
  /\ pc[c] = "load"
  /\ Goes(c, IF row.status \in Fulfillable THEN "claim" ELSE "idle")
  /\ UNCHANGED <<choice, order, provider, delivery, history, faults, seen>>

(* Mutant: a fulfilment that stopped half way is not taken over. *)
ClaimableNever == row.status \in {"PAID", "FAILED"}

(* ClaimFulfillment: a lease past its time is taken over. *)
Claimable ==
  \/ row.status \in {"PAID", "FAILED"}
  \/ row.status = "RECHARGING" /\ age = 2

Claim(c) ==
  /\ pc[c] = "claim"
  /\ \/ Claimable /\ Writes(Is("RECHARGING")) /\ Goes(c, "lease")
     \/ ~Claimable /\ Goes(c, "idle") /\ UNCHANGED order
  /\ UNCHANGED <<choice, provider, delivery, history, faults, seen>>

(* The lease version is read back after the claim, in a read of its own.   *)
Lease(c) ==
  /\ pc[c] = "lease"
  /\ IF row.status = "RECHARGING"
       THEN /\ current' = current \cup {c}
            /\ Goes(c, IF kind = "balance" THEN "lookup" ELSE "assigned")
       ELSE Goes(c, "idle") /\ UNCHANGED current
  /\ UNCHANGED <<choice, row, age, provider, delivery, history, faults, seen>>

(* Mutant: a code that exists is taken for a code that was used. *)
LookupSkips(c) ==
  /\ pc[c] = "lookup"
  /\ Goes(c, IF code = "none" THEN "create" ELSE "rebate")
  /\ UNCHANGED <<choice, order, provider, delivery, history, faults, seen>>

(* DoBalance: ResolveRedeemAction on the code of the order.  A lookup that *)
(* fails counts as no code.                                                *)
Lookup(c) ==
  /\ pc[c] = "lookup"
  /\ \/ /\ Goes(c, CASE code = "none"   -> "create"
                     [] code = "unused" -> "redeem"
                     [] code = "used"   -> "rebate")
        /\ UNCHANGED faults
     \/ Fault /\ Goes(c, "create")
  /\ UNCHANGED <<choice, order, provider, delivery, history, seen>>

(* A code that another fulfilment created first is an error. *)
CreateCode(c) ==
  /\ pc[c] = "create"
  /\ \/ /\ code = "none" /\ code' = "unused"
        /\ \/ Goes(c, "redeem") /\ UNCHANGED faults
           \/ Goes(c, "fail") /\ Fault
     \/ code # "none" /\ Goes(c, "fail") /\ UNCHANGED <<code, faults>>
  /\ UNCHANGED <<choice, order, provider, audit, credits, rebates, history, seen>>

(* Mutant: the code is not locked and checked in the transaction. *)
RedeemableAny == code # "none"

(* Redeem: the code is locked and must be unused. *)
Redeemable == code = "unused"

(* The credit and the use of the code commit together; the reply may be    *)
(* lost, and the limit or the lock of redemption may refuse.               *)
Redeem(c) ==
  /\ pc[c] = "redeem"
  /\ \/ /\ Redeemable
        /\ code' = "used" /\ credits' = credits + 1
        /\ \/ Goes(c, "rebate") /\ UNCHANGED faults
           \/ Goes(c, "fail") /\ Fault
     \/ ~Redeemable /\ Goes(c, "fail") /\ UNCHANGED <<code, credits, faults>>
     \/ Redeemable /\ Fault /\ Goes(c, "fail") /\ UNCHANGED <<code, credits>>
  /\ UNCHANGED <<choice, order, provider, audit, rebates, history, seen>>

(* DoSub: the audit is the first look; its absence may be a failed read.   *)
Assigned(c) ==
  /\ pc[c] = "assigned"
  /\ \/ Goes(c, IF audit THEN "rebate" ELSE "assign") /\ UNCHANGED faults
     \/ audit /\ Fault /\ Goes(c, "assign")
  /\ UNCHANGED <<choice, order, provider, delivery, history, seen>>

(* AssignOrExtendSubscription looks for a subscription of the order again  *)
(* under the lock of the user.                                             *)
Assign(c) ==
  /\ pc[c] = "assign"
  /\ \/ /\ IF code = "none"
             THEN code' = "used" /\ credits' = credits + 1
             ELSE UNCHANGED <<code, credits>>
        /\ \/ Goes(c, "audit") /\ UNCHANGED faults
           \/ Goes(c, "fail") /\ Fault
     \/ Fault /\ Goes(c, "fail") /\ UNCHANGED <<code, credits>>
  /\ UNCHANGED <<choice, order, provider, audit, rebates, history, seen>>

(* The audit is best effort. *)
Audit(c) ==
  /\ pc[c] = "audit"
  /\ Goes(c, "rebate")
  /\ \/ audit' = TRUE /\ UNCHANGED faults
     \/ UNCHANGED audit /\ Fault
  /\ UNCHANGED <<choice, order, provider, code, credits, rebates, history, seen>>

(* TryClaimAffiliateRebateAudit: the claim is unique for an order. *)
RebateDue == rebates = 0

(* ApplyOrderRebate: the claim and the rebate commit together. *)
Rebate(c) ==
  /\ pc[c] = "rebate"
  /\ \/ /\ rebates' = IF RebateDue THEN rebates + 1 ELSE rebates
        /\ \/ Goes(c, "complete") /\ UNCHANGED faults
           \/ Goes(c, "fail") /\ Fault
     \/ Fault /\ Goes(c, "fail") /\ UNCHANGED rebates
  /\ UNCHANGED <<choice, order, provider, code, audit, credits, history, seen>>

Owns(c) == row.status = "RECHARGING" /\ c \in current

(* MarkCompleted: an owner that lost its lease reports success only if the *)
(* order is completed, else an error that goes through MarkFailed.         *)
MarkCompleted(c) ==
  /\ pc[c] = "complete"
  /\ \/ /\ Owns(c)
        /\ \/ Writes(Is("COMPLETED")) /\ Goes(c, "idle") /\ UNCHANGED faults
           \/ Fault /\ Goes(c, "fail") /\ UNCHANGED order
     \/ /\ ~Owns(c)
        /\ Goes(c, IF row.status = "COMPLETED" THEN "idle" ELSE "fail")
        /\ UNCHANGED <<order, faults>>
  /\ UNCHANGED <<choice, provider, delivery, history, seen>>

(* MarkFailed: only the owner of the lease fails the order. *)
MarkFailed(c) ==
  /\ pc[c] = "fail"
  /\ Goes(c, "idle")
  /\ \/ Owns(c) /\ Writes(Is("FAILED")) /\ UNCHANGED faults
     \/ ~Owns(c) /\ Unowned(c) /\ UNCHANGED <<row, age, faults>>
     \/ Owns(c) /\ Fault /\ Unowned(c) /\ UNCHANGED <<row, age>>
  /\ UNCHANGED <<choice, provider, delivery, history, seen>>
-----------------------------------------------------------------------------
(* Verification and reconciliation: the provider is asked about the order  *)
(* as it was read.                                                         *)
Starts(c, purpose) ==
  /\ pc[c] = "idle"
  /\ pc' = [pc EXCEPT ![c] = "query"]
  /\ goal' = [goal EXCEPT ![c] = purpose]
  /\ Reads(c)
  /\ UNCHANGED <<choice, order, provider, delivery, history, faults>>

(* VerifyOrderByOutTradeNo, and ReconcilePendingPaymentOrders, which reads *)
(* the orders of two providers only.                                       *)
Verify(c) == c \in Requests /\ row.status \in {"PENDING", "EXPIRED"} /\ Starts(c, "check")
ReconcilePending == method \in {"wechat", "alipay"} /\ row.status = "PENDING" /\ Starts(Loop, "check")
ReconcileProcessing == row.status = "PROCESSING" /\ Starts(Loop, "settle")

(* CancelOrder and AdminCancelOrder, and ExpireTimedOutOrders. *)
Cancel(c) == c \in Requests /\ row.status = "PENDING" /\ Starts(c, "CANCELLED")
Expire == row.status = "PENDING" /\ Starts(Loop, "EXPIRED")

Closing(c) == goal[c] \in Closed

(* What ApplyQueriedPaymentStatus, and its caller, do with the answer. *)
Answered(c, stage) ==
  \/ pay = "paid" /\ ~seen[c].trade /\ Goes(c, "trade")
  \/ pay = "paid" /\ Goes(c, "paid")
  \/ pay = "processing" /\ Goes(c, "processing")
  \/ /\ pay \in {"failed", "closed"}
     /\ Goes(c, CASE Closing(c) -> "finalize"
                  [] goal[c] = "settle" -> "markFailed"
                  [] OTHER -> "idle")
  \/ pay \in {"open", "signed"} /\ Goes(c, stage)

(* The adapter of EasyPay has no CancelPayment. *)
Cancelable == method # "easypay"

(* Alipay's missing trade counts as success, and so does whatever state    *)
(* Airwallex answers with: the payment can still be made.                  *)
ClosesNothing == pay = "signed" \/ (method = "airwallex" /\ pay = "open")

Query(c) ==
  /\ pc[c] = "query"
  /\ \/ /\ Answered(c, CASE ~Closing(c) -> "idle"
                         [] Closing(c) /\ Cancelable -> "cancel"
                         [] OTHER -> "finalize")
        /\ UNCHANGED faults
     \/ Fault /\ Goes(c, IF Closing(c) THEN "touch" ELSE "idle")
  /\ Keeps(c)
  /\ UNCHANGED <<choice, order, provider, delivery, history>>

(* SaveUpstreamTradeNumber names the order only, so it also ends the lease *)
(* of a fulfilment under way.                                              *)
SaveTradeNumber(c) ==
  /\ pc[c] = "trade"
  /\ Writes([row EXCEPT !.trade = TRUE])
  /\ Goes(c, "paid")
  /\ UNCHANGED <<choice, provider, delivery, history, faults, seen>>

(* CancelPayment at the provider; its failure or the loss of its reply is  *)
(* an error.                                                               *)
CancelPayment(c) ==
  /\ pc[c] = "cancel"
  /\ \/ /\ pay = "open" /\ pay' = "closed"
        /\ Goes(c, "finalize") /\ UNCHANGED <<missed, faults>>
     \/ /\ ClosesNothing /\ missed' = TRUE
        /\ Goes(c, "finalize") /\ UNCHANGED <<pay, faults>>
     \/ /\ pay' = pay \/ (pay = "open" /\ pay' = "closed")
        /\ Goes(c, "requery") /\ Fault /\ UNCHANGED missed
     \/ /\ pay \notin {"open", "signed"}
        /\ Goes(c, "requery") /\ UNCHANGED <<pay, missed, faults>>
  /\ Keeps(c)
  /\ UNCHANGED <<choice, order, notices, delivery, forced>>

(* Mutant: the order is closed although the cancellation failed. *)
RequeryCloses(c) ==
  /\ pc[c] = "requery"
  /\ Goes(c, "finalize") /\ Keeps(c)
  /\ UNCHANGED <<choice, order, provider, delivery, history, faults>>

(* The provider is asked again after a cancellation that failed. *)
Requery(c) ==
  /\ pc[c] = "requery"
  /\ \/ Answered(c, "touch") /\ UNCHANGED faults
     \/ Fault /\ Goes(c, "touch")
  /\ Keeps(c)
  /\ UNCHANGED <<choice, order, provider, delivery, history>>

(* RecordPaymentCancelFailure: the next attempt is put off. *)
TouchPending(c) ==
  /\ pc[c] = "touch"
  /\ Ends(c)
  /\ IF row.status = "PENDING" THEN Writes(row) ELSE UNCHANGED order
  /\ UNCHANGED <<choice, provider, delivery, history, faults>>

FinalizePendingOrder(c) ==
  /\ pc[c] = "finalize"
  /\ Ends(c)
  /\ IF row.status = "PENDING" THEN Writes(Is(goal[c])) ELSE UNCHANGED order
  /\ UNCHANGED <<choice, provider, delivery, history, faults>>

(* ForceExpireOrder: the provider is not asked. *)
ForceExpire(c) ==
  /\ c \in Requests /\ pc[c] = "idle" /\ row.status = "PENDING"
  /\ Writes(Is("EXPIRED"))
  /\ forced' = TRUE
  /\ UNCHANGED <<choice, provider, delivery, missed, faults, pc, seen, goal>>

(* RetryFulfillment, and ReconcilePaidFulfillmentOrders, which leaves a    *)
(* fresh order to the call that has it.                                    *)
RetryFulfillment(c) ==
  /\ c \in Requests /\ pc[c] = "idle"
  /\ row.paid /\ row.status \in Fulfillable
  /\ Goes(c, "load")
  /\ UNCHANGED <<choice, order, provider, delivery, history, faults, seen>>

ReconcileFulfillment ==
  /\ pc[Loop] = "idle" /\ row.paid
  /\ \/ row.status \in {"PAID", "FAILED"} /\ age >= 1
     \/ row.status = "RECHARGING" /\ age = 2
  /\ Goes(Loop, "load")
  /\ UNCHANGED <<choice, order, provider, delivery, history, faults, seen>>

(* A process stops, or an error of the database ends the call. *)
Crash(c) ==
  /\ pc[c] # "idle" /\ Fault
  /\ Ends(c) /\ Unowned(c)
  /\ UNCHANGED <<choice, row, age, provider, delivery, history>>
-----------------------------------------------------------------------------
Fulfil(c) ==
  \/ Load(c) \/ Claim(c) \/ Lease(c)
  \/ Lookup(c) \/ CreateCode(c) \/ Redeem(c)
  \/ Assigned(c) \/ Assign(c) \/ Audit(c)
  \/ Rebate(c) \/ MarkCompleted(c) \/ MarkFailed(c)

Continue(c) ==
  \/ Find(c) \/ MarkPaymentProcessing(c) \/ MarkPaymentFailed(c)
  \/ ToPaid(c) \/ Reload(c) \/ Fulfil(c)
  \/ Query(c) \/ SaveTradeNumber(c) \/ CancelPayment(c) \/ Requery(c)
  \/ TouchPending(c) \/ FinalizePendingOrder(c)

Request(c) ==
  \/ \E n \in {"processing", "paid", "failed"} : Deliver(c, n)
  \/ Verify(c) \/ Cancel(c) \/ ForceExpire(c) \/ RetryFulfillment(c)

Reconcile ==
  \/ ReconcilePending \/ ReconcileProcessing \/ ReconcileFulfillment \/ Expire

Next ==
  \/ \E result \in {"processing", "paid", "failed"} : Pay(result)
  \/ OpenCheckout \/ Age
  \/ \E c \in Requests : Request(c)
  \/ Reconcile
  \/ \E c \in Calls : Continue(c) \/ Crash(c)

(* A call that started goes on, the clock runs, a provider sends a success *)
(* again until the order is paid, and the loop comes round.                *)
Fairness ==
  /\ WF_vars(Age)
  /\ \A c \in Calls : WF_vars(Continue(c))
  /\ \A c \in Requests : WF_vars(~row.paid /\ Deliver(c, "paid"))
  /\ WF_vars(ReconcileFulfillment)

Spec == Init /\ [][Next]_vars /\ Fairness
-----------------------------------------------------------------------------
OrderTypeOK ==
  /\ kind \in Kinds /\ method \in Methods
  /\ row \in [status : Statuses, paid : BOOLEAN, trade : BOOLEAN]
  /\ age \in 0..2 /\ current \subseteq Calls
  /\ pay \in {"signed", "open", "processing", "paid", "failed", "closed"}
  /\ notices \subseteq {"processing", "paid", "failed"}
  /\ code \in {"none", "unused", "used"} /\ audit \in BOOLEAN
  /\ credits \in Nat /\ rebates \in Nat /\ forced \in BOOLEAN /\ missed \in BOOLEAN
  /\ faults \in 0..MaxFaults
  /\ pc \in [Calls -> Stages]
  /\ seen \in [Calls -> [status : Statuses, trade : BOOLEAN]]
  /\ goal \in [Calls -> {"none", "check", "settle"} \cup Closed]

(* However many fulfilments overlap, take over, crash and repeat, the user *)
(* is credited once at most and the inviter is rewarded once at most.      *)
DeliveredOnce == credits <= 1 /\ rebates <= 1

(* An order is completed only when the user has what it buys and the       *)
(* rebate is settled, and nobody gets anything for an order that the       *)
(* provider was not paid for.                                              *)
CompletedIsDelivered ==
  /\ row.status = "COMPLETED" => credits = 1 /\ rebates = 1
  /\ credits > 0 => row.paid /\ pay = "paid"

(* An order that was closed by cancellation, by its expiry or by a         *)
(* reported failure can no longer be paid, unless an administrator forced  *)
(* it, the provider cannot cancel, or a cancellation was told success      *)
(* although it closed nothing.                                             *)
ClosedIsUnpaid ==
  row.status \in Closed /\ Cancelable /\ ~forced /\ ~missed => pay \in {"failed", "closed"}

(* A paid order is never open, closed or unfulfilled again: late failures, *)
(* cancellations and expiries find it changed.                             *)
PaidStaysPaid ==
  [][row.paid => row'.status \notin Unpaid /\ (row.status = "COMPLETED" => row' = row)]_vars

(* A payment is fulfilled in the end, also when the order was closed       *)
(* meanwhile and when the call that fulfilled it stopped half way.         *)
PaidIsFulfilled == (pay = "paid") ~> (row.status = "COMPLETED")
=============================================================================
