------------------------------ MODULE TaskFunds ------------------------------
(***************************************************************************)
(* The money of asynchronous tasks (batch images and creative runs), as    *)
(* billing/postgres/settlement.go keeps it: a wallet (available balance    *)
(* and frozen balance) per payer, one subscription window per payer, the   *)
(* total quota of each API key, the claims that make every operation      *)
(* effective at most once, and the funding columns of each task's row.     *)
(*                                                                         *)
(* An operation is one SQL transaction that inserts its claim, locks the   *)
(* payer's row and applies its effects or rolls back as a whole, so each   *)
(* is one action here; the statements inside one transaction are the       *)
(* subject of ClaimTx.  Amounts are integers (units of 1e-8 USD, the scale *)
(* the code rounds to) and rate multipliers are 1: CapturePlan has rates.  *)
(***************************************************************************)
EXTENDS Totals

CONSTANTS
  Users, Keys,       \* payers (users rows) and API keys (api_keys rows)
  Tasks, Legacy,     \* tasks; those in Legacy were held by an older release
  Requests,          \* ordinary gateway requests, settled after the answer
  Updates,           \* requests to change a key, each carried out once
  PayerOf, KeyOf,    \* payer and key of every task and request
  KeyOfUpdate,       \* key each update is about
  ModeOf,            \* funding mode of every task and request
  Estimate,          \* what a task asks to hold
  Cost,              \* what a request costs
  Actuals,           \* amounts a capture may ask for
  InitBalance,       \* wallet of each payer at the start
  SubLimit,          \* limit of the payer's subscription window, 0: none
  KeyQuota,          \* total quota of each key at the start, 0: unlimited
  NewQuotas,         \* quotas an update may set
  MaxAmount,         \* bound: largest amount of one operation
  LastDay,           \* bound: days 0..LastDay
  MaxIssue           \* bound: an administrator resets a window only below it

Modes == {"auto", "subscription", "balance"}
KeyStatuses == {"active", "quota_exhausted", "disabled"}
Phases == {"none", "created", "settling", "refunding"}

ASSUME FiniteAssumption ==
  /\ IsFiniteSet(Users) /\ IsFiniteSet(Tasks) /\ IsFiniteSet(Requests)
  /\ Legacy \subseteq Tasks
  /\ Tasks \cap Requests = {}

ASSUME OwnershipAssumption ==
  /\ PayerOf \in [Tasks \cup Requests -> Users]
  /\ KeyOf \in [Tasks \cup Requests -> Keys]
  /\ KeyOfUpdate \in [Updates -> Keys]
  /\ ModeOf \in [Tasks \cup Requests -> Modes]

ASSUME AmountAssumption ==
  /\ MaxAmount \in Nat
  /\ Estimate \in [Tasks -> 1..MaxAmount]
  /\ Cost \in [Requests -> 0..MaxAmount]
  /\ Actuals \subseteq 0..MaxAmount
  /\ InitBalance \in [Users -> Nat]
  /\ SubLimit \in [Users -> Nat]
  /\ KeyQuota \in [Keys -> Nat]
  /\ NewQuotas \subseteq Nat

ASSUME BoundAssumption == LastDay \in Nat /\ MaxIssue \in Nat

\* Claims: the (request_id, api_key_id) rows of usage_billing_dedup.
HoldClaim(t) == <<"hold", t>>
CaptureClaim(t) == <<"capture", t>>
ReleaseClaim(t) == <<"release", t>>
UsageClaim(r) == <<"usage", r>>
Claims == ({"hold", "capture", "release"} \X Tasks) \cup ({"usage"} \X Requests)

\* What one claim covers: the fingerprint of a capture distinguishes the amount
\* it charges, every other operation has one fingerprint per identity.
Plain == -1
Absent == -2
Fingerprints == Nat \cup {Plain, Absent}

NoFunds == [hold |-> 0, bal |-> 0, sub |-> 0, allow |-> FALSE]
FundsRows == [hold : Nat, bal : Nat, sub : Nat, allow : BOOLEAN]
NoShares == [sub |-> 0, bal |-> 0]
ShareRecords == [sub : Nat, bal : Nat]

\* What an update holds of its key between reading and writing it, and the quota of
\* an update that leaves the quota as it is.
EditRecords ==
  [step : {"none", "read", "done"}, status : KeyStatuses, used : Nat, locked : BOOLEAN]
NotRead == [step |-> "none", status |-> "active", used |-> 0, locked |-> FALSE]
SameQuota == -1

VARIABLES
  balance, frozen,        \* users.balance, users.frozen_balance
  subUsed, subStart,      \* window usage and the day its window started
  quotaUsed, keyStatus,   \* api_keys.quota_used, api_keys.status
  quota, ownerDisabled,   \* api_keys.quota, api_keys.team_owner_disabled
  edit,                   \* how far each update is, and what it read of its key
  live, archive,          \* usage_billing_dedup and its archive
  row,                    \* the task row's funding columns
  createdDay,             \* day of the task row's created_at (ReservedAt)
  phase,                  \* how far the task's owner has gone
  day,                    \* the current day
  charged,                \* what an applied request was charged, per source
  issue, issueOf,         \* history: window allowances issued, and the one used
  forgiven,               \* history: usage of a key that updates reset
  outdated                \* history: quota or usage set, status left, on an old reading

wallet == <<balance, frozen>>
window == <<subUsed, subStart, issue>>
keyConfig == <<quota, ownerDisabled, edit, forgiven, outdated>>
keyVars == <<quotaUsed, keyStatus, keyConfig>>
claimVars == <<live, archive>>
taskVars == <<row, createdDay, phase>>
vars == <<wallet, window, keyVars, claimVars, taskVars, day, charged, issueOf>>

-----------------------------------------------------------------------------
(* Claims                                                                   *)

Claimed(c) == live[c] # Absent \/ archive[c] # Absent
Recorded(c) == IF live[c] # Absent THEN live[c] ELSE archive[c]

\* claimUsageBillingRequest: the operation goes on only when neither the live
\* table nor the archive has the claim; an equal fingerprint is a replay with no
\* effect, a different one a conflict with no effect.
Fresh(c) == live[c] = Absent /\ archive[c] = Absent
Take(c, fp) == live' = [live EXCEPT ![c] = fp] /\ UNCHANGED archive

(* Funding rows                                                             *)

Least(a, b) == IF a <= b THEN a ELSE b
AtLeastZero(a) == IF a >= 0 THEN a ELSE 0

\* EffectiveTaskBalanceHoldAmount: a row without a recorded split is an older
\* one whose whole hold is in the wallet.
WalletHold(s) == IF s.bal > 0 \/ s.sub > 0 THEN s.bal ELSE s.hold

\* PlanTaskCapture with unit rates: held subscription first, wallet for the rest.
KeptSub(s, a) == Least(s.sub, a)
KeptFromWalletOnly(s, a) == a  \* mutant: the subscription's part charged again
KeptBal(s, a) == a - KeptSub(s, a)

(* Subscription window                                                      *)

\* NormalizeSettlementWindow with a one-day window that may always restart.
NewWindow(u) == subStart[u] # day
UsedNow(u) == IF NewWindow(u) THEN 0 ELSE subUsed[u]
IssueNow(u) == IF NewWindow(u) THEN issue[u] + 1 ELSE issue[u]

\* AllocateSubscriptions: what the payer's subscription gives to amount a.
SubShare(x, a) ==
  LET u == PayerOf[x]
  IN  IF ModeOf[x] = "balance" \/ SubLimit[u] = 0 \/ UsedNow(u) >= SubLimit[u]
      THEN 0
      ELSE Least(a, SubLimit[u] - UsedNow(u))

\* Only a row that receives an allocation is written back.
UseWindow(x, a) ==
  LET u == PayerOf[x]
  IN  IF a > 0
      THEN /\ subUsed' = [subUsed EXCEPT ![u] = UsedNow(u) + a]
           /\ subStart' = [subStart EXCEPT ![u] = day]
           /\ issue' = [issue EXCEPT ![u] = IssueNow(u)]
           /\ issueOf' = [issueOf EXCEPT ![x] = IssueNow(u)]
      ELSE UNCHANGED <<window, issueOf>>

\* releaseTaskSubscriptionAllocations: give a back if the stored window holds
\* the day the task row was created.
RefundAnyWindow(t, a) ==  \* mutant: a later window is refunded too
  /\ subUsed' = [subUsed EXCEPT ![PayerOf[t]] = AtLeastZero(@ - a)]
  /\ UNCHANGED <<subStart, issue, issueOf>>
RefundWindow(t, a) ==
  LET u == PayerOf[t]
  IN  /\ subUsed' = IF a > 0 /\ subStart[u] = createdDay[t]
                    THEN [subUsed EXCEPT ![u] = AtLeastZero(@ - a)]
                    ELSE subUsed
      /\ UNCHANGED <<subStart, issue, issueOf>>

(* Key quota                                                                *)

HasQuota(k) == quota[k] > 0
Reaches(k, used) == HasQuota(k) /\ used >= quota[k]

\* reserveTaskAPIKeyAllowance: admission of a reservation and its effect.
KeyAdmits(k, a) ==
  /\ keyStatus[k] = "active"
  /\ ~ownerDisabled[k]
  /\ HasQuota(k) => quotaUsed[k] + a <= quota[k]

ReserveKey(k, a) ==
  /\ quotaUsed' = [quotaUsed EXCEPT ![k] = @ + a]
  /\ keyStatus' = IF Reaches(k, quotaUsed[k] + a)
                  THEN [keyStatus EXCEPT ![k] = "quota_exhausted"]
                  ELSE keyStatus
  /\ UNCHANGED keyConfig

\* releaseTaskAPIKeyAllowance: lower the usage and reactivate an exhausted key.
RefundUsageOnly(k, a) ==  \* mutant: the key is never reactivated
  /\ quotaUsed' = [quotaUsed EXCEPT ![k] = AtLeastZero(@ - a)]
  /\ UNCHANGED <<keyStatus, keyConfig>>
RefundKey(k, a) ==
  LET used == AtLeastZero(quotaUsed[k] - a)
  IN  /\ quotaUsed' = [quotaUsed EXCEPT ![k] = used]
      /\ keyStatus' = IF /\ keyStatus[k] = "quota_exhausted"
                         /\ ~ownerDisabled[k]
                         /\ ~Reaches(k, used)
                      THEN [keyStatus EXCEPT ![k] = "active"]
                      ELSE keyStatus
      /\ UNCHANGED keyConfig

\* chargeLegacyTaskAPIKey: exhausts a key of any status its owner left enabled.
ChargeLegacyActiveKey(k, a) ==  \* mutant: only an active key is charged
  /\ quotaUsed' = [quotaUsed EXCEPT ![k] = IF keyStatus[k] = "active" THEN @ + a ELSE @]
  /\ UNCHANGED <<keyStatus, keyConfig>>
ChargeLegacyKey(k, a) ==
  /\ quotaUsed' = [quotaUsed EXCEPT ![k] = @ + a]
  /\ keyStatus' = IF Reaches(k, quotaUsed[k] + a) /\ ~ownerDisabled[k]
                  THEN [keyStatus EXCEPT ![k] = "quota_exhausted"]
                  ELSE keyStatus
  /\ UNCHANGED keyConfig

\* incrementUsageBillingAPIKeyQuota: only an active key that crosses its quota.
ChargeKey(k, a) ==
  /\ quotaUsed' = [quotaUsed EXCEPT ![k] = @ + a]
  /\ keyStatus' = IF /\ keyStatus[k] = "active"
                     /\ ~Reaches(k, quotaUsed[k])
                     /\ Reaches(k, quotaUsed[k] + a)
                  THEN [keyStatus EXCEPT ![k] = "quota_exhausted"]
                  ELSE keyStatus
  /\ UNCHANGED keyConfig

\* rollbackTaskAllowanceBestEffort: the refund runs under a savepoint, and a
\* statement that fails there leaves the key as it was without failing the rest.
RefundKeyBestEffort(k, a) == RefundKey(k, a) \/ UNCHANGED keyVars

-----------------------------------------------------------------------------
(* A task held by an older release has its hold claim and its whole hold in  *)
(* the wallet, no split and no key allowance in its row.                     *)

OldRow(t) == [hold |-> Estimate[t], bal |-> 0, sub |-> 0, allow |-> FALSE]

TasksOf(u) == {t \in Tasks : PayerOf[t] = u}
RequestsOf(u) == {r \in Requests : PayerOf[r] = u}

Init ==
  /\ frozen = [u \in Users |-> Total(Estimate, TasksOf(u) \cap Legacy)]
  /\ balance = InitBalance
  /\ subUsed = [u \in Users |-> 0]
  /\ subStart = [u \in Users |-> 0]
  /\ quotaUsed = [k \in Keys |-> 0]
  /\ keyStatus = [k \in Keys |-> "active"]
  /\ quota = KeyQuota
  /\ ownerDisabled = [k \in Keys |-> FALSE]
  /\ edit = [e \in Updates |-> NotRead]
  /\ forgiven = [k \in Keys |-> 0]
  /\ outdated = [k \in Keys |-> FALSE]
  /\ live = [c \in Claims |-> Absent]
  /\ archive = [c \in Claims |-> IF c \in {HoldClaim(t) : t \in Legacy}
                                 THEN Plain ELSE Absent]
  /\ row = [t \in Tasks |-> IF t \in Legacy THEN OldRow(t) ELSE NoFunds]
  /\ createdDay = [t \in Tasks |-> 0]
  /\ phase = [t \in Tasks |-> IF t \in Legacy THEN "created" ELSE "none"]
  /\ day = 0
  /\ charged = [r \in Requests |-> NoShares]
  /\ issue = [u \in Users |-> 1]
  /\ issueOf = [x \in Tasks \cup Requests |-> 0]

-----------------------------------------------------------------------------
(* The task's owner.  It creates the row, asks to reserve while the task is  *)
(* only created, and then commits to one of settling and refunding; it may   *)
(* repeat whatever it asks.  BatchImage checks what its owner really does.   *)

CreateTask(t) ==
  /\ phase[t] = "none"
  /\ phase' = [phase EXCEPT ![t] = "created"]
  /\ createdDay' = [createdDay EXCEPT ![t] = day]
  /\ row' = [row EXCEPT ![t].hold = Estimate[t]]
  /\ UNCHANGED <<wallet, window, keyVars, claimVars, day, charged, issueOf>>

Decide(t, p) ==
  /\ phase[t] = "created"
  /\ p = "settling" => Claimed(HoldClaim(t))
  /\ phase' = [phase EXCEPT ![t] = p]
  /\ UNCHANGED <<wallet, window, keyVars, claimVars, row, createdDay, day, charged,
                 issueOf>>

\* The balance guard of reserveUsageBillingTaskBalance.
AnyBalance(u, a) == TRUE  \* mutant: the hold may overdraw the wallet
CoversHold(u, a) == a > 0 => balance[u] >= a

(* Reserve: subscription first, the rest frozen in the wallet, the whole     *)
(* hold charged to the key.  Not enough of any of them rolls back.           *)
Reserve(t) ==
  LET u == PayerOf[t]
      k == KeyOf[t]
      sub == SubShare(t, Estimate[t])
      bal == Estimate[t] - sub
  IN  /\ phase[t] = "created"
      /\ Fresh(HoldClaim(t))
      /\ ModeOf[t] = "subscription" => bal = 0
      /\ CoversHold(u, bal)
      /\ KeyAdmits(k, Estimate[t])
      /\ Take(HoldClaim(t), Plain)
      /\ UseWindow(t, sub)
      /\ balance' = [balance EXCEPT ![u] = @ - bal]
      /\ frozen' = [frozen EXCEPT ![u] = @ + bal]
      /\ ReserveKey(k, Estimate[t])
      /\ row' = [row EXCEPT ![t] =
                   [hold |-> Estimate[t], bal |-> bal, sub |-> sub, allow |-> TRUE]]
      /\ UNCHANGED <<createdDay, phase, day, charged>>

\* captureUsageBillingTaskBalance and releaseUsageBillingTaskFrozenBalance: thaw a
\* hold of which a part or nothing is kept, if that much is frozen.
CaptureBalance(u, hold, kept) ==
  /\ kept <= hold /\ frozen[u] >= hold
  /\ balance' = [balance EXCEPT ![u] = @ + hold - kept]
  /\ frozen' = [frozen EXCEPT ![u] = @ - hold]
ReleaseBalance(u, hold) ==
  /\ frozen[u] >= hold
  /\ balance' = [balance EXCEPT ![u] = @ + hold]
  /\ frozen' = [frozen EXCEPT ![u] = @ - hold]

\* applyTaskAllowance: what a capture returns to the key that reserved, or charges
\* to a key that did not.
CaptureAllowance(t, s, actual) ==
  LET k == KeyOf[t]
  IN  /\ IF s.allow
         THEN IF s.hold > actual
              THEN RefundKeyBestEffort(k, s.hold - actual)
              ELSE UNCHANGED keyVars
         ELSE IF actual > 0
              THEN ChargeLegacyKey(k, actual)
              ELSE UNCHANGED keyVars
      /\ row' = [row EXCEPT ![t].allow = FALSE]

(* The part of Capture that moves funds, from the funding columns s the      *)
(* caller read: keep the actual amount, give the rest back.                  *)
CaptureFunds(t, s, actual) ==
  LET split == s.allow \/ s.bal > 0 \/ s.sub > 0
  IN  /\ s.hold > 0 /\ split => Claimed(HoldClaim(t))
      /\ RefundWindow(t, s.sub - KeptSub(s, actual))
      /\ CaptureBalance(PayerOf[t], WalletHold(s), KeptBal(s, actual))
      /\ CaptureAllowance(t, s, actual)

Capture(t, actual) ==
  /\ phase[t] = "settling"
  /\ Fresh(CaptureClaim(t))
  /\ CaptureFunds(t, row[t], actual)
  /\ Take(CaptureClaim(t), actual)
  /\ UNCHANGED <<createdDay, phase, day, charged>>

(* The part of Release that moves funds.  Without a hold claim nothing is    *)
(* given back, and the release claim is still taken.                         *)
ReleaseFunds(t, s) ==
  /\ IF Claimed(HoldClaim(t))
     THEN RefundWindow(t, s.sub) /\ ReleaseBalance(PayerOf[t], WalletHold(s))
     ELSE UNCHANGED <<wallet, window, issueOf>>
  /\ IF s.allow THEN RefundKeyBestEffort(KeyOf[t], s.hold) ELSE UNCHANGED keyVars
  /\ row' = [row EXCEPT ![t].allow = FALSE]

Release(t) ==
  /\ phase[t] = "refunding"
  /\ Fresh(ReleaseClaim(t))
  /\ ReleaseFunds(t, row[t])
  /\ Take(ReleaseClaim(t), Plain)
  /\ UNCHANGED <<createdDay, phase, day, charged>>

\* deductUsageBillingBalance
Deduct(u, a) == balance' = [balance EXCEPT ![u] = @ - a]

\* applyUsageBillingEffects: whatever the subscription does not cover is taken from
\* the balance, which may become negative, and the key is charged past its quota.
ApplyEffects(r) ==
  LET u == PayerOf[r]
      sub == SubShare(r, Cost[r])
      bal == Cost[r] - sub
  IN  /\ ModeOf[r] = "subscription" => SubLimit[u] > 0
      /\ UseWindow(r, sub)
      /\ Deduct(u, bal)
      /\ ChargeKey(KeyOf[r], Cost[r])
      /\ charged' = [charged EXCEPT ![r] = [sub |-> sub, bal |-> bal]]

(* Apply: settle a request that was admitted and answered, once.             *)
Apply(r) ==
  /\ Fresh(UsageClaim(r))
  /\ Take(UsageClaim(r), Plain)
  /\ ApplyEffects(r)
  /\ UNCHANGED <<frozen, taskVars, day>>

-----------------------------------------------------------------------------
(* Everything else that touches the same rows                                *)

\* ArchiveUsageDedup: one statement moves some old claims to the archive, which
\* keeps what it already has.
Archive(C) ==
  /\ C # {}
  /\ archive' = [c \in Claims |-> IF c \in C /\ archive[c] = Absent
                                  THEN live[c] ELSE archive[c]]
  /\ live' = [c \in Claims |-> IF c \in C THEN Absent ELSE live[c]]
  /\ UNCHANGED <<wallet, window, keyVars, taskVars, day, charged, issueOf>>

NextDay ==
  /\ day < LastDay
  /\ day' = day + 1
  /\ UNCHANGED <<wallet, window, keyVars, claimVars, taskVars, charged, issueOf>>

\* adminResetQuotaLocked: an administrator issues the allowance again, with the
\* window starting at today's midnight.
ResetWindow(u) ==
  /\ issue[u] < MaxIssue
  /\ subUsed' = [subUsed EXCEPT ![u] = 0]
  /\ subStart' = [subStart EXCEPT ![u] = day]
  /\ issue' = [issue EXCEPT ![u] = @ + 1]
  /\ UNCHANGED <<wallet, keyVars, claimVars, taskVars, day, charged, issueOf>>

DisableTeamKey(k) ==
  /\ keyStatus' = [keyStatus EXCEPT ![k] = "disabled"]
  /\ ownerDisabled' = [ownerDisabled EXCEPT ![k] = TRUE]
  /\ UNCHANGED <<wallet, window, quotaUsed, quota, edit, forgiven, outdated, claimVars,
                 taskVars, day, charged, issueOf>>

EnableTeamKey(k) ==
  /\ keyStatus' = [keyStatus EXCEPT ![k] = "active"]
  /\ ownerDisabled' = [ownerDisabled EXCEPT ![k] = FALSE]
  /\ UNCHANGED <<wallet, window, quotaUsed, quota, edit, forgiven, outdated, claimVars,
                 taskVars, day, charged, issueOf>>

\* APIKeyService.Update, first half: the key as GetByID returns it.
Reading(k) == [step |-> "read", status |-> keyStatus[k], used |-> quotaUsed[k],
               locked |-> ownerDisabled[k]]

ReadKey(e) ==
  /\ edit[e].step = "none"
  /\ edit' = [edit EXCEPT ![e] = Reading(KeyOfUpdate[e])]
  /\ UNCHANGED <<wallet, window, quotaUsed, keyStatus, quota, ownerDisabled, forgiven,
                 outdated, claimVars, taskVars, day, charged, issueOf>>

\* The status the update ends with, from what it read: the one asked for, or an
\* exhausted key made active by a quota above its usage or by a reset of the usage.
StatusOfUpdate(was, status, limit, reset) ==
  LET asked == IF status = "keep" THEN was.status ELSE status
      allows == limit # SameQuota /\ (limit = 0 \/ limit > was.used)
  IN  IF asked = "quota_exhausted" /\ (allows \/ reset) THEN "active" ELSE asked

(* APIKeyService.Update, second half.  The owner's lock is judged on what    *)
(* was read, and the write of the selected columns has no condition on them. *)
UpdateKey(e, status, limit, reset) ==
  LET k == KeyOfUpdate[e]
      was == edit[e]
      final == StatusOfUpdate(was, status, limit, reset)
      writesStatus == status # "keep" \/ final # was.status
  IN  /\ was.step = "read"
      /\ status = "active" => ~was.locked
      /\ keyStatus' = IF writesStatus THEN [keyStatus EXCEPT ![k] = final] ELSE keyStatus
      /\ quota' = IF limit # SameQuota THEN [quota EXCEPT ![k] = limit] ELSE quota
      /\ quotaUsed' = IF reset THEN [quotaUsed EXCEPT ![k] = 0] ELSE quotaUsed
      /\ forgiven' = IF reset THEN [forgiven EXCEPT ![k] = @ + quotaUsed[k]] ELSE forgiven
      /\ outdated' = [outdated EXCEPT ![k] =
                        /\ ~writesStatus
                        /\ IF limit # SameQuota \/ reset
                           THEN was.status # keyStatus[k] \/ was.used # quotaUsed[k]
                           ELSE @]
      /\ edit' = [edit EXCEPT ![e] = [NotRead EXCEPT !.step = "done"]]
      /\ UNCHANGED <<wallet, window, ownerDisabled, claimVars, taskVars, day, charged,
                     issueOf>>

TaskStep ==
  \E t \in Tasks :
    \/ CreateTask(t)
    \/ Reserve(t)
    \/ \E p \in {"settling", "refunding"} : Decide(t, p)
    \/ \E a \in Actuals : Capture(t, a)
    \/ Release(t)

KeyStep ==
  \/ \E k \in Keys : DisableTeamKey(k) \/ EnableTeamKey(k)
  \/ \E e \in Updates :
       \/ ReadKey(e)
       \/ \E status \in {"keep", "active", "disabled"}, limit \in NewQuotas \cup {SameQuota},
             reset \in BOOLEAN : UpdateKey(e, status, limit, reset)

Next ==
  \/ TaskStep
  \/ KeyStep
  \/ \E r \in Requests : Apply(r)
  \/ \E C \in SUBSET {c \in Claims : live[c] # Absent} : Archive(C)
  \/ \E u \in Users : ResetWindow(u)
  \/ NextDay

Spec == Init /\ [][Next]_vars

-----------------------------------------------------------------------------
(* Properties                                                                *)

WalletTypeOK == balance \in [Users -> Int] /\ frozen \in [Users -> Nat]
WindowTypeOK ==
  /\ subUsed \in [Users -> Nat]
  /\ subStart \in [Users -> Nat]
  /\ issue \in [Users -> Nat]
  /\ issueOf \in [Tasks \cup Requests -> Nat]
KeyTypeOK ==
  /\ quotaUsed \in [Keys -> Nat]
  /\ keyStatus \in [Keys -> KeyStatuses]
  /\ quota \in [Keys -> Nat]
  /\ ownerDisabled \in [Keys -> BOOLEAN]
  /\ edit \in [Updates -> EditRecords]
  /\ forgiven \in [Keys -> Nat]
  /\ outdated \in [Keys -> BOOLEAN]
ClaimTypeOK == live \in [Claims -> Fingerprints] /\ archive \in [Claims -> Fingerprints]
TaskTypeOK ==
  /\ row \in [Tasks -> FundsRows]
  /\ createdDay \in [Tasks -> Nat]
  /\ phase \in [Tasks -> Phases]

\* What every variable holds: no counter becomes negative but the balance, which a
\* request settled after its answer may overdraw (deductUsageBillingBalance).
TypeOK ==
  /\ WalletTypeOK
  /\ WindowTypeOK
  /\ KeyTypeOK
  /\ ClaimTypeOK
  /\ TaskTypeOK
  /\ day \in Nat
  /\ charged \in [Requests -> ShareRecords]

Captured(t) == Claimed(CaptureClaim(t))
Resolved(t) == Captured(t) \/ Claimed(ReleaseClaim(t))
Held(t) == Claimed(HoldClaim(t)) /\ ~Resolved(t)
ActualOf(t) == Recorded(CaptureClaim(t))

\* What the claims and the rows say is still held, was charged, and from where.
Outstanding == [t \in Tasks |-> IF Held(t) THEN row[t].hold - row[t].sub ELSE 0]
PaidFromWallet ==
  [t \in Tasks |-> IF Captured(t) /\ ActualOf(t) > row[t].sub
                   THEN ActualOf(t) - row[t].sub ELSE 0]
ChargedToWallet == [r \in Requests |-> charged[r].bal]

\* users.frozen_balance is exactly the sum of the holds that the claims call
\* unresolved: a capture or a release (settlement.go, captureUsageBillingTaskBalance
\* and releaseUsageBillingTaskFrozenBalance) never takes what another task holds,
\* and nothing stays frozen once the last task of a payer is resolved.
FrozenIsOutstanding == \A u \in Users : frozen[u] = Total(Outstanding, TasksOf(u))

\* Why it holds: what a task's owner has asked for, and that the row of a task with
\* a hold records how the hold was split.
OwnerDiscipline ==
  \A t \in Tasks :
    /\ Claimed(CaptureClaim(t)) => phase[t] = "settling"
    /\ Claimed(ReleaseClaim(t)) => phase[t] = "refunding"
    /\ phase[t] = "none" => ~Claimed(HoldClaim(t))
    /\ phase[t] = "settling" => Claimed(HoldClaim(t))
RowsRecordHolds ==
  \A t \in Tasks :
    Claimed(HoldClaim(t)) => /\ row[t].sub <= row[t].hold
                             /\ WalletHold(row[t]) = row[t].hold - row[t].sub

\* The inductive invariant behind FrozenIsOutstanding.
FundsInv == TypeOK /\ OwnerDiscipline /\ RowsRecordHolds /\ FrozenIsOutstanding

\* Money is neither lost nor made: what left a payer's wallet is what the applied
\* requests and the captures charged to it, across replays, conflicts, archived
\* claims and rejected operations.
MoneyConserved ==
  \A u \in Users :
    balance[u] + frozen[u]
      + Total(PaidFromWallet, TasksOf(u)) + Total(ChargedToWallet, RequestsOf(u))
    = InitBalance[u] + Total(Estimate, TasksOf(u) \cap Legacy)

\* A key's recorded usage, with what updates reset of it (ResetQuota), covers its
\* open allowances and everything charged to it: reservations, partial refunds and
\* legacy charges (releaseTaskAPIKeyAllowance, chargeLegacyTaskAPIKey) never
\* undercount it.
KeyShare ==
  [t \in Tasks |-> IF Captured(t) THEN ActualOf(t)
                   ELSE IF Held(t) /\ row[t].allow THEN row[t].hold
                   ELSE 0]
KeyUsageCoversCharges ==
  \A k \in Keys :
    quotaUsed[k] + forgiven[k]
                 >= Total(KeyShare, {t \in Tasks : KeyOf[t] = k})
                    + Total(Cost, {r \in Requests : KeyOf[r] = k
                                                    /\ Claimed(UsageClaim(r))})

\* A key marked quota_exhausted has in fact reached its quota: no order of charges,
\* refunds and updates strands a key that still has allowance (the reactivation in
\* releaseTaskAPIKeyAllowance and in Update).  Two keys are excepted: one its owner
\* locked, which an update that had read it before made active again and no refund
\* reactivates until EnableTeamKey does, and one whose quota or usage was set, and
\* whose status was left, by an update that had read another status or usage than
\* the key then had.
ExhaustedKeyIsSpent ==
  \A k \in Keys :
    keyStatus[k] = "quota_exhausted" /\ ~ownerDisabled[k] /\ ~outdated[k]
      => Reaches(k, quotaUsed[k])

\* The usage of the current window covers what was given out of it and is still
\* held or was charged, so that a payer never gets more than its limit: a refund
\* goes only to the window it was taken from ("a later window retains its own
\* usage", settlement.go, releaseTaskSubscriptionAllocations).  What is missing
\* was given back by tasks reserved earlier on the day of an administrator's
\* reset, which the store cannot tell from tasks reserved after it.
SubShareOf(u) ==
  [t \in TasksOf(u) |->
     IF issueOf[t] # issue[u] THEN 0
     ELSE IF Captured(t) THEN Least(row[t].sub, ActualOf(t))
     ELSE IF Held(t) THEN row[t].sub
     ELSE 0]
SubCharged(u) ==
  [r \in RequestsOf(u) |-> IF issueOf[r] = issue[u] THEN charged[r].sub ELSE 0]
GivenBackAfterReset(u) ==
  [t \in TasksOf(u) |->
     IF createdDay[t] = subStart[u] /\ issueOf[t] # issue[u] /\ Resolved(t)
     THEN row[t].sub - (IF Captured(t) THEN Least(row[t].sub, ActualOf(t)) ELSE 0)
     ELSE 0]
WindowCoversShares ==
  \A u \in Users :
    subUsed[u] + Total(GivenBackAfterReset(u), TasksOf(u))
      >= Total(SubShareOf(u), TasksOf(u)) + Total(SubCharged(u), RequestsOf(u))

(* Refinement: the ledger's money is the whole wallet, its holds are what the *)
(* claims say is outstanding.                                                 *)
Ledger == INSTANCE HoldLedger WITH
  Amounts <- 0..MaxAmount,
  InitMoney <- [u \in Users |-> InitBalance[u] + Total(Estimate, TasksOf(u) \cap Legacy)],
  InitHeld <- [t \in Tasks |-> IF t \in Legacy THEN Estimate[t] ELSE 0],
  money <- [u \in Users |-> balance[u] + frozen[u]],
  held <- Outstanding,
  placed <- {t \in Tasks : Claimed(HoldClaim(t))},
  closed <- {t \in Tasks : Resolved(t)}

\* The settlement store implements the ledger: a hold is placed once, on money
\* that is free, and closed once, keeping no more than its own amount.
LedgerSpec == Ledger!Spec
===============================================================================
