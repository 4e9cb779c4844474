# TLA+ verification of TokenRouter

TokenRouter is a Go gateway that resells model providers: it authenticates API
keys, admits and routes requests to upstream accounts, bills wallets,
subscriptions and key quotas, and runs asynchronous jobs (batch images, creative
runs) whose money is held first and settled when the work is done. This
directory is a verification project for its backend,
`src/backend/internal`. The modules are translated from the Go source and its
SQL and Lua statements. Package documents under `src/docs` are used only to find
out what the code is meant to do.

Where this document names a file, the path is relative to
`src/backend/internal/`.

## 1. The system

### Components, state, operations and what makes each correct

| Component | State | Operations | Hard behaviours | Correct when |
|---|---|---|---|---|
| settlement store (`billing/postgres/settlement.go`, `billing/settlement.go`) | wallets (available, frozen), subscription windows, key quota and rolling windows, team counters, claims (`usage_billing_dedup`, archive), task rows' funding columns | Apply, ReserveTaskFunds, CaptureTaskFunds, ReleaseTaskFunds | replays, archived claims, best-effort refunds under a savepoint, rows of older releases, windows that turn while a hold is open | an operation takes effect once, money is conserved, frozen = open holds, usage never undercounts |
| claim retention (`billing/postgres/usage_dedup_retention.go`) | claims and archive | ArchiveUsageDedup in batches | one statement moving a claim while another transaction checks for it | a claim is never invisible to a check that decides on it |
| batch image jobs (`batchimage`) | job row and status, items, provider job, billing columns | Submit, Process, Settle, Cancel, stale recovery, output cleanup | user, worker and recovery act on the same row from stale snapshots; replies lost; five settlement attempts | a job that ends has settled or returned its hold, exactly once |
| batch queue (`batchimage/rediscache/queue.go`, `batchimage/worker.go`) | ready and delayed sets, active set, inflight markers, per-job locks | Enqueue, Reserve, MoveDue, RecoverStale, Complete, Requeue, Release, locks | crashed workers, expired leases and locks, duplicates | a job is not lost and not processed by two workers that both commit |
| creative runs (`creative`) | run row, results, stages, Redis queue, outbox | Create, worker stages, results commit, cancel, outbox dispatch | lease fencing, outbox redelivery, callbacks after cancel | results are committed once, every run ends and its hold is resolved |
| idempotency (`idempotency`) | records (processing, succeeded, failed), operation leases | Execute, reclaim, Mark..., DeleteExpired, Claim/Renew/Finish | owner that outlives its lock, cleanup of a running record | a key runs its operation at most once while its record lives; a replay returns the first result |
| scheduler (`scheduler`, `scheduler/rediscache`) | provider slots, wait queues, snapshots, sticky sessions, RPM counters, leases | acquire and release a slot, wait, rebuild a snapshot, bind a session | slot leaks on crash, stale snapshot, wait-queue accounting | never more than the limit of running requests; slots come back |
| gateway (`gateway`) | admission, failover chain, session state, streams | admit, select, forward, fail over, settle | retry after partial output, cancel during stream, settle after disconnect | a request is settled once and a failed attempt is retried only while nothing was sent |
| payment (`payment`) | orders, fulfilments, refunds, audit | checkout, webhook, fulfil, expire, refund | duplicate and late webhooks, expiry racing payment, refund half done | an order is fulfilled at most once and only when paid; refunds never exceed it |
| promotion (`promotion`) | promo codes, affiliate ledgers, redeem codes | redeem, accrue, transfer, freeze | limits under concurrency, thaw and claw back | a code is used at most as often as allowed; affiliate balance is what accrued |
| subscriptions (`billing/subscription_*.go`) | windows and their limits | assign, extend, revoke, reset, allocate | resets racing settlements | usage of a window covers what it gave out |
| api keys and teams (`apikey`, `team`) | keys, status, quota, membership, counters | create, disable, owner lock, transfer, remove | status written by users, owners and billing | a key closed by its owner stays closed |
| provider credentials (`provider`) | tokens, refresh locks, temporary unavailability | refresh, quarantine, recover | refresh token rotated by two workers | one refresh per rotation |
| upstream (`upstream`) | connection pools, OpenAI WebSocket pool | dial, lease, ping, close | a leased connection closing, pool limits | no connection is given to two requests |
| usage (`usage`) | logs, aggregates | batch insert, aggregate, clean up | retried batches, watermark | each request is counted once |
| plugin (`plugin`) | installations, processes, leases, balance ledger | start, stop, update, call back | process death during a call | a stopped plugin has no live lease |
| application lifecycle (`app/lifecycle`) | components and their order | start, stop, roll back | failure half-way | what started is stopped, in reverse order |
| the rest | moderation, ops monitoring, notification, backup, settings, identity, routing, model catalogue, search, MCP, site, audit, setup, web | CRUD and pipelines | listed in PROJECT.json as not modelled, with the reason | |

Components talk by Go calls inside one process; several processes share one
PostgreSQL database and one Redis. The only atomicity between them is that of a
SQL transaction or of a Lua script, so every module takes one transaction or one
script as a step, and splits what is not inside one.

## 2. The modules

| Module | Models | State | Extends / uses |
|---|---|---|---|
| `Totals` | sums of amounts over a finite set of tasks or requests | none | standard modules only |
| `HoldLedger` | abstract: what billing promises the owners of tasks | money, held, placed, closed | Totals |
| `TaskFunds` | `billing/postgres/settlement.go` with the retention job, the admin reset of a window, and the owner locks (`apikey/postgres/team_keys.go`) and updates (`apikey/service.go`, `APIKeyService.Update`) of a key | wallets, windows, keys, claims and archive, funding columns | Totals, `INSTANCE HoldLedger` |
| `BatchImage` | `batchimage/public.go`, `pipeline.go`, `processor.go`, `settlement.go`, `recovery.go` and their job-table statements: the owner of a task's money | job status, platform job, queue bit, position of each actor | composes with TaskFunds (`EXTENDS`) |
| `BatchQueue` | `batchimage/rediscache/queue.go` and `batchimage/worker.go` | ready, delayed, active, markers, locks, position of each worker | stands alone; justifies the `queued` bit of BatchImage |
| `Idempotency` | `idempotency/idempotency.go` and `idempotency/postgres/repository.go` | one record, position of each request | stands alone |
| `PaymentOrder` | `payment/fulfillment.go`, `order_lifecycle.go`, `expiry.go` and `payment/postgres`: from PENDING to COMPLETED or closed | the order and its lease, the payment at the provider, the redeem code, audit, credits and rebates, position of each call | stands alone |
| `PaymentRefund` | `payment/refund_workflow.go`, `payment/postgres/refund.go`: refund of a completed balance order | status and version of the order, records of the refund, balance, provider, plan of each administrator | stands alone |
| `ProviderSlots` | `scheduler/rediscache/concurrency_cache.go`, the waits and leases of `scheduler`, `gateway/live` | slots, live leases, wait counter, load index, request and attempt leases | stands alone |
| `CreativeRun` | `creative/`: creation, worker, results, outbox and their SQL and Redis statements | run row, claims, output, Redis keys, queue, outbox, position of each process | stands alone; its claims are those of TaskFunds |
| `TokenRefresh` | `provider/refresh*.go`, the managed credential operations, `provider/rediscache/oauth_token.go`, the refresh statements of `provider/postgres` | stored token, authorization server, both locks, phase of each process, position of each refresher | stands alone |
| `TaskFundsProofs` | proofs about TaskFunds and BatchImage, with the lemmas about `Total` | | BatchImage, TLAPS |
| `BatchQueueProofs`, `CreativeProofs`, `SlotsProofs`, `OrderProofs`, `RefundProofs`, `RefreshProofs`, `IdemProofs` | proofs about BatchQueue, CreativeRun, ProviderSlots, PaymentOrder, PaymentRefund, TokenRefresh, Idempotency | | the module each is about, TLAPS |
| `MCTaskFunds`, `MCBatchImage`, `MCBatchQueue`, `MCIdempotency`, `MCPaymentOrder`, `MCPaymentRefund`, `MCProviderSlots`, `MCCreativeRun`, `MCTokenRefresh` | instances for TLC | | |

Operators whose comment starts with "mutant:" are wrong versions of the
operator beside them. Nothing in the specifications uses them; they exist so that
each property can be shown to fail for a plausible bug.

### How state and actions correspond to the code

**TaskFunds.** An operation of the settlement store is one SQL transaction that
takes its claim, locks the payer's row and either applies all its effects or
rolls back, so each operation is one action: `Reserve`, `Capture`, `Release` and
`Apply`. A claim is a row of `usage_billing_dedup` named by request id and key
(`HoldClaim`, `CaptureClaim`, `ReleaseClaim`, `UsageClaim`); its value is the
fingerprint it was taken with, and it is looked for in the live table and in the
archive (`Fresh`, `Recorded`). A replay has no effect, so it is a stutter and has
no action. The wallet is `balance` and `frozen`. A payer has one subscription
window: `subUsed`, and the day it started in `subStart`;
`NewWindow` restarts it the way `NormalizeSettlementWindow` does. `row` holds
the funding columns of a task (`hold`, the wallet's part, the subscription's
part, and whether the key's allowance is held); `OldRow` is the row an older
release left, with no split recorded. `RefundKeyBestEffort` is the refund under a
savepoint that may be rolled back alone. The task's owner is reduced to `phase`:
it asks to reserve while the task is created, then commits to settling or to
refunding. That discipline is an assumption of TaskFunds about its callers, and
`BatchImage` drops it: there the operations are called with what the job code
really passes. The owner of a team locks and unlocks a key in one statement
(`DisableTeamKey`, `EnableTeamKey`). An update of a key takes two steps, `ReadKey` and
`UpdateKey`: it judges the owner's lock, and whether a new quota or a reset
reactivates the key, on what it read (`edit`, `StatusOfUpdate`), and its `UPDATE`
writes the columns it selected without a condition on them. Anything may happen in
between. Amounts are integers; one unit stands for the scale the code
rounds to. `issue`, `issueOf`, `charged`, `forgiven` (the usage updates reset) and
`outdated` (a quota or usage was set, and the status left, on a reading that was no
longer true) are history.

**BatchImage.** Four actors work on a job: the submitting request, cancelling
requests, the queue worker and the recovery loop. `pc[t][a]` names the call the
actor is about to make, a call is one step, and actors interleave between calls.
What an actor read earlier and uses later is kept: `seen` is the copy of the
funding columns with which `Cancel` releases. A call may crash before it, fail
without effect, or take effect and report an error (`CrashAt`, `FailAt`,
`LoseAt`), up to `MaxFaults` times in a behaviour. What follows a lost reply is what
the code does after the error: `Submit` takes the platform's job for an orphan when
`SubmitSave` reports one, `Cancel` returns before its release when `CancelTransition`
does, the recovery goes on to the next job when `FailStale` does. `left` is history:
the last actor to work on the job stopped there, in a call that nobody repeats
(`LastCalls`) or at a success it was not told of, and the job is in no queue;
whoever queues the job clears it. `CanTransition` is
`CanTransitionBatchImageJob`. `RecordBatchImageJobSubmitFailure` writes
`failed` whatever the status is, so `SubmitRecord` does too. The platform
is external: its job runs and ends on its own, and a cancellation may be honoured
or not.

**BatchQueue.** Each Lua script is one step. A worker's turn is reserve, lock,
visit, publish, release; `pc`, `job` and `expired` say where a worker stands.
`Orphan` is the token of a lock that nobody will release: its
process stopped, or the reply that acquired it was lost. What a
visit does is left to BatchImage; here a job wants up to `MaxVisits` visits.
BatchImage in turn reduces the queue to the bit `queued`, "some worker will visit
this job again", and to one worker per job. `NoWorkLost`,
`HolderAloneRetires` and `AdmittedIsFinished` are what makes that bit right.

**Idempotency.** `row` is the record of one key. `Execute` is a sequence of
statements and `pc` says which is next; `now` is the clock a request read when it
arrived and uses for every decision after; `seen` is the record it last read. The
two takeovers are conditional updates on the id, the status that was read and the
lock. The outcome is stored under the id alone, as in the code.

**PaymentOrder.** Every SQL statement and every call to the provider is one step,
and any call may be in the middle of any other. The lease of a fulfilment is the
update time of the row: `current` is the set of calls that hold the present
update time, `age` says whether it passed the retry delay or the lease, and any
write to the row, such as saving the upstream trade number, ends it under the
call that still fulfils. `pay` and `notices` are the provider: a payment that is
signed, open, paid or closed, and the notifications still on their way, which arrive late
and repeated. `signed` is Alipay's: the checkout address is signed locally
(`payment/provider/alipay.go:216-237`, `304-327`), and the trade exists once the user
opens it. A cancellation before that finds no trade, which the adapter reports as
success (`ClosesNothing`). Airwallex's adapter accepts whatever state the answer has; its
other exception, an empty intent, does not occur, for the reference falls back to
the merchant's number (`payment/order_lifecycle.go:500-504`). `code`, `audit`, `credits` and `rebates` are the delivery: the
redeem code named after the order (or the subscription and its audit entry), and
how often the user and the inviter were given something. `Loop` is the background
loop, of which the lock admits one at a time. `Fault` is a crash, a failed
statement, a lost reply or a stall.

**PaymentRefund.** Preparing a refund, calling the provider, and completing or
compensating it are separate transactions; between them the administrator's plan
(`plan`, read with its `version`, the update time) grows old. `receipt` is the audit entry
REFUND_PREPARED, `pending` the entry REFUND_PENDING with the provider's number.
The status `REFUNDED` stands for REFUNDED and PARTIALLY_REFUNDED. The balance is
spent by usage all the time, so a deduction may be smaller than the refund.
The families differ in what a lost reply means: EasyPay's adapter
reports an unknown outcome, the others a plain error.

**ProviderSlots.** Each Lua script, each single Redis command and each critical
section of a lease is a step. `regular` and `live` are the two sorts of slots
the limit counts together, `waiting` the counter of waiters, `index` the
best-effort index of providers with load. Of a request lease the module keeps
whether it was closed, because a slot may be handed to a lease that is released
at that moment. One process at a time works on the Redis: the slots of any other
process are removed when it starts (`concurrency_cache.go:1446-1457`,
`concurrency.go:506`).

**CreativeRun.** `run` is the row with its version; every write compares status and
version, and a process keeps in `saw` the row it read. `funds` is what the three
claims of the run did. `kept` is what Redis keeps of the input and the
image, `outbox` the three events with status and lease, `queue` the ready and
active entries, the marker and the job lock. A worker's stages are
execution, recording, saving, settlement, release and acknowledgement, and a
dispatcher replays an event from the state it finds.

**TokenRefresh.** A refresh token is used once: `valid` are the tokens the
authorization server accepts and `parent` says which token each was
exchanged for. `row` is the provider's row: token, status, switch, pause, and
whether the token is due. `lock` is the key in Redis. It names nobody, and the
module keeps who set it only to let it expire. `local` is the lock inside a
process, `phase` and `active` the barrier a stopping process waits at. A
refresher keeps the row it read (`seen`), the successor it was given (`got`) and
whether it holds the key (`owns`). `hurt` is history: what happened that the
code has no way to repair ("token": a result lost in a reply, a stop, a deadline
or a crash; "lock": Redis failed or a key ran out under its holder; "row": the
status changed during an exchange).

## 3. What the runs check

### TaskFunds

| Run | Instance | Properties |
|---|---|---|
| `task_funds` | one payer and key; a task held by an older release (1), a new task (hold 2), a request paid from the subscription (cost 2), an update of the key that may set its quota to 4; captures of 1, wallet 2, window limit 1, key quota 3, two days, a reset by an administrator | `MoneyConserved`, `KeyUsageCoversCharges`, `ExhaustedKeyIsSpent`, `WindowCoversShares`, `LedgerSpec` |

The wallet of 2 covers the wallet's part of one hold, and less once a request
was charged, so reservations both succeed and are refused. The window's limit of 1
splits the new hold. The quota of 3 is reached by a hold with the legacy charge or the
request and left again by a refund, so that keys become exhausted and are reactivated;
the update may do that too, may reset the usage, and may meet an owner's lock, a charge
or a refund between its two halves. A capture of 1 gives back a part of the new
hold. Two tasks are what a theft needs (one takes
what the other holds); two days are what a refund to the wrong window needs.
Before updates of a key were split, an instance with two requests (one of them
from the wallet), a quota of 5 and captures of 0 and 1, and one with three tasks
(795,192 states), were checked once and gave the same for the other properties.

`ExhaustedKeyIsSpent` has two exceptions, both of them keys that the code strands
(section 4): `ownerDisabled`, a key its owner locked while an update was about to activate
it, and `outdated`. `KeyUsageCoversCharges` counts what updates reset (`forgiven`) as
usage that was recorded.

`WindowCoversShares` says that the usage of a window covers what the open tasks and
the applied requests took from it. It has one exception, named in it:
`GivenBackAfterReset`, the refund of a task that reserved earlier on the day of a
reset (section 4).

`LedgerSpec` is the refinement: money is the whole wallet, what is held for a task
is what its claims say is outstanding. The ledger allows a hold only on free
money, once, and closes it once, keeping no more than that hold.

### BatchImage

| Run | Instance | Properties |
|---|---|---|
| `batch_image` | a job (hold 3, charge 2) beside a foreign legacy hold of the same payer, wallet 2, window limit 1, four settlement attempts, four faults | `FrozenIsOutstanding`, `ChargedIffDelivered`, `RefundedIsStopped`, `HoldHasACloser`, `FinishedStaysFinished` |
| `batch_image_live` | the same with fairness, three settlement attempts, four faults at any call | `EveryHoldCloses` |
| `batch_image_stale_cancel` (violation) | a cancellation between the row and its reservation, no fault | `NoHoldStolen` |

The foreign hold makes the payer's frozen balance larger than the job's own hold,
so taking too much shows as a wrong sum rather than being stopped by
the store's check of the frozen balance. `FrozenIsOutstanding`, proved
for TaskFunds from the discipline of its callers, is checked here without it, and
proved from what the actors do.

`batch_image` holds under the conditions its configuration names. Each
leaves out a behaviour that the code has and that section 4 describes:

- nobody cancels between the creation of the row and its reservation
  (`cancel-before-reserve` is not admitted);
- the platform name is not saved between a cancellation's read and its
  transition (`bind-during-cancel` is not admitted);
- `reserve` is not among the calls that may take effect and report an error; all others but
  `capture` are, the saving of the platform's name and the transition of a cancellation
  included;
- faults do not exceed the settlement attempts, and a capture does not lose its
  reply, which counts as a failed attempt itself;
- the owner does not hide a failed job by deleting its record
  (`delete-record` is not admitted), for where a job was left (`left`), `HoldHasACloser`
  counts on its owner to find it. The liveness run admits it: `EveryHoldCloses` does
  not rest on the owner.

`FinishedStaysFinished` treats `failed` and `cancelled` alike, both being
refunded: a late `RecordBatchImageJobSubmitFailure` does turn `cancelled` into
`failed`, which changes what the owner sees and not what was charged.

Fairness (`FairSpec`): a running request, the worker loop, the recovery loop, the
platform, and a cancellation that has started go on by themselves (weak fairness
on each). The worker and the recovery are tickers of long-running processes
that go on after a failed turn, a request handler runs to its end unless
its process stops, and the platform promises a terminal state. Nothing is
assumed of the owner: it need not cancel, submit again or delete. Faults are
finite, and the configuration admits a crash before every call, a failure of every call
the code treats as one that can fail, and a lost reply of every call that commits
something: those of the reservation, of the saving of the platform's name and
of the transition of a cancellation among them. (That `SubmitEnqueue` and `Retry` lose
a reply needs no step of its own: the job is then queued, as after a success.)

`EveryHoldCloses` says that every hold is resolved, or that its job is `left`. The code
leaves a job in these places, each of which makes the property fail when `Leave` is
taken out of it:

- a stop before `enqueue`, or a failed enqueue: a job that was saved and not queued is
  only taken up when its owner submits again with the same idempotency key or cancels;
- a stop before `retry`, or a failed retry: a failed release whose retry cannot be
  queued is only logged;
- a stop before `cancelRelease` or `staleRelease`: the job is already `cancelled`
  or `failed`, no longer stale, and in no queue, so that only a cancellation by
  its owner releases its hold;
- a lost reply of `save`, after which `Submit` does not queue the job it has bound; of
  `cancelTransition`, after which `Cancel` does not release; of `failStale`, after which
  the pass does not release and the next one does not find the job;
- a lost reply of `reserve`.

In all of them but the last the owner still finds the job, which is what
`HoldHasACloser` checks; after the last the job is hidden and nobody can close its hold.

### BatchQueue

| Run | Instance | Properties |
|---|---|---|
| `batch_queue` | two workers, two jobs, up to two visits and two admissions each, two faults | `QueueTypeOK`, `NoWorkLost`, `OnlyExpiryTakesALock`, `HolderAloneRetires`, `AdmittedIsFinished` |

`NoWorkLost` has two parts: an admitted job keeps a record until its last visit
is acknowledged, and no marker outlives the record. A fault is a crash, a lost
reply, a failed visit, a release that does not reach
Redis, a lock or a marker that expires under its holder. Two are enough for
the histories the code guards against: a lock expires under a worker, another
one takes the job, and then either of them fails. Two admissions let a job
be admitted again after it was retired, and two visits let a requeue meet it.

Fairness: every worker's loop, the mover of due jobs, the recovery of stale
active jobs and the expiry of a lock that nobody will release. All four are
loops of a live process or a TTL of Redis. Nobody has to admit.

### Idempotency

| Run | Instance | Properties |
|---|---|---|
| `idempotency` | three retries of one command and one request with another payload, retention 3, lock 2, wait 1, clock to 6, symmetric retries | `OneClaimant`, `LateArrivalReplays` |
| `idempotency_reclaim` (violation) | three retries, clock to 5 | `RepeatsOnlyAfterExpiry` |

The clock reaches twice the retention, so a record is created, expires, is
taken over or deleted, and lives a second retention. Three retries are
needed for one to own the record and two to race for it.

`MaxStall` bounds the time between a request's reading of the clock and its
statements. It is 1, below the lock window of 2: a request that is stalled for a
whole lock window before its `UPDATE` installs a lock that has already expired,
and then two requests run the command together. The code has no
bound there but the database timeouts. An owner that outlives its retention still
stores its outcome under the id alone and may overwrite that of its successor;
`broken` records it ("late outcome") and `OneClaimant` and `LateArrivalReplays`
exclude what follows from it.

### PaymentOrder and PaymentRefund

| Run | Instance | Properties |
|---|---|---|
| `payment_order` | one order, bought with Stripe, Alipay, Airwallex or EasyPay, for balance or a subscription; a request of any sort beside the background loop; two faults | `DeliveredOnce`, `CompletedIsDelivered`, `ClosedIsUnpaid`, `PaidStaysPaid`, `PaidIsFulfilled` |
| `payment_refund` | two symmetric administrators, balance 3, refund 2, WeChat or EasyPay, an order with or without a trade number, at most seven writes to the order (`MaxVersion`) | `BalanceExplained`, `RefundedAtProvider`, `UnknownKeepsDeduction` |

In `payment_order` the request may be a notification, a verification, a
cancellation, a forced expiry or a retry, one after the other without limit, so a
lease of the loop meets each of them at every stage. Two faults let a fulfilment
stall past its lease and its successor stop. Three calls at once were explored
one time for the safety properties (13 million states). WeChat is admitted by the
assumption and left out of the instance: it behaves as Alipay does once the
trade exists. `ClosedIsUnpaid` names what it cannot promise: an order an
administrator forced, a provider that has no way to cancel (`Cancelable`: EasyPay), and
an order for which a cancellation reported success and closed nothing (`missed`,
section 4).

Fairness, part of `Spec`: time passes (`Age`), a call that has begun goes on, a
provider delivers the notification of a payment it took, and the background loop
picks up orders whose fulfilment is due. Nobody has to pay, verify or retry.

In `payment_refund` seven versions admit a prepared refund that fails, is
compensated and is tried again by the other administrator.
`UnknownKeepsDeduction` is about the family whose adapter tells a refusal from an
unknown outcome. The others are covered by `BalanceExplained` alone.
`RefundedAtProvider` is about every way to `REFUNDED`: the reply of the call, a query
after a crash, and the query of a pending refund. It distinguishes the order that
has no trade number, which `GwRefund` answers as refunded without asking the
provider (`payment/refund_helpers.go:54`): such an order ends `REFUNDED` with the
credit taken and nothing refunded at the provider. There is no liveness here: a refund
rests where the process left it until an administrator asks.

### ProviderSlots

| Run | Instance | Properties |
|---|---|---|
| `provider_slots` | a request with two attempts and two symmetric live calls, a limit of 1, one waiter, one fault | `SlotsTypeOK`, `LimitHolds`, `NothingLeaks`, `ClosedHoldsNothing`, `WaitersCounted`, `LoadIsIndexed` |

A fault is a crash, a lost reply, a failed command or a slot that expires in use.
Three requests on one slot make two wait or be refused, one retry and one trade its
ordinary slot for a live lease. The same with a limit of 2 (4.9 million states), and
one request beside one live call with three faults (1.4 million), were explored one
time. The TTL of the wait counter is taken to be longer than any wait. The index
is best-effort. A refresh, and a pass of the periodic clean-up (`Cleaner`), read
the load and write the index in two commands, either of which may fail, and a
request may begin in between; the write then drops a provider that has load
(`concurrency_cache.go:566-567` and `1401-1403` document it). `LoadIsIndexed` excepts
by name the providers dropped by such an overtaken write (`unindexed = "raced"`) until
the next write of the index.

### CreativeRun

| Run | Instance | Properties |
|---|---|---|
| `creative_run` | one run with its request, two workers, one dispatcher, two attempts, one fault at any of the stages of `FailAt`, or a crash, stall or expiry anywhere | `PaidOrRefunded`, `EndedIsSettled`, `EveryRunEnds` |

Two workers are what an expired job lock needs. Two dispatchers were explored one
time for the safety properties (8,818,884 states). With two faults two workers can
execute one run, and the run may stay in `provider_succeeded`; the safety
properties, being proved, hold for any number of faults.

Fairness: the request and every pass of the dispatcher and of a worker go on, the
recovery of stale entries runs, a lock expires, and every event that can be
claimed again and again is claimed (strong fairness, because a pass that works on another
event disables it). `EveryRunEnds` has one exception (`<>[]RecordsInVain`: from some point on for ever) and `EndedIsSettled` another,
both named in the formula and described in section 4.

### TokenRefresh

| Run | Instance | Properties |
|---|---|---|
| `token_refresh` | a background worker in one process, a request and an administrator in another, two attempts, two tokens that age, one fault | `StoredTokenLives`, `DrainedIsQuiet`, `LateResultsYield`, `OnlyDeadIsCondemned`, `DueIsRefreshed` |

An administrator refreshes by hand, authorizes the provider again, disables it,
clears its error or its pause. Two processes make the local lock insufficient;
two tokens let a peer use a token and its successor be due. A fault is a lost reply,
a crash, a stop, a Redis failure or a lock that runs out; an outage that lasts into
the next attempt is one fault. Two faults were explored one time for the safety
properties (3,637,730 states). `StoredTokenLives` assumes that nothing the
code cannot repair has happened (`hurt`), and `LateResultsYield` is the action
property beside it without such an exception.

Fairness: a worker scans until its process stops, an admitted call runs to its end,
a key nobody will delete and a pause expire, and a process that stopped is
replaced. A request or an administrator need not come.

## 4. Findings and known behaviours

A violation run checks one statement that the repository makes and that the code
does not keep.

| Run | What happens |
|---|---|
| `batch_image_stale_cancel` | `Cancel` read the row before `Reserve` recorded its split; it then releases the whole estimate from the frozen balance although the subscription held a part. The difference belongs to other holds. |
| `idempotency_reclaim` | Two retries read one expired success. One takes the record over, runs and succeeds; the update of the other matches that fresh success (same id and status, lock cleared) and runs the command again. |

The following behaviours of the code were met while modelling. The properties
name them as exceptions, or the configurations leave their schedule out, as
section 3 says; none of them is hidden in a module.

Settlement and batch images:

- `APIKeyService.Update` reads the key (`apikey/service.go:1526`), refuses to activate
  one its owner locked on what it read (`:1757`) and writes without a condition
  (`apikey/postgres/key_store.go:557`). A lock that comes in between leaves a key that is
  active and locked; should it then reach its quota, no refund reactivates
  it until the owner unlocks it.
- The same update sets a quota or resets the usage and derives the status from
  what it read. A charge in between exhausts the key and the update leaves it
  so, above a quota or a usage that would allow more (`apikey/service.go:1773-1784`).
- The reply of a commit is lost: that of saving the platform's name
  (`batchimage/public.go:534`), of cancelling (`:1112`) or of failing a stale submission
  (`batchimage/recovery.go:93`). The actor stops there, and the hold waits for the owner; so
  it does when a process stops right before the last call of its kind, or that call
  fails (section 3).
- A window is reset on the day a task reserved from it. Its start is the same
  midnight, so the later refund lowers the usage of the new allowance
  (`billing/postgres/settlement.go:1799`).
- A cancellation that commits its release before the reservation
  commits leaves a hold that nobody can release, the claim being taken
  (`batchimage/public.go:452`).
- A cancellation that read the job without a platform name refunds a job that was bound
  and started in between (`batchimage/public.go:1112`).
- A reservation that commits and reports an error is treated as no reservation:
  the job is failed and hidden and its hold stays, beyond the reach of its owner (`batchimage/public.go:457`).
- The worker stops between capture and completion; if the replays of the capture
  fail until the attempts are used up, the exhausted settlement releases a hold
  that was captured (`batchimage/settlement.go:299`).

Payment:

- A refund whose process stops after the preparation and before the call to the
  provider rests in REFUNDING (`payment/refund_workflow.go:144`).
- Alipay answers the cancellation of a trade it does not know yet with
  `ACQ.TRADE_NOT_EXIST`, which the adapter takes for success
  (`payment/provider/alipay.go:518-529`). The order is closed while its signed address
  stays payable; a payment made later is taken up and fulfilled (`PaidIsFulfilled`).
- An order whose trade number was never stored is refunded in the books alone: the
  provider is not asked and the order becomes REFUNDED, audited as
  `REFUND_NO_TRADE_NO` (`payment/refund_helpers.go:54`).
- Stripe, WeChat and Alipay report a lost reply as a plain error, so the
  deduction of a refund that may have happened is given back.

Creative runs:

- A pass of the reconciler meets a request that has reserved nothing yet, or
  is between its hold and the row, and fails the run; a hold made after that
  release stays (`creative/results.go:295`).
- A worker records its result for as long as it keeps its lease, also when the run
  has moved to `release_pending` and can never take it (`creative/worker.go:604-640`,
  `creative/postgres/outcome.go:51`).
- A call of `SetCreativeRunAllowanceReserved` that fails ends the request without
  marking the run; the reconciler takes it up.
- The repair from a persisted provider result (`recoverPersistedProviderResult`)
  never finds a status it applies to, and no code sets `cancelled`.

Provider credentials:

- The lock in Redis lives 60 s (`provider/refresh.go:41`) and the exchange may
  take 120 s (`upstream/openai/oauth_client.go:227`). A peer then presents the
  old token, is refused and condemns the provider. The first one's conditional
  write fails because of the status, and the rotated token is lost.
- The lock is deleted whoever holds it (`provider/rediscache/oauth_token.go:87`).
- A stop, a deadline or a crash after the exchange, and a status that is
  changed during it, lose the rotated token. A Redis error leaves only the lock of
  the process.
- Clearing an error is unconditional, while
  `docs/operations/provider_maintenance.md:117` says that recovery does not
  clear an error another request has just confirmed.

## 5. What is proved

TLAPS checks the following for every value of the constants that satisfies the
named assumptions (`FiniteAssumption`, `OwnershipAssumption`, `AmountAssumption`,
`BoundAssumption`, `JobAssumption`, `QueueAssumption`, `CreativeAssumption`,
`SlotAssumption`, `OrderAssumption`, `RefundAssumption`, `RefreshAssumption`,
`IdemAssumption`). They say that sets are finite or disjoint, that functions have
their domains and ranges, and that bounds are natural numbers. Two say more:
`JobAssumption` that a job is not charged above its estimate, and `IdemAssumption`
that a request takes its record before a lock counted from its arrival could have run
out (`MaxStall < Timeout`, section 3) and that no lock outlives its record.

Every invariant and every action property of the passing runs is a theorem.
Four theorems about batch jobs have hypotheses beyond the assumptions, stated with
them; the configuration of `batch_image` satisfies all of them.

**`TypeCorrect`** (TaskFundsProofs): `Spec => []TypeOK`. The part with content is
that frozen balances and usage counters never go below zero: it needs the
store's checks and the `GREATEST(0, ..)` of its refunds.

**`FrozenCorrect`** (TaskFundsProofs): `Spec => []FrozenIsOutstanding`, the frozen
balance of a payer is the sum of its unresolved holds. The statement is
not inductive: a capture of a task that was also released, or one whose row does
not record its split, would free the wrong amount. The invariant is

    FundsInv == TypeOK /\ OwnerDiscipline /\ RowsRecordHolds /\ FrozenIsOutstanding

`OwnerDiscipline` says which claims can exist in which phase, `RowsRecordHolds`
that the row of a task with a hold says what the wallet's part is, legacy rows
included. Each operation then changes the outstanding amount of one task by what
it moves in the wallet (`FrozenMoves`, `FrozenGives`), and the sum follows from
the lemmas about `Total` in the same module (a sum changes by the change of one
element; a sum over a set without changes stays). `FundsInvStep` has one lemma per
action.

**`MoneyCorrect`** (TaskFundsProofs): `Spec => []MoneyConserved`. To FundsInv it adds
`OneRecord`, a claim is in one of the two tables, so archiving does not change the
amount a capture is recorded with, and `ChargedOnce`, nothing was
charged to a request whose claim is free. `MoneyFollows` is the arithmetic step: a
wallet that loses what one task or request gains.

**`LedgerCorrect`** (TaskFundsProofs): `Spec => LedgerSpec`, the refinement of HoldLedger
under the mapping the run checks (`money` is balance plus frozen, `held` the
outstanding part of each task's hold, `placed` and `closed` read off the claims).
`LedgerStarts` maps the initial states. Reserve is a `Place`, Capture and Release are
a `Close`, Apply is a `Spend`, each for an amount the lemma names; `LedgerSteps` shows
that task creation, the owner's decisions, archiving and the administration of keys
and windows change nothing the ledger sees. FundsInv is needed twice:
`RowsRecordHolds` makes the amount Capture and Release take out of frozen the
amount that was held, and `OwnerDiscipline` keeps a
captured task from being released and a released one from being captured, which
the claims alone do not: they are two different claims.

**`ExhaustedKeyCorrect`, `KeyUsageCorrect`, `WindowCorrect`** (TaskFundsProofs): a
key is marked exhausted only when it is; the usage of a key, and that of a window,
cover what was charged to them. The first, with its two exceptions, is inductive given
the types (`StatusInv`): a charge marks what it exhausts, a refund reactivates what it
brings below the quota, and an update is right about the key unless it is
`outdated`. The second rests on

    UsageInv == FundsInv /\ OneRecord /\ CapturesRecordAmounts
                         /\ AllowanceIsHeld /\ UsageCovers

where `AllowanceIsHeld` says that a row's allowance is open only while its hold is, so
that no refund gives the same allowance back twice. `UsageCovers` is the property over
one function of tasks and requests together, since a step changes that function
at one point. `WindowInv` adds that nobody has a share of a window that was not
issued yet (`IssuesPast`): a new window then starts with no shares, and what a refund
returns went either to the window it was taken from, or is counted by
`GivenBackAfterReset`, or the store does not return it.

**`FinishedJobsStayFinished`, `RefundsFollowTheStop`, `HoldsKeepACloser`**
(TaskFundsProofs): the four actors of a batch job against each other, for any number of
jobs, faults and retries. All rest on

    ControlInv == TypeOK /\ JobTypes
                  /\ \A t \in Jobs : Unstarted(t) /\ Binding(t) /\ Stages(t)
                                     /\ Closing(t) /\ Holding(t)

which says, for every call an actor is about to make, what it may still rely on,
although others have acted since it read the row: `Stages` that a settling job
is settled by its worker alone and that a refund outside of settlement is asked for
a job that can no longer deliver, `Closing` which claims go with which status,
`Binding` and `Holding` what the request has done by which call. The first theorem has
no further hypothesis. The second requires that no name is saved between
the read and the transition of a cancellation, the third that `reserve` does not
lose its reply and that owners do not delete the record of a failed job: each
is a behaviour of section 4 or of section 3 that does break the statement. The third
adds two invariants: `HiddenClosed`, a hidden job has no open hold, and `Tended`, a
job that was submitted, cancelled or failed and still has its hold is queued, or some
actor is at the calls that end in its release or its queue, or it was `left`.

**`JobsChargeIffTheyDeliver`, `JobsKeepTheirMoney`** (TaskFundsProofs): a job is charged
exactly when it delivers, and `FrozenIsOutstanding` holds of BatchImage, where the
discipline that `FrozenCorrect` takes from TaskFunds is not given. The
hypotheses are that nobody cancels between the row and its reservation, and

    FewFaults == MaxFaults < MaxRetries
                 \/ "capture" \notin LoseAt /\ MaxFaults <= MaxRetries

Without the first, a cancellation releases with amounts read before the reservation
recorded its split (`batch_image_stale_cancel`). The second is
the bound below which a captured job's settlement cannot run out of attempts:
with more faults the code does release a captured hold (section 4).
`JobFundsInv` adds to ControlInv that nobody asked for a job's money before its
reservation, that what a cancelling request read of the hold is still what the row
says, and `Counted`, every retry has cost a fault, which is how the bound enters.

**`QueueTypeCorrect`, `AdmittedWorkIsRecorded`, `LockIsKept`, `RecordIsTheHolders`**
(BatchQueueProofs): the queue's records keep their shapes;
no admitted work is lost and no marker stays without work; a worker loses its
lock to expiry only; the last record of a job in work is retired by its holder.
The invariant `QueueInv` strengthens these with `AckIsFinal`: a worker that is about to
acknowledge a job is at a job that wants no more visits, which is why the records
it removes are not needed.

**`NeverPaidAndRefunded`, `MoneyIsSettledAtTheEnd`** (CreativeProofs): a run is
never both captured and released, and an ended run has settled its hold. The
difficulty is that a process acts on a row it read long ago. The invariant
`RunInv == Shapes /\ RowAndMoney /\ Processes` says for every stage what
its process may still rely on, and that is only what nobody takes back:
`Advances` lists it (the version never falls, a row with the same version has the same
status, a recorded result stays, a claim stays taken). Every step `Advances`, so the
knowledge of the other processes survives it.

**`SlotsTypeCorrect`, `LimitCorrect`, `NothingIsLeaked`, `ClosedFreesItsSlot`,
`WaitersAreCounted`, `IndexShowsLoad`** (SlotsProofs): the limit for any limit, requests and faults, and what is
left behind by none. `SlotsInv` says which slots and leases exist at every
stage of a request (`SlotsAccounted`, `SlotsOwned`, `LeasesOwned`), and that the
slots in use, ordinary and live, are no more than the limit. They grow in
the two acquisitions only; a trade of one sort for the other leaves their number.

**`OrderTypeCorrect`, `OrderDeliversOnce`, `CompletedOrderIsDelivered`,
`ClosedOrderIsUnpaid`, `PaidOrderStaysPaid`** (OrderProofs): for any set of
concurrent calls. `OrderInv` has the shapes of the state, what the row implies about the
provider (`RowTruth`), what a call that saw a payment, or a cancellation that closed
something, knows (`PaymentsKnown`), and
how credits, rebates, code and audit depend on each other (`Deliveries`,
`DeliveriesKnown`). The argument does not rest on the lease: calls that outlived
theirs are stopped by the single-use code, the audit entry and the conditional
writes.

**`RefundTypeCorrect`, `DeductionsAreExplained`, `RefundedOrderIsRefunded`,
`UnknownOutcomeKeepsDeduction`** (RefundProofs): for any administrators, amounts and
queries. `RefundInv` adds to the properties that whoever is about to complete the refund
of an order with a trade number knows it was made, and that one without is never
refunded by the provider (`CompletesWhatIsDone`), and that EasyPay has one refund under
way at most (`OneAtATime`).

**`StoredTokenLivesAlways`, `DrainedIsQuietAlways`, `LateResultsYieldAlways`,
`OnlyDeadIsCondemnedAlways`** (RefreshProofs): for any processes, refreshers, attempts,
tokens and faults.

    RefreshInv == Shapes /\ Barrier /\ KeyIsHeld /\ TokensKnown /\ RowKnown

`Barrier` is why a drained process is quiet: whoever works is registered, and only who
is registered holds the local lock or a result. `KeyIsHeld` says that whoever exchanges
holds the key in Redis unless it was lost; that no two do follows, because
the key has one value. `TokensKnown` has the two facts about tokens that survive
every step of the others: a refused token stays refused, and a token that was
given out and not yet stored is known to nobody else. From these comes `RowKnown`:
while nothing happened that the code cannot repair, the row does not change under a
refresher about to store, and no rival is about to condemn the token it exchanged.
The last two theorems do not need that exception.

**`OneClaimantAlways`, `LateArrivalReplaysAlways`** (IdemProofs): for any number of
requests, payloads and times.

    IdemInv == Shapes /\ Patience /\ Read /\ Owned /\ Alone
                      /\ TakersAreEarly /\ Standing

`Owned` says that the record of a request that runs the command within its retention is
the one it wrote, processing and locked; `Alone` that there is one such request;
`TakersAreEarly` that whoever read an expired record decided with a time before the
end of that lock, so that its conditional update cannot match. `Patience` is
where `MaxStall < Timeout` enters. `Standing` says that the success a request met on
arrival is still there while its retention lasts and nothing named in `broken`
has happened.

Of the type invariants those of TaskFunds, PaymentOrder and PaymentRefund are
theorems and not repeated in a run; the shapes of the other modules are part of
their inductive invariants.

Model-checked only: liveness (`EveryHoldCloses`, `AdmittedIsFinished`,
`PaidIsFulfilled`, `EveryRunEnds`, `DueIsRefreshed`) and the two statements of the violation
runs, which are false. Liveness under fairness, `ENABLED` and induction over
data are beyond the proof system as installed. Sums needed no induction:
`Total` is the cardinality of a set of units.

## 6. What is not modelled

In the modelled components:

- TaskFunds: the rolling rate windows of a key, the counters of team members, the
  upstream provider's quota and rate multipliers. The first three are counters
  updated in the same transaction by the same pattern as the total quota; rates
  belong to the planned CapturePlan.
- The statements inside a settlement transaction. TaskFunds takes it and the
  archiver's statement as atomic; ClaimTx will split them.
- BatchImage: item rows, the content of the output, listing and downloads. They
  read the job or change what no property is about.
- BatchQueue: timestamps. "Old enough" is a choice that may be made whenever no
  live worker keeps the timestamp young.
- Idempotency: operation leases (`operation_lease.go`), planned.
- PaymentOrder and PaymentRefund: validation of amounts, providers and metadata,
  notices to users, the paging of the loop, and the refund of a subscription,
  which takes days and not balance.
- ProviderSlots: the slots and waits of users, which follow the same scripts, the
  statistics slots of API keys, the ingress leases of WebSockets, and a second
  process on the same Redis, whose start removes the slots of the first.
- CreativeRun: validation and prices, the catalogue, several outputs, and a
  user deleted while the run waits (`creative/worker.go:521`: the entry is
  acknowledged although marking the run lost may fail).
- TokenRefresh: the cache of access tokens, whose publication after the version
  check can race with a newer one, imports, credential shadows, rate admission,
  the permanent errors that say nothing of the token (client, scope, project,
  subscription: `provider/provider/refresh_errors.go:128-147`), which condemn a
  provider with a sound token, and the Grok, Antigravity and Qoder variants.

Components that are not modelled are in PROJECT.json with the reason: those of the
plan below; pure I/O (object storage, mail, search, web pages); configuration and
CRUD; and format conversion between model providers, whose size is all in data.
These, with the generated data access code, are most of the source's lines.

## 7. Plan

The order is by what goes wrong when it is wrong: first money, then work that
must happen once, then capacity, then the rest.

| # | Module | Subject | State |
|---|---|---|---|
| 1 | TaskFunds, HoldLedger | settlement store and its promise | checked, proved |
| 2 | BatchImage | the owner of a task's money; composes TaskFunds | checked, safety proved |
| 3 | BatchQueue | the queue behind it | checked, safety proved |
| 4 | Idempotency | commands at most once | checked, safety proved |
| 5 | PaymentOrder, PaymentRefund | an order is fulfilled once and only when paid; deductions of refunds | checked, safety proved |
| 6 | CreativeRun | leased stages, committed results, redelivery | checked, safety proved |
| 7 | ProviderSlots | slots, waits and leases; slots come back | checked, proved |
| 8 | TokenRefresh | refresh tokens rotated by one refresher | checked, safety proved |
| 9 | ClaimTx | claim insert, archive lookup, user lock, effects and commit as single statements under READ COMMITTED, against the archiver; abstract: a claim of TaskFunds | next |
| 10 | CapturePlan | PlanTaskCapture, window arithmetic, allocation over several subscriptions, against a reference definition over bounded inputs | next |
| 11 | OperationLease, Lifecycle | fenced leases; start, stop and rollback of components | |
| 12 | Snapshot outbox, WebSocket pool, plugin leases, promotion, team ownership | | |

Theorems to come belong to the modules to come: at-most-once of ClaimTx with its
refinement of a claim of TaskFunds, the bounds of CapturePlan, mutual exclusion
of OperationLease. No module above uses a RECURSIVE operator, so each can be proved
about.
