# orflow-backend: a verification development

Orflow is a subscription-billing backend: a FastAPI application and an arq
worker over PostgreSQL, redis and one payment provider (Nomba). It bills stored
cards on a schedule, retries declined charges ("dunning"), revokes access when
retries run out, and takes first payments through the provider's hosted
checkout. This directory models the parts of it where steps of several actors
meet, checks them with TLC and proves some of their properties with TLAPS. All
paths below are relative to `src/`.

## 1. The system

### 1.1 Components

| component | state it keeps | operations | where |
|---|---|---|---|
| Status machines | `subscriptions.status`, `invoices.status` | `transition_subscription`, `transition_invoice`: check a table against the status the session holds, commit | `app/subscriptions/state_machine.py`, `app/invoices/state_machine.py` |
| Billing-cycle job | current period, invoices, `attempt_count`, `payment_attempts` | hourly: find active subscriptions whose period ended, take up or create the period's invoice, charge, pay it and advance the period, or open dunning | `app/worker/billing_cycle.py` |
| Dunning | `next_retry_at`, `dunning_failure_reason`, retries recorded, `updated_at` | `open_or_advance_dunning`, `clear_dunning`, the hourly retry job, the daily grace job, the retry policy | `app/dunning/` |
| Lifecycle endpoints | status, card link | cancel, pause, resume; linking a card | `app/subscriptions/`, `app/portal/router.py` |
| Checkout, first payment | the first invoice, the provider's order, `webhook_events`, the deferred jobs | creation, the provider webhook, verify-checkout, expiry, trial end | `app/subscriptions/service.py`, `app/subscription_pages/`, `app/webhooks/service.py`, `app/portal/router.py`, `app/worker/tasks.py` |
| Installment plans | invoices by number | creation, a charging job, completion, default | `app/worker/installments.py`, `app/invoices/state_machine.py` |
| Plan change, proration | the plan, the change's invoice and its two line items | `change_plan_flow`, day-based amounts | `app/subscriptions/service.py`, `app/proration/` |
| Outbound webhooks | event rows, queued deliveries, endpoints | enqueue, deliver with back-off, register and remove an endpoint | `app/webhooks/outbound*.py`, `app/worker/tasks.py` |
| Idempotency, rate limit | redis keys | replay of stored answers, counters with a cached limit | `app/core/` |
| Provider adapter | one bearer token and its lock | charge by reference, verify, transfer, mandates, hosted checkout, transaction list, token refresh | `app/providers/` |
| Reconciliation | runs and discrepancies | daily comparison with the provider's list | `app/reconciliation/`, `app/worker/reconciliation.py` |
| API keys | key columns of a tenant, key rows of its projects | create, regenerate, revoke; look-up by the middleware | `app/tenants/`, `app/projects/`, `app/core/` |
| Payment methods, storage | rows | the default card; tenant-filtered repositories | `app/payment_methods/`, `app/db/` |
| Catalogue, analytics, audit, web plumbing | single rows, cookies, mail | create, read, update | the other packages |

### 1.2 How they interact

* **The database rows are the shared state.** There are no row locks, no
  version columns and no conditional updates. Sessions are opened with
  `expire_on_commit=False`: an object a session read stays as it was read until
  it is refreshed, guards are evaluated on it, and a commit writes only the
  columns that were assigned.
* **One operation is many transactions.** `transition_*`, the repositories and
  the jobs each commit; a charge by the billing job is up to five commits around
  one provider call, and any of them may be the last.
* **An exception inside a job** is caught per item and rolled back, which
  expires every row of the session; the next attribute read outside a query then
  raises in async code, so in effect the whole job ends (`dunning/worker.py:64`
  intends the opposite). The model says so: every exception is `AbortJob` or
  `Close`.
* **The provider** answers a charge by reference; the same reference gives the
  same outcome. It redelivers its webhook until it is answered with success.
* **Redis** carries the deferred jobs (expiry after a checkout, the end of a
  trial), the outbound deliveries, the stored answers, the counters and the
  cached limit. Nothing in it is written together with a database commit.
* **The adapter** is one object per process: every coroutine shares its token.
* **A request** passes authentication, the rate limit and the idempotency store
  in that order (`app/main.py`), with an await at each look-up.

### 1.3 What is hard, and the properties that make it correct

The hazards are listed in `PROJECT.json` at the line where they bite. By kind:

* *stale copies and interleavings*: two runs of a job over the same due
  subscription, a cancel during a charge, a webhook and a verify-checkout on the
  same invoice;
* *a stop between two commits*: between attempt and payment, payment and
  period, payment of a retry and recovery, activation and event row;
* *lost answers*: the money was taken and nobody recorded it;
* *late timers*: a retry job that runs late, a date that stays due;
* *schedules at their end*: one retry too many, one revocation too early;
* *two stores*: a job queued in redis before the row it is about is committed,
  an endpoint's commit without the stored answer;
* *shared memory of a process*: a token dropped by one coroutine and refreshed by
  another;
* *arithmetic at boundaries*: two roundings, a cycle that was never set, a page
  that is exactly full;
* *liveness*: past_due with no retry, a due period nobody bills, a payment
  nobody credits, an event nobody delivers.

What should hold: money is captured at most once per invoice and per period; a
paid invoice is backed by captured money and a granted period by a paid invoice;
access is revoked only after the schedule and restored only by payment; the
status moves only along the table; an event is recorded only when its work is
done and settled only as its endpoints answered; a plan is completed when every
installment was captured; a retired key opens nothing, a repeated request gets
an answer that was given; and every one of the liveness items ends.

## 2. The modules

| module | models | builds on |
|---|---|---|
| `Lifecycle` | the two tables and their checks | |
| `SubscriptionMachine` | the abstract machine: one variable, moves along the table only | `Lifecycle` |
| `DunningPolicy` | `policy.py`: schedules, gaps, card-update reasons | |
| `DunningCalendar` | one cycle in calendar days, with a retry job that runs late | `DunningPolicy` |
| `Renewal` | billing job, dunning, retry job, grace job, lifecycle endpoints, cards, provider | `Lifecycle`, `DunningPolicy`; `INSTANCE SubscriptionMachine` |
| `Checkout` | creation, hosted checkout, webhook, verify-checkout, expiry, trial end | `Lifecycle` |
| `Proration` | `calculate_proration` with Python's `round` | |
| `PlanBilling` | installments job, retry job and change-plan over one subscription's invoices | `Lifecycle`, `DunningPolicy`, `Proration` |
| `Delivery` | what the webhook pipeline promises about a recorded event | |
| `Outbox` | the event row, the queued job, tries, endpoints, workers that die | `INSTANCE Delivery` |
| `NombaAdapter` | the shared token, its lock, the second try, what a body means to each method | |
| `Reconciliation` | the comparison of the two ledgers, as functions | |
| `Settlement` | the daily job paging over the adapter other coroutines use | `NombaAdapter`, `Reconciliation` |
| `ApiKeys` | create, regenerate, revoke as read and commit; the look-ups | |
| `Gateway` | the three middlewares and the endpoint, over keys that change | `ApiKeys` |
| `MCRenewal`, `MCCheckout`, `MCPlanBilling`, `MCOutbox`, `MCSettlement`, `MCGateway` | named sets for the configurations | |
| `RenewalProofs`, `RenewalSoloProofs`, `CheckoutProofs`, `DunningProofs`, `PlanBillingProofs`, `OutboxProofs`, `SettlementProofs`, `GatewayProofs` | theorems | |

`Renewal` and `PlanBilling` both contain the charge, the record and dunning.
They are kept apart because their questions are: `Renewal` follows periods, the
calendar of retries and the revocation of access over several renewals,
`PlanBilling` the invoices of one subscription that end in a completion or a new
plan. `PlanBilling` has the branches of that code which only such invoices take.

### 2.1 State and steps

One action stands for the code between two commits or provider calls. A session
(a run of a job, a request, a delivery) is a control point `pc`, what it works
on (`at`, `cur`, `todo`) and the copies it holds (`seen...`). Guards the code
evaluates on a held object are evaluated on the copy; guards of a fresh `SELECT`
on the row.

In `Renewal`:

| code | model |
|---|---|
| `process_billing_cycle` | `BillSelect`, `BillLookup`, `BillCreate`, `Charge`, `RecordAttempt`, `PayInvoice`, `AdvancePeriod` |
| `open_or_advance_dunning` | `SkipDunning`, `OpenCycle` (past_due and anchor are committed first), `ScheduleRetry`, `AdvanceCycle`, `Revoke` |
| `process_dunning_retries` | `RetrySelect`, `RetryLoad`, then the shared charge, `ClearDunning`, `Recover` |
| `process_unpaid_grace` | `GraceSelect`, `GraceCancel`; `Touch` is `updated_at`, from which the grace period is counted |
| cancel, pause, resume | `RequestRead`, `RequestCommit` |
| an exception, a dead process, a failing enqueue | `AbortJob` at the points in `AbortAt` |

Amounts, names and period lengths are abstracted: a period is its number, and
period p ends when `clock` reaches p. `ledger[i][k]` is what the provider
recorded under reference (invoice i, attempt k). `takesOrderReference` says
which adapter is plugged in: the code's `NombaProvider` does not take the
argument the billing job passes, the tests' providers do
(`tests/test_billing_cycle.py:18`). The properties about what follows a charge
need the second; one finding is about the first.

In `Checkout` each subscription has one first invoice, one order and one
creating request. `HookRead` is the delivery's reads; `HookPay`, `HookClear`,
`HookActivate`, `HookSave` (and `HookPastDue`, `HookSchedule`, `HookRecord` for
a declined event) are its commits, the last of which records the event. The
customer, `Declines` and `Pays`, is the only external part.

In `PlanBilling` the invoices (`Bills`) are the installments by number and one
per change-plan request; a session is a run of a job or such a request.

| code | model |
|---|---|
| `process_due_installment_invoices` | `JobSelect`, `JobItem`, then the shared charge |
| `process_dunning_retries` | `RetrySelect`, `RetryItem`, then the shared charge, `ClearDunning`, `Recover` |
| `change_plan_flow` | `ChangeRead`, `ChangeCreate` (the invoice's commit), `ChangeSwap` (line items and plan), then the payment or the charge |
| charge, attempt, `transition_invoice` | `Charge`, `LoseAnswer`, `RecordAttempt`, `PayInvoice`, `Remaining` (the look for open invoices), `Complete` |
| `open_or_advance_dunning` | `SkipDunning`, `OpenCycle`, `ScheduleRetry`, `AdvanceCycle`, `Revoke` |
| dates, the customer, the process | `FallsDue`, `RetryComesDue`, `LoseCard`, `Cancel`, `Abort` |

In `Outbox` a session commits changes and tells of them; whether its code
commits once more after the last event is `commitsAtEnd`, chosen at the start,
since both kinds exist (`dunning/service.py` commits, `worker/tasks.py:112`
does not).

| code | model |
|---|---|
| a `transition_*`, the commit at the end | `Change`, `Close` |
| `enqueue_webhook_event` | `Tell`, `TellFails` |
| `deliver_webhook_job` | `FindNothing`, `Begin`, `Post` per endpoint, `EndTry` |
| arq | `Acknowledge`, `Crash`, `Expire` |
| the endpoints' routes | `Register`, `Remove` |

Live and test endpoints of a tenant are two instances of this model, as an event
is posted to the endpoints of its mode only.

In `NombaAdapter` an action is a stretch between two awaits of one coroutine:
`Ensure` and `Acquire` (`_ensure_token` before and inside the lock), `Issue` and
`FetchFails` (`_fetch_token`), `Answer`, `Fail`, `Unauthorized`
(`_authed_request`), `UnauthorizedPage` and `RefusedPage` (`fetch_transactions`, the
one method that does not go through it: an answer below 500 without results, a 401
or any other refusal, is an empty page). A response body is a record of the fields the
methods decide on, and `Result` is what each makes of it. `Revoke` and `Age` are
Nomba and time. `Settlement` adds the job: `StartRun`, `AskPage`, `Enough`,
`AnswerPage`, `TakePage`, `LosePage`, `Finish`. The job asks for the next page with
the id of the last transaction it got, where the adapter's documentation
(`nomba.py:586`) means the response's own cursor: `TakePage` lets Nomba continue
the list or begin it again. Both ledgers carry days: Nomba's list is of the day before
the run and the day of the run, the attempts of the day before
(`reconciliation/service.py:40-53`).

In `Gateway` a request goes through `TenantLookup`, `ProjectLookup`,
`ResolveLimit`, `FetchPlanLimit`, `CacheLimit`, `Count`, `LookUp`, `Run`,
`Store`; `Lose` is a process that dies or a redis that does not answer. In
`ApiKeys` a dashboard request is `Read` and then `Write`, which is `CreateKey`,
`RegenerateKey` or `RevokeKey` on the row as it was read: the ORM puts a column
into the `UPDATE` only if its value differs from the one read, so a stale read
leaves columns out. Keys are numbered as they are generated. `late` and `knew`
are recorded when a request arrives, to state what an earlier answer obliges the
gateway to; no action reads them.

### 2.2 What the models leave out

* `Renewal`, `Checkout`: a cancel during the first payment, payments without a
  tokenized card, the order of items within a batch, audit entries; outbound
  events, except that enqueueing one may fail.
* `PlanBilling`: the creation of an installment plan (the first installment is
  paid at the start); the grace job's branch for an unpaid plan, which asks for
  `defaulted`, an edge the table lacks, and so raises before it writes; what a
  retried invoice of a plan change does to the billing period (it advances it,
  `dunning/worker.py:134`: a period nobody paid for, as `Renewal` has no plan
  change and `PlanBilling` no periods); two changes of plan at a time, which would
  both credit the plan they read.
* `Outbox`: listing and inspecting events; how `is_live` is chosen (a worker has no
  request context, so the events its jobs tell are live ones whatever their
  subscription).
* `Settlement`: listing and resolving discrepancies; the storage of the run (the
  worker's session closes without a commit, so `Finish` keeps the report in
  memory).
* `Gateway`: the expiry of stored answers (a day), a key reused for another path
  or body, the limit's fallback when redis is away.

## 3. The runs

| run | instance | shows |
|---|---|---|
| `renewal_jobs` | one subscription, two renewals, one session of each job, a card that comes and goes, lost answers, two jobs cut short anywhere but between a recorded attempt and what follows it, fair | `CapturedOnce`, `PeriodCollectedOnce`, `NoFreePeriod`, `RetriesWithinSchedule`, `RevokedAfterSchedule`, `LeftBehindOnlySo`, `PastDueResolves`, `DueIsBilled`, `CaptureIsCredited`, and `FollowsTable`: the jobs refine `SubscriptionMachine` |
| `renewal_concurrent` | two overlapping billing jobs, a retry job, a customer who cancels and resumes, either adapter, step-up answers, one stop before or after the attempt is recorded | `TypeOK`, `PaidIsCaptured`, `GrantedIsPaid`, `RecoveredOrResumed` |
| `dunning_calendar` | all nine reasons, two days late, sixteen days, four retries | `NeverEarly`, `DriftIsBounded`, `ExhaustedExactly`, `CycleEnds` |
| `checkout` | every kind of creation, with up to two cards stored before, two deliveries at a time, verify-checkout, the deferred jobs, the portal, one stop in any delivery or creation, fair | `CheckoutTypeOK`, `RecordedIsServed`, `PaidIsOrdered`, `ActivatedByPayment`, `PaymentIsCredited`, `IncompleteEnds` |
| `plan_billing` | two installments or a recurring plan, one job, one retrier, one change, a lost answer, one stop between commits, fair | `CompletedIsPaid`, `ChangeIsFair`, `DueIsCollected` |
| `outbox` | one session with or without a last commit, two events, two endpoints that come and go, two crashes, one refused job, fair | `OutboxTypeOK`, `KeepsPromise` (Outbox implements `Delivery`), `EventSettles` |
| `settlement` | the job and two coroutines, a revoked, an aged and an unfetched token or a failed or refused request, lists of one and a half and of two pages over two days, pages that begin again, fair | `SettlementTypeOK`, `SurvivesRevocation`, `CarriedOutOnce`, `DayIsReported`, `RunEnds` |
| `gateway` | two requests, two dashboard requests, two minutes, one change of limit, cache or process | `GatewayTypeOK`, `RetiredKeyRefused`, `WithinLimit`, `ReplayIsFaithful` |
| `finding_never_billed`, `finding_batch_ended`, `finding_event_lost`, `finding_two_days` | section 4 | |

Each property is stated over the instance in which the code keeps it; section 4
says where it stops keeping it. `GrantedIsPaid` is the part of `NoFreePeriod`
that survives overlapping jobs and `RecoveredOrResumed` what holds of the end of
arrears with customers in the picture; `CapturedOnce` does not survive overlapping
jobs and is checked, and proved, for one run of each job at a time.

Where the code can leave something undone, the property names the way instead of
the run excluding it. `LeftBehindOnlySo` lists the three ways in which a past_due
subscription comes to be selected by no job any more (its cycle waits for
another card, a retry found no card, a job was cut short at one of five commits);
`PastDueResolves` and `CaptureIsCredited` then say that anything else resolves.
`PeriodCollectedOnce` says that a second invoice of a period is captured only after
a paid one *lapsed*, and that an invoice lapses only where a job was cut short between
the payment and the period. The one commit `renewal_jobs` does not stop at is the one
between a recorded attempt and what follows it: there `CapturedOnce` and
`RetriesWithinSchedule` fail (section 4).

Two properties compare the code with an independent account of what it should
compute. `ChangeIsFair` bounds the difference between the two rounded line items
and the exact price of the days left by one minor unit. `DayIsReported` compares
the report that pages, a cursor and a look-up produced with `Books`, what a clerk
with both ledgers before him would write down of the day: of the references no
transaction of the next day bears, the report has nothing that is not in `Books`, and
lacks nothing of it but mismatches of a reference that several attempts share. For
the references of the next day it does fail, which is `finding_two_days`.

### 3.1 Bounds, and why they are enough

* `MaxClock = 2`: two renewals, so the second starts from what the first left.
* `MaxCopies`: the invoices one period may get. Two in `renewal_concurrent`, the
  least that shows a duplicate; three in `renewal_jobs`, since each of its two stops
  can leave a paid invoice behind and the period needs another.
* `MaxAttempts = 5`: one more than the longest schedule (a charge and three
  retries), so that a schedule can be overrun. `renewal_concurrent` has
  `MaxClock = 1` and `MaxAttempts = 2`, a charge and the one retry of
  `do_not_honor`: its questions are the overlaps of one renewal, not schedules. Its
  customer cancels and resumes; pausing is a request of the same shape and is left to
  the theorems.
* `MaxAborts`: one or two; the second is the retry of a retry.
* Decline reasons: `OneOfEachSchedule` has one for each way dunning goes on;
  reasons with equal schedules behave alike. `RetriedOrStepUp` has the answer that
  asks for step-up.
* Subscriptions share no state except a batch and, in `Checkout`, a customer's
  cards: one is enough for the interleavings, and `finding_batch_ended`, which is
  about a batch, has two. The two billing sessions of `renewal_concurrent` are
  symmetric: no property or action names one.
* `MaxLate = 2`, `MaxDay = 16`: the longest schedule and every delay fit.
  `MaxRuns` bounds retries answered with requires_action, which the code does
  not bound.
* `Checkout`: a second card token or customer changes nothing for one
  subscription, since only the cards of its customer count: those stored at the
  start, the one that paid and those the portal added. `MaxSaved = 2` rows of one
  card are what makes the handler's queries raise.
* `PlanBilling`: `Count = 2`, one installment paid and one to come, so that the
  last one is also the next. Prices 100 and 205 over 7 of 30 days round apart;
  0 of 0 days is a cycle that was never set. `Declines` has a reason with retries
  and one that asks for another card. `MaxAttempts = 4` is one more than the
  first charge and its retries. Two jobs at once are left to the theorem.
* `Outbox`: `LastTry = 2` and `MaxTry = 3` stand for the code's 4 and 5; what
  matters is one try before the last and one spare. Two events share the session
  that may lose them, two endpoints may answer differently. That a row is held by
  at most one session takes two of them to break and is left to the theorem.
* `Settlement`: `PageSize = 2` stands for 100, so that lists of three and four are
  a page and a half and two pages exactly; `MaxTxns = 4` is met by the second. One
  list has a transaction without a reference and one reference twice, the other a
  charge of the day of the run; two attempts share a reference. One
  revocation, one ageing and one failure at once reach every branch of the token's
  code but the second 401 of one call, which takes two revocations: that such a
  call cannot happen with one is `SurvivesRevocation`, and the theorem covers more. One method is called, as the methods share the transport; `Result` is
  evaluated on two bodies.
* `Gateway`: limits 1 and 2 with two requests, a minute that turns, one event of
  the world. `FirstKeys` leaves the tenant's column empty and the project's row
  taken, so that each manager's operation meets both cases. Two requests are a first one
and its repeat; repeats that overlap each other are left to the theorem.
* TLC must finish an instance in a few minutes; these sizes are where the cases
  above all occur and it still does.

`CHECK_DEADLOCK FALSE` stands in every configuration: time, copies and stops
are bounded, and a subscription, a queue or a request may come to rest. That
nobody waits for a lock for ever is `RunEnds`, and `lock = c <=> at[c] =
"fetching"` in `SettlementTypeOK`.

### 3.2 Fairness

* `Renewal`: weak fairness per session of each job. arq starts the crons every
  hour or every day (`worker/main.py:49`) and every statement of a job returns
  or raises, so a session that can go on does, and an idle one whose `SELECT`
  has rows starts. Time passes: period ends, retry dates and the grace period
  come. Nothing is assumed of customers and cards.
* `Checkout`: weak fairness of the creating request, of the handlers and of
  the deferred jobs; strong fairness of the delivery of each event, which is the
  provider's redelivery until it is answered with success (the router answers
  with an error when the handler raises, `webhooks/router.py:106`). Strong,
  because a delivery needs a free handler again and again, not all the time. The
  customer is not assumed to pay.
* `DunningCalendar`: weak fairness of the next step.
* `PlanBilling`: weak fairness of each session of the two jobs, as above, of a
  change once it was read, and of the coming of a retry's date. Installments
  need not fall due, and nobody must change the plan.
* `Outbox`: sessions close, and the worker serves every job that is queued. A crash
  is never required, and after `MaxTry - LastTry` of them `EventSettles` asks
  for nothing: arq's tries are then used up.
* `Settlement`: strong fairness of each coroutine's step, because `asyncio.Lock`
  hands the lock on in the order of arrival, so a coroutine that can have it again
  and again gets it; weak fairness of the job's own steps once a run was started.
  Nobody must call the adapter or start a run.
* `Gateway` has safety properties only.

### 3.3 Seeded faults

Every property has an operator marked `mutant:` in the module, the way a
plausible bug would change the definition beside it: a fresh reference for every
call, no look for an earlier run's invoice, an off-by-one at the schedule's end,
the event recorded first, the redirect taken for a payment. Put in place of its
original, each makes TLC refute the property it is listed with in
`PROJECT.json`.

## 4. Findings

Each is a run in which TLC refutes what the repository says of itself.

| run | the code | says otherwise |
|---|---|---|
| `finding_never_billed` | the billing job calls the adapter with an argument it does not take (`worker/billing_cycle.py:114`); the TypeError is swallowed on every run | `worker/billing_cycle.py:26` |
| `finding_batch_ended` | an exception in one item of the retry job rolls the session back (`dunning/worker.py:66`), which expires the rows of the batch; the next turn of the loop reads one of them outside the `try` and the job ends | `dunning/worker.py:64`, "isolate one bad invoice" |
| `finding_event_lost` | the trial job (`worker/tasks.py:112`) commits the status, then adds the event rows, queues their deliveries and ends: the rows are rolled back and the deliveries find nothing. The run has no crash and no refusing redis; the session that does not commit at its end is the cause | `webhooks/outbound_router.py:103`, "Fired when a trial period ends."; `webhooks/outbound.py:7` |
| `finding_two_days` | Nomba is asked for transactions up to the end of the day the job runs (`reconciliation/service.py:41`), the attempts stop at its beginning (line 52): every charge made between midnight and the run is reported as missing here | `worker/reconciliation.py:15`, "Reconciles the previous UTC day's transactions" |

The code also disagrees with texts that have no run of their own. Where a property
of a passing run is next to one, it states what the code keeps:

* *The grace period as the backstop* of a subscription that waits for another card
  or has none (`dunning/service.py:170`, `dunning/worker.py:92`): the grace job
  selects unpaid subscriptions only, and these are past_due. `LeftBehindOnlySo`
  counts both among the ways to be left behind.
* *The ends of arrears* in the table's comment (`subscriptions/state_machine.py:20`
  and 23: a dunning retry, a manual payment): the resume endpoint makes a
  past_due or unpaid subscription active without payment. `RecoveredOrResumed` names
  both ways.
* *"No further events will be sent to it"* (`webhooks/outbound_router.py:64`): a try
  that runs goes on with the endpoints it has read.
* *The cursor of the next page* (`providers/nomba.py:586`): the job sends the id of
  the last transaction. `DayIsReported` and `RunEnds` allow for both answers to it.
* *A single commit* (`subscriptions/service.py:329`): the invoice is committed by its
  repository before the rest; cut short in between, it stays open and belongs to no
  change.

Met while modelling, and said nowhere to be otherwise:

* *Renewal and dunning.* A cancel that commits while a job holds the
  subscription as active is overwritten by past_due or active. A job that dies
  between attempt and payment charges again, under a new reference. A retry answered with requires_action counts, but its date is not
  moved: the next hourly run charges days early. Linking a card sets
  `updated_at`, from which the grace period is counted.
* *First payment.* verify-checkout activates without a period; the webhook that
  follows skips its branch and the billing job never matches NULL. A known card
  leaves `last_four` unbound, so the handler raises on every delivery after the
  payment was committed and the event is never recorded. A declined attempt's
  event delivered after the payment makes a paid-up subscription past_due. The
  expiry job does not look at the invoice; creation cut short before the expiry
  is deferred leaves an incomplete subscription for ever.
* *Installments and plan changes.* Two overlapping runs of the installments job
  charge an invoice under two references. A plan paid up while past_due is never
  completed: the table has no such edge and the transition raises after the payment's
  commit. The grace job asks for `defaulted`, which the table lacks too.
  A plan-change invoice that is paid by a retry advances
  the billing period.
* *Outbound events.* A worker that takes the job before the row is committed finds
  nothing and the event stays pending. Events told by jobs are live ones. A worker
  that dies after the final commit posts a successful event again, and may then
  mark it failed.
* *Adapter and reconciliation.* A refusal answered to the transaction list is taken
  for its end; when Nomba is down, every attempt of the day is reported as
  missing there. The worker never commits the run. Of two attempts with one
  reference only the last is compared.
* *Gateway and keys.* Two first requests with one idempotency key both run. Two
  creations of one tenant key both answer with a key, of which the first is dead
  on arrival. A regeneration and a revocation that read the same row can leave
  the new key inactive.

Where a property would fail for one of these reasons in a passing run and does not
name the exception itself, the run or the property leaves the case out. This is the
list: `renewal_jobs` has no lifecycle requests, no answer that asks for step-up and
no stop between a recorded attempt and what follows it; `NeverEarly`,
`ExhaustedExactly` and `CycleEnds` speak of cycles that were not asked for step-up;
`SurvivesRevocation` speaks of the time before a request fails; `DayIsReported`
speaks of runs that lost no page and of lists within `max_transactions`;
`EventSettles` speaks of events whose job is still queued; `DueIsCollected` asks for
nothing once the subscription has left active; `IncompleteEnds` speaks of
subscriptions whose expiry was deferred; `WithinLimit` speaks of the limit a request
was held to, outdated or not; `ReplayIsFaithful` speaks of repeats after the first
answer.

## 5. Theorems

They hold for every number of subscriptions, invoices, sessions, events,
requests and coroutines and every bound. Their assumptions are those named in
the modules (`RenewalAssumption`, `CheckoutAssumption`, `CalendarAssumption`,
`PlanBillingAssumption`, `OutboxAssumption`, `AdapterAssumption`,
`SettlementAssumption`, `KeysAssumption`, `GatewayAssumption`): bounds are natural
numbers, inputs come from the code's own sets, identities of different kinds
differ (a subscription is no invoice), every subscription has an owner, a plan
with installments has at least one, listings and ledgers are sequences, and at
the start no key is in two slots. TLC evaluates them in the runs. What a theorem
needs beyond them is in its ASSUME and in the last column.

Every safety property of every passing run is stated by one of these theorems.

| theorem | says | only if |
|---|---|---|
| `RenewalProofs!TypeCorrect` | `TypeOK`, and a session past its lookup holds what its next commit writes to | |
| `RenewalProofs!PaidMeansCaptured` | `PaidIsCaptured`, whatever overlaps, is lost or cut short | |
| `RenewalProofs!GrantsArePaid` | `GrantedIsPaid`, whatever overlaps, is lost or cut short | |
| `RenewalProofs!ArrearsEndByPaymentOrResume` | `RecoveredOrResumed`, whatever overlaps, is lost or cut short | |
| `RenewalSoloProofs!JobsFollowTable` | `FollowsTable`: every behaviour of `Renewal` is one of `SubscriptionMachine` | `Solo` |
| `RenewalSoloProofs!RevokedWhenUsedUp` | `RevokedAfterSchedule` | `Solo` |
| `RenewalSoloProofs!PeriodsArePaid` | `NoFreePeriod` | `Solo` |
| `RenewalSoloProofs!PeriodsAreCollectedOnce` | `PeriodCollectedOnce`, wherever jobs are cut short | `Solo` |
| `RenewalSoloProofs!ArrearsAreLeftBehindOnlySo` | `LeftBehindOnlySo`, whatever cards and stops do | `Solo` |
| `RenewalSoloProofs!InvoicesAreCapturedOnce` | `CapturedOnce` | `Solo`, `PaymentNotCut` |
| `RenewalSoloProofs!RetriesStayInSchedule` | `RetriesWithinSchedule` | `Solo`, `RetryIsCounted` |
| `CheckoutProofs!RecordedMeansServed` | `RecordedIsServed` | |
| `CheckoutProofs!PaidMeansOrdered` | `PaidIsOrdered` | |
| `CheckoutProofs!ActivationIsPaid` | `ActivatedByPayment` | |
| `CheckoutProofs!CheckoutTypeCorrect` | `CheckoutTypeOK` | |
| `DunningProofs!RetriesAreNeverEarly` | `NeverEarly`, however late the job | |
| `DunningProofs!ScheduleIsUsedUp` | `ExhaustedExactly` | |
| `DunningProofs!DriftStaysBounded` | `DriftIsBounded`: a retry is late by no more than the delays of the runs up to it | |
| `PlanBillingProofs!CompletionIsPaidFor` | `CompletedIsPaid`, for overlapping jobs and any number of changes and installments | |
| `PlanBillingProofs!ChangesAreFair` | `ChangeIsFair`, for all prices and cycles and overlapping jobs | |
| `OutboxProofs!OutboxTypeCorrect` | `OutboxTypeOK` | |
| `OutboxProofs!PromiseIsKept` | `KeepsPromise`: every behaviour of `Outbox` is one of `Delivery` | |
| `SettlementProofs!SettlementTypeCorrect` | `SettlementTypeOK`, the lock included | |
| `SettlementProofs!RevocationIsSurvived` | `SurvivesRevocation` | |
| `SettlementProofs!CallsAreCarriedOutOnce` | `CarriedOutOnce` | |
| `SettlementProofs!DaysAreReported` | `DayIsReported`, for every page size, limit and pair of ledgers | |
| `GatewayProofs!GatewayTypeCorrect` | `GatewayTypeOK` | |
| `GatewayProofs!RetiredKeysAreRefused` | `RetiredKeyRefused` | |
| `GatewayProofs!ReplaysAreFaithful` | `ReplayIsFaithful` | |
| `GatewayProofs!LimitIsKept` | `WithinLimit` | |

**Renewal.** `PaidIsCaptured` is not inductive: `PayInvoice` marks the invoice
paid without looking at the provider. `AllFunded` adds what the code relies on:
a session about to pay holds an invoice of which the ledger has a capture, and
no ledger entry is ever taken back. `AllReady` adds that such a session holds an
invoice at all. Only `Charge`, `RecordAttempt` and `PayInvoice` need an
argument; every other step leaves the ledger and the invoices' payment alone
(`QuietSteps`). `GrantsArePaid` counts: the period a job writes is its copy's plus
one, so `Covered` says of each session that the paid invoices cover its copy,
that one about to pay an open invoice has that many *without* it, and that one
about to grant has one more. Stale copies do no harm because paid invoices stay
paid: the count a copy rests on only grows. `ArrearsEndByPaymentOrResume` follows from
`AllBehind`, that a session with a period to grant has a paid invoice in hand.

**Renewal, one run of each job at a time.** The other promises of `Renewal` do
not survive two runs of one job over one subscription or a request between a
job's read and its write (section 4), so these theorems assume `Solo`: one
session per job, no request. arq enqueues one job per tick
(`worker/main.py:49`), so runs of one job overlap only when one outlasts its
interval or somebody also calls the cron endpoint (`worker/cron_router.py`). The
*different* jobs do overlap under `Solo`, jobs may be cut short and cards come and
go, for any number of subscriptions. `renewal_jobs` is an instance of it.

The inductive invariant `SoloInv` has three parts. `SubSound` and `InvoiceSound`
tie the rows of a subscription together: one open invoice at most, of the
current period, with a retry date only in past_due. `SessionSound` says what each
session knows: a billing job's subscriptions are still active and in the period
it copied, a retry job's invoices are still open and due with the attempts it
copied, a grace job's subscriptions are still unpaid. `Exclusive` says that no two
sessions have to do with one subscription. It is what makes the second part
inductive, and holds because the three `SELECT`s take disjoint statuses and only
the session that holds a subscription moves it. `StepSound` is the lemma: a step on one
subscription that keeps it sound and takes up nothing of another session's keeps
the whole. The refinement and the theorem on revocation read off the steps, `NoFreePeriod`
needs that a grant follows the payment of the period's own invoice.

`PeriodsAreCollectedOnce` has two halves. `SecondCapture`: a charge that captures has
the subscription's one open invoice in hand, so any other captured invoice of the
period is paid, and nobody else is granting it. `LapseIsCut`: a paid invoice of the
current period without a session that grants it was in somebody's hands a step before
(`PaidInHand`), and of that session's steps only the exception leaves it so.
`ArrearsAreLeftBehindOnlySo` follows a subscription out of somebody's hands:
dunning is entered by a session at work (`IntoDunning`), a date goes by a session or
for want of a card (`DateGoes`), and a session that ends its item ends it with a
date, with another status or with one of the three excuses (`BillerLeaves`,
`RetrierLeaves`, `LeavingNeedsExcuse`). `Resting` says that a session between items
holds no subscription.

Two promises also depend on where a job may be cut short, and each hypothesis
names the commits the code relies on without saying so:

* `PaymentNotCut`: a job that dies after a paid attempt was recorded and before
  the payment's commit leaves an open invoice with one more attempt; the next
  charge has a new reference and captures again. Everywhere else the same
  reference gives the same answer. `LedgerSound`: no entry beyond the attempts
  counted but one, and a capture among the counted ones only if the invoice is
  paid or about to be.
* `RetryIsCounted`: a retry that is recorded and does not reach the cycle, by a
  stop or by an answer that asks for step-up, keeps its date and is made again.
  `RetriesSound`: while there is a date, fewer retries than entries were made or one
  is under way.

**Checkout.** `RecordedIsServed` relates rows written in four commits. The
invariant has two more parts. `OrdersOK`: an event is about an order, an order
about a request that has already created the subscription and its invoice, so
nothing that a delivery established can be undone by creation. `SessionOK`: what
a session has established at each point, and the crux, a delivery that skips
activation (`HookClear`, on a copy read before the payment) does so for a
subscription that was past incomplete when it was read. `Kept` is what no step
takes back (events, payments, credited invoices, the end of a first payment);
from it `OthersOK` gets every session but the one that moves, once for all
actions. `ActivationIsPaid` follows: only a delivery and verify-checkout meet an
incomplete subscription when they activate it, and both credited its invoice
before.

**Calendar.** The lemma is `GapBridges`: the gap after k retries is the
distance between milestones k and k + 1, so a retry that ran on or after its day
puts the next on or after its own, and one that ran d days late puts it d days
late. `CalendarInv` (`NeverEarly`, `ExhaustedExactly`) is the first half, `InTime`
(`DriftIsBounded`) the second: retry k runs at most k times `MaxLate` days after its
milestone, because each gap is counted from the day the last retry ran. The first
two hold unless step-up was asked for, as the properties say; drift stays bounded
all the same, since a retry that keeps its date only runs earlier.

**Plan billing.** `PlanInv` has the types, `InstallmentsOK` (an installment is open
until it is paid and a paid one was captured), completed => `AllPaid`, and
`WorkOK` for each session: one about to record holds the ledger's own answer, one
about to pay an installment has its capture in the ledger, one about to complete
saw every installment paid. The last is the point at which another session could
interfere between the look for open invoices and the status; it cannot, because
no step makes a paid installment unpaid. `Frame` (a step of one session leaves
the others' copies) and `Grows` (settled references and paid installments stay)
carry `WorkOK` over for all other sessions at once.

`ChangeIsFair` is about money and arithmetic. Arithmetic: `RoundingIsClose`
(rounding half to even is off by half a unit at most) twice gives
`ProrationIsClose`, the two rounded items differ from the exact price difference
by one unit at most, at a tie included. Money: `FairInv` says that a change's
invoice has a retry date or a capture only if something is `Owed` for it, and that
it is paid without a capture only if its net is not positive. For that, what each
session holds of a change (`FairWork`) has to be known to be owed before it may
charge, and no step of another session may take that back (`Kept`).

**Outbox.** `OutboxTypeOK` has, beside the domains, `HeldOK` (an uncommitted row is held
by one session) and `TryOK` (a running try is one of a recorded event and has split
its audience into took, refused and left; nothing of a try outlives it). Under
it every step is a step of `Delivery` or changes nothing the promise sees
(`Unseen`): commits are `Record`, the pick-up `Try`, an accepted post `Accept`, the
end of a try `Succeed`, `GiveUp` or `Break`, a death during it `Break`. The crux is
the end of a try: nobody refused means that all of the audience took it, and
somebody did means that not all did, which needs `TryOK`'s partition.

**Settlement.** `SurvivesRevocation` rests on `SecondTry`: after a 401 there is a
revoked token older than whatever is cached or in use by then. It survives
other coroutines dropping and refreshing the token because tokens are numbered
as they are issued and a drop leaves nothing cached. A second 401 is then about
a second revoked token. `CallOK` counts: a call under way was not carried out,
one that got a result was, once. `Result` is needed only to the extent that no
body makes a method answer `auth` or `down` (`ResultReached`).

`DayIsReported` has a part about paging and a part about comparing. `PagesOK`: as
long as no page was lost and none began the list again, what was got is the prefix
of the provider's list up to the cursor, whatever the adapter's other callers do to
the token meanwhile, and paging that ends below the limit has reached the end
(`PageContinues`, the page that is exactly full). `NothingInvented` and
`NothingMissed` put the pass over the provider's list with its look-up by reference,
and the pass over what it did not match, beside `Books`. Of attempts that share a
reference the look-up takes the last (`HighestExists`, `LookupFinds`), which is one of
the clerk's, so what is reported is in `Books`; only the clerk sees the others, hence
`OneAttempt` in the second half. No hypothesis on the ledgers is left.

**Gateway.** `KeysSound`: a key is in one slot at most, a key that opens its slot
was not retired, and a slot that a dashboard request saw switched off is off for
as long as it holds the key it held then. The third part is what makes a
revocation of stale reads sound: it may leave the column out of its `UPDATE`, but
only if the column is already off or the slot holds another key by now.
`LateSound` keeps a request that came with a retired key in the look-ups.
`StoreSound` and `RepeatSound` say that an answer somebody got is in the store, and
that a repeat of it gets to the store and no further. `CountSound`: the
requests that passed in a minute are no more than its counter, and one of
them was held to at least their number.

Only model-checked: the properties with fairness (`PastDueResolves`,
`DueIsBilled`, `CaptureIsCredited`, `CycleEnds`, `PaymentIsCredited`,
`IncompleteEnds`, `DueIsCollected`, `EventSettles`, `RunEnds`), as liveness and
ENABLED are beyond the prover. Induction over data is beyond it too, so `Len` and
`SubSeq` come from the library's theorems, and a module with RECURSIVE operators
is not provable at all, so there are none.

## 6. Plan

1. Theorems that need less than `Solo`: `FollowsTable` and `RevokedAfterSchedule`
   when runs of one job overlap on different subscriptions, `NoFreePeriod` with
   requests. An abstract specification of the first payment that `Checkout`
   implements.
2. The creation of an installment plan in `Checkout`, whose invoices are then the
   initial state of `PlanBilling`, and two changes of plan at a time.
3. The billing period in `PlanBilling`, to state which invoice may advance it.
4. Resolving discrepancies and a second run over the same day; the expiry of
   stored answers; the choice of the default card.

Not modelled, as nothing in them is a protocol: catalogue and accounts,
analytics, audit, cookies, mail, sign-in, migrations, seed data and scripts.
