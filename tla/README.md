# A model of the lead scraper's run engine

This directory holds TLA+ modules, TLC configurations and TLAPS proofs for
`web-scrapper-automation`: a web application in which customers run scrapers of
county records, and are billed for the leads each run delivers. Paths below are
relative to `src/` of the repository unless they start with `src/src`, and
`workers/x.py` means `src/src/workers/x.py`.

1. [The system](#1-the-system)
2. [What is modelled](#2-what-is-modelled)
3. [What the runs check](#3-what-the-runs-check)
4. [What is proved](#4-what-is-proved)
5. [Findings](#5-findings)
6. [What is not modelled](#6-what-is-not-modelled)
7. [Plan](#7-plan)

## 1. The system

A FastAPI process serves the API; Celery workers run tasks that a Redis broker
delivers at least once (`acks_late`); a Celery beat publishes periodic sweeps;
all of them share one PostgreSQL database. There is no other shared state: the
components meet in rows, and every coordination is a conditional `UPDATE`, a
unique index, a row lock or an advisory lock. A worker commits several times in
one task, so every pair of commits is a place where another process, a crash or a
cancel can come in.

| Component | State | Operations | Hard behaviour | What makes it correct |
| --- | --- | --- | --- | --- |
| Run life cycle: `workers/tasks.py`, `tasks_helpers/status.py`, `tasks_helpers/finalize.py`, `scheduler_helpers/health.py`, `api/routes/jobs.py` | `jobs`: status, `started_at`, `retry_count`, heartbeat, `billed_at` | start, claim, stage writes, retry, fail, finalize, cancel, watchdog requeue / give up / redeliver | redelivery, lost publishes, dead workers, workers that only look dead, cancels anywhere | one owner at a time acts; an outcome is final; billed exactly when done; every run ends |
| Lead dedup and claims: `tasks_helpers/dedup.py` | `delivered_records` (one holder per hash), `results.is_duplicate`, `duplicate_reason` | claim, flag, transfer, take unheld, release (cap, failure, cancel, parcelless), sweep | two runs and two attempts move the same claims | no lead is billed twice; what was delivered stays claimed; nothing else stays claimed |
| Quota: `tasks.py:reserve_job_quota`, `tasks_helpers/plan_cap.py`, `finalize.py:_settle_user_charge`, `api/quota_window.py`, `scheduler_helpers/billing.py` | `users.records_used`, `quota_period_start/end`, `jobs.reserved_*` | reserve, cap, settle, release, sweep, roll | the window ends between any two of them | units are conserved; concurrent grants fit the allowance |
| Run slot and scheduled dispatch: `models.py:Job.holds_run_slot`, `scheduler_helpers/dispatch.py` | active job per scraper, exit acknowledgement, `next_run_at` | tick, Run now, acknowledge | two ticks; a cancelled attempt still writing | one run at a time per scraper; a slot is always freed |
| Paid lookups: `skip_trace_dispatcher.py`, `skip_trace_claim.py`, `skip_trace_capacity.py`, `tracerfy_ingest.py` | `pending_skip_trace_rows`, queues, claim time, credits | claim, submit, reconcile, release, settle, ingest | the provider charges and the answer is lost; two reconcilers | an answer is bought once, billed to its buyer, never lost |
| Usage metering: `api/billing/skip_trace_usage.py`, `tracerfy_ingest.py`, `scheduler_helpers/meter.py`, `api/routes/billing.py`, `scripts/settle_skip_trace_meter_rows.py` | allowance counter, `skip_trace_meter_events` | count, report, refuse, sweep, take back at a plan change, settle, release | a report lost or repeated; the subscription changes between usage and report; a batch that arrives in a later window | a row tells what the provider did with its event; a window's rows add up to its overage; nothing stays undecided |
| Contact-lookup actions: `contact_lookup_action.py`, `scheduler_helpers/contact_lookups.py` | action status, lease, verdict per lead | confirm, claim, wait, fail, take back, expire, settle | a lease taken back from a live task; the queue moves under the settlement | a lead is bought once; the verdicts say what the queue has; every action ends |
| Batch runs: `batch_tasks.py`, `batch_export.py`, `scheduler_helpers/batch.py` | `batch_runs`, children, lease | create, dispatch, recover, finalize, force finalize, mail | a lease outlived; a child that ends late | one outcome and one mail per run; no child outlives it |
| Outboxes: `webhook_delivery.py`, `dialer_outbox.py`, `delivery.py` | delivery rows, attempts | emit, send, retry, give up | timeout after the receiver took it | at least once, in the retry budget |
| Enrichment, background recovery | fields of `results` | lookups, sweeps | late writes to rows of a run that ended | a bill is never changed |
| Subscription billing, sessions, stream leases, account deletion, CRUD routes, scrapers, crawlers, monitoring | see `PROJECT.json` | | | |

`PROJECT.json` lists every component with its sources and status, and every
hazard of the code with its line and the property that covers it, or the reason
why none does yet.

## 2. What is modelled

### `JobRun`: the jobs of one user

`JobRun.tla` is the core: a run from its publish to its end, with the claims and
the quota it moves, and everything else that touches the same rows.

**State.**

| Variable | Code |
| --- | --- |
| `job[j]` | the `jobs` row: `status`; `retry` = `retry_count`; `started` = `started_at IS NOT NULL`; `reserved`, `count`, `window` = `reserved_at`, `reserved_count`, `reserved_period_start`; `billed` = `billed_at IS NOT NULL` |
| `queue` | the `run_scrape_job` messages the broker holds |
| `att[j][a]` | the worker that runs attempt `a` of `j`: where it stands between two transactions (`pc`), and the hashes its own insert claimed (`mine`, read by the next transaction) |
| `rows[j][l]` | `results`: absent, new, or a duplicate with its `duplicate_reason` |
| `capped[j]` | the rows with the `delivery_excluded = over_quota` mark |
| `claim[l]` | `delivered_records.first_job_id` for the hash |
| `used`, `window` | `users.records_used`, `users.quota_period_start` |
| `clock` | the window the wall clock is in |
| `delivered`, `chargedIn` | what the job billed (the code stores the count, `billed_count`), and in which window; the second is a history variable |

**Actions**, each one database transaction of the code with every write in it:

| Actions | Code |
| --- | --- |
| `Deliver`, `DeliverAgain` | `claim_attempt`: `pending -> queued`, only this CAS starts work; the second is a message delivered again or late |
| `ScrapeOk`, `SaveRows`, `StartDedup`, `RetryScrape` | the fenced `saving` stage, the unfenced `INSERT ... ON CONFLICT DO NOTHING` of the rows (its batches are one step), the fenced `deduping` stage; `_retry_scrape_job` |
| `ClaimLeads`, `MarkDuplicates` | dedup step 2 (insert claims); steps 2b and 3 (own claims, flag the rest), two transactions, neither fenced |
| `Export` | the `exporting` and `address_lookup` fences |
| `TakeUnheldClaim`, `TransferClaim`, `TransferDone` | `transfer_undelivered_claims`: one commit per hash, a hash may fail and be skipped |
| `ReserveAndCap`, `ReuseGrantAndCap` | `reserve_job_quota` and the plan cap, one transaction; a re-run reuses the grant |
| `Finalize`, `ReleaseParcelless` | `finalize_billing_and_done`: billing CAS, settlement and done-CAS together; then the parcelless release |
| `DeliveryFails`, `StopOnMiss`, `FailJob`, `ReleaseAfterFail`, `ReleaseOnCleanup`, `DropCancelledClaims` | every way an attempt leaves: an upload or cap failure, a fenced write that missed, `_fail_job` and its second commit, `_terminal_cleanup` |
| `FailAfterUncaught`, `ReleaseAfterUncaught`, `DropAfterUncaught` | `_fail_job_after_uncaught`, three commits |
| `WorkerDies` | a crash, deploy or hard time limit at any step |
| `Cancel` | `DELETE /jobs/{id}` |
| `Requeue`, `GiveUp`, `Redeliver` | `watchdog_stuck_jobs`, with a publish after the commit that may fail |
| `SweepReservation`, `SweepClaims` | the two stranded-state sweeps |
| `WindowEnds`, `RollWindow` | the wall clock, and `reconcile_quota_periods` |

**Abstractions.**

- One user: every statement modelled is scoped by `user_id`, and nothing of one
  user's rows is read for another.
- A lead is a dedup hash and one row of a run stands for it. Same-run siblings
  are collapsed before any of these statements run, and inherit the survivor's
  marks.
- `Actionable[j]` is what enrichment finds, fixed per run: whether a row has an
  address. Two runs may differ on the same lead, which is what makes claim
  transfer necessary.
- The statuses `queued` .. `enriching` are one status, `active`: no guard
  modelled tells them apart.
- The attempt token is `(started_at, retry_count)`. Both writes that put a
  claimed job back to `pending` increment `retry_count`, so the number alone names
  the claim, and `started` says whether a claim stamped the row.
- `Silent` is the set of jobs whose worker may be alive although its heartbeat
  writes fail for longer than the watchdog's cutoff; for the other jobs, the
  watchdog acts only on an attempt that is gone. A superseded attempt is
  reachable for the first kind only, and the runs show which guarantees
  survive it.
- `Metered = FALSE` is a plan with limit -1, which skips the plan cap; such an
  account that froze or ended during the run enters it and is granted nothing.
- `Granted` allows 0 at any time: a frozen or ended account.
- The order of `Leads` is the plan cap's ranking order, which is total.
- A database error inside one transaction rolls it back: it is the step not
  taken, followed by the exit its handler takes (`DeliveryFails`,
  `FailAfterUncaught`, or the loop's next hash).

### `RunContract`: what a run promises

The abstract specification: a run is open, ends once, in one of three ways, and
charges for a set of leads no other run charged for in the very step in which it
is done. `JobRun` implements it under the mapping `outcome <- Outcome,
charged <- delivered` (`KeepsContract`).

### `MCJobRun` and the configurations

`MCJobRun` names the two jobs and gives `Found` and `Actionable` their values.
Both jobs find every lead; in the configurations that need claim transfers the
first job gets an address for lead 1 only.

### `RunSlot`: one run of a scraper at a time

`RunSlot.tla` is the run of `JobRun` seen from its scraper: whoever starts a run
looks whether the slot is held (`_run_in_flight`, the scheduler's blocker check,
the batch's fan-out), then inserts a job, and two transactions lie between.

| Variable | Code |
| --- | --- |
| `job[j]` | the `jobs` row of the n-th job of a scraper: `status`, `retry_count`, `beat` = the two heartbeat stamps, `old` = started longer ago than the hard time limit; `seen` is a history variable: how many jobs of the scraper were settled when this job's starter looked |
| `live[j]` | the attempts of `j` whose worker still runs |
| `look[s]` | what a request or tick found free, and not yet inserted |

Actions: `Look`, `Enter` (insert, refused by the unique index
`uq_jobs_one_active_per_config`), `Claim`, `Finish`, `RetryScrape`, `Cancel`, `Exit`
(`HeartbeatThread.__exit__` and the acknowledgement), `Die`, `Requeue`, `GiveUp`,
`Lapse`. A pending job may be claimed at any time: its message may be published
again. What a worker does to leads and quota is `JobRun`'s.

### `BatchRun`: a batch of scrapers, over `RunSlot`

`BatchRun.tla` EXTENDS `RunSlot`: its children are `RunSlot`'s jobs and compete
with `RunSlot`'s starters for the same slots. `run[b]` is the `batch_runs` row,
`fan[b]` what the dispatch that holds its row lock has found free, `dispatches` the
messages at the broker, `fin[f]` a sweep between the claim of a lease, its
write and its delivery. Actions: `Create`, `DispatchRefused`, `DispatchLook`,
`DispatchCommit`, `DispatchDies`, `Redispatch`, `GiveUpPending`, `Late`,
`SweepClaim`, `LeaseExpires`, `Finalize`, `FinalizeFails`, `Deliver`,
`FinalizerDies`. `Finalize` of a forced run cancels what had not ended *when it
looked* (`TimedOut`, the statuses read before) and exports what is done *when it
writes*, as the statements of `finalize_batch_run` do.

Abstractions: one batch and no deleted scrapers or children; the claim of the
lease and the read of the children are one step; the export is the set of done
children; the recovery sweep's re-send of a child's own message is not a step; no
fairness is stated, and nothing is claimed about when a run ends.

### `PaidLookup` and `LookupContract`: buying a contact lookup

`PaidLookup.tla` follows a row from the run that queues it to the answer its lead
shows. The provider is external: it takes a batch or not, charges for what it
took, and shows a list that may be behind.

| Variable | Code |
| --- | --- |
| `row[r]`, `lead[r]` | `pending_skip_trace_rows` (status, the claim's `submitted_at`, queue id) and `results.skip_trace_status` |
| `wanted`, `cache` | what `claim_skip_trace_rows` and `_cancel_undeliverable` ask of the lead's job; keys with a cached answer |
| `made`, `window`, `quiet`, `fresh` | claims in the order of their time, which of them are near one another, and which are not stale yet |
| `batch[c]`, `queue[c]` | the provider's record of a claim's batch; its `skip_trace_queues` row |
| `msgs` | `ingest_tracerfy_batch` messages |
| `used` | `skip_trace_used_this_month` |
| `tick[t]` | where a dispatcher tick is, and what it read before it resolves stale claims |

Actions: `Enqueue`, `StopWanting`; of a tick `StartTick` (redrive, and the reads of
the reconciler), `Resolve` (adopt or release one stale claim), the settle sweep and
the cancel of what is no longer deliverable, `Claim` under caps, the post with each
of its outcomes, the retried post, bookkeeping and its retry, `Die` anywhere;
`Age`, `ProviderCompletes`, `LoseMessage`, `Ingest`, `IngestFails`.

`LookupContract` is the abstract specification: each lookup is charged at most
once, only while it is out at the provider, and once charged is never put back in
line nor written off. `KeepsContract` is the refinement, with `phase` computed
from the row and its lead, and `charged` from the provider's batches.

Abstractions: one account, one trace type of one credit, one rolling day and one
cache window; a claim is identified by its time; the provider's `created_at` falls
into the tight window of its own claim; a post and its bookkeeping are far shorter
than the half hour after which a claim is stale; stale claims are resolved in any
order; which rows lack an address is left open; an adopted batch has its result
link; no cascade deletion; a lead is queued once. The global cap, when it is
reached, ends the tick and with it reconciliation, as in the code.

### `ContactAction`: a confirmed purchase of contacts

`ContactAction.tla` has the action from `POST /jobs/{id}/contact-lookups` to its
end, with the lease under which `lookup_contacts` claims its leads and the
reconciler of the beat, over the rows of the paid queue, which move as
`PaidLookup` lets them (`Send`, `SendFails`, `Sticks`, `Unsticks`, `Answer`,
`TakeKnown`, `Withdraw`, and `Enqueue` of the run itself). `action[a]` is the
`contact_lookup_actions` row, `verdict[a][r]` its result rows, `rows[b][r]` the
pending row buyer `b` owns, `worker[w]` a task before and after it locked the
action. `Claim` decides every lead of the action in one transaction, as the code
does.

Abstractions: the quote in Redis is not a variable, a confirm offers any set of
leads; the message may come at any time and any number of times; kill switches,
gates and `LIMIT`s are nondeterministic; the count columns, which are recomputable,
and the `excluded_*` verdicts' reasons are left out; one row per buyer and lead.

### `UsageMeter`: billing what the allowance does not cover

| Variable | Code |
| --- | --- |
| `now`, `window` | the clock; the start of the user's effective entitlement window |
| `used`, `usedFrom` | `skip_trace_used_this_month`, `skip_trace_period_start` |
| `batch[b]` | the lookup batch: in which state, `provider_submitted_at` (0: unknown), the window it was counted in |
| `row[b]` | the `skip_trace_meter_events` row: disposition, reason, `billable_units` |
| `queue` | `report_skip_trace_meter_event` messages |
| `lock`, `seen` | advisory lock 4243 of the user: free, a reporting batch, or a plan change before or after its marking; the subscription as the holder read it |
| `customer` | `users.stripe_customer_id` is set |
| `sub`, `accepted`, `invoiced` | the provider's: the subscription with its period and its metered item, which item took an event (`Missed`: its period was not open any more), which events reached an invoice |
| `blind` | history, read by no action: batches sent, or released, past a change that whoever did so had not seen |

Actions: `Submit`, `Ingest` (counter, row and commit, then the enqueue),
`WindowRolls`; the report task's `Refuse` or `Pass` at the gate, `Send`, `Commit`,
`LoseReport` and `Skip`; `Sweep`; `StartCheckout`; the life of the subscription
(`Subscribe`, `Renew`, `PaymentFails`, `PaymentClears`, `SubscriptionEnds`);
`ReadPlan`, `MarkStranded`, `ReplaceItem`, `AbandonChange` of `change_plan`; `Decide`
and `Release` of the settle script. The gate lists the subscriptions in one call and
the event is created in another; the plan change lists them, marks rows in a
transaction of its own, and asks the provider. The billing lock keeps these two out
of each other's way and nobody else: the subscription renews and ends, and the
operator releases, between any two of these steps.

Abstractions: time is logical and each dated event has its own instant; one user,
one quota, one subscription with one metered item; usage passes the provider's limit
on backdating whenever the gate looks (`old`), and a row refused for it is never asked
again; the provider takes an event once per identifier for ever, also one dated in a
period that has closed, which then reaches no invoice (the code assumes as much,
`skip_trace_usage.py:405-412`); a change the provider was asked for is applied or
refused by the time its call returns; a subscription ends with a last invoice; the
read of a decided row and the write are one step; a settled row and one written off are
one disposition, `decided`, and the script lets an operator decide any row in review.
Deployments without billing, frozen windows, usage dated in the future, rows without a
recorded quantity and the clearing of a customer id are not modelled.

`MCBatchRun`, `MCPaidLookup`, `MCContactAction` and `MCUsageMeter` give these
modules their small instances, described with the runs.

## 3. What the runs check

| Run | Instance | Shows |
| --- | --- | --- |
| `dedup` | two jobs, two leads, allowance 2, one retry, no silent worker | `TypeOK`, `BilledIsDeliverable`, `NoDoubleDelivery`, `DeliveredHoldsClaim`, `BilledWithinGrant`, `KeepsContract`: through deaths, retries, restarts, cancels and sweeps each lead is billed by one run at most, stays on the list of that run and stays claimed by it |
| `unlimited` | unlimited plan, lead 2 a weak (name and date) hash | `BilledIsDeliverable`, `Conservation`: the parcelless release after the bill takes nothing that was delivered, and the counter equals what was billed |
| `quota` | two jobs, one lead, allowance 1, two windows | `Conservation` and `WithinQuota` with a window that ends between any two steps |
| `stale` | one job, two restarts, its heartbeat writes fail; fairness | three attempts of one job interleave everywhere: `Conservation`, `BilledIffDone`, `TerminalIsFinal` and `LiveClaimsReleasedByOwner` are safe from the superseded ones, and `EveryJobEnds`, `ReservationsReturn`, `ClaimsReturn` |
| `lookup` | two ticks, two rows for one answer and a third row, two claims, caps of 2 and 3 credits | `TypeOK`, `LeadShowsRow`, `RepurchasedOnlyUnanswered`, `ChargedWithinCap`, `BilledWasBought`, `AnswersFromOwnBatch`, `KeepsContract` under unknown outcomes, deaths, a provider list that is behind, repeated webhooks |
| `lookup_live` | one tick, two rows, one queued late and one that may stop being wanted, both batches lossy; fairness | `ClaimsResolve`, `BatchesSettle` |
| `batch` | two scrapers with two runs and one, one starter of the side, one batch run, two finalizers | `TypeOK`, `SlotSafe`, `NoChildOutlivesRun`, `OutcomeHonest`, `FinalIsFinal` |
| `contact` | one action, two leads of one person, two tasks; fairness | `TypeOK`, `LedgerMatchesQueue`, `NeverBoughtTwice`, `SettledStatesBilling`, `EndedStays`, `ActionEnds`, with the run's own enqueue as the competing buyer |
| `meter` | two batches of one lookup and two, allowance 1, four instants, with a subscription at the start or without, one batch whose reports may be lost; fairness | `RowsTellTheMeter`, `WindowsAddUp`, `RowsAnswered` |
| `hidden`, `overbilled`, `contact_reused` | as `dedup`, with a silent worker, as `contact` | the findings of section 5 |

`CHECK_DEADLOCK FALSE` is set throughout: a system whose jobs are all over, with
nothing to sweep, has nothing left to do.

**Bounds.** Two jobs are the fewest that compete for a claim, for the allowance
or for a window; claims and grants are pairwise matters (a holder and a
challenger), and a third job meets each of the two the same way. Two leads let
the plan cap deliver one and exclude the other, and let one be a lead for both
runs and the other for one only. `Limit = 1` makes the allowance contended;
`dedup` has 2, so that both leads could be billed twice and a reservation left
behind still starves the other run.
`MaxRetries = 1` gives an original and a replacement, and exhausts the budget
(the code's is 3, and its `SCRAPE_TRANSIENT_MAX_RETRIES` is `TransientRetries`);
`stale` uses 2, so that a superseded attempt can itself have superseded another.
`Windows = 2` gives a stored window that the clock has left, `Windows = 1` is
used where windows play no part. Every counter of the model is bounded by these
constants; there is no state constraint.

`PaidLookup`: an answer is bought twice only by two claims, so `MaxClaims = 2`;
the third row gives a batch that holds rows of both answers, and a cap of 2 that
one claim may fill. Ticks are alike and so are the two rows of one answer, which
the symmetry set says; `lookup_live` has liveness and no symmetry. `BatchRun`: a
scraper whose slot can be taken by another run before or after the batch's child
(`c1`, two jobs) and one that only the batch runs; a first job that is silent
and may be restarted; two finalizers are the fewest that steal a lease, and are
alike. `ContactAction`: a twin is another lead of the same key; two tasks are the
task that lost the lease and the one that took it. `UsageMeter`: one batch that
fits the allowance and one that does not, so that the order of their ingestion
decides which is billed; four instants are the first period, usage, and any two of a
second usage, a window's roll, a renewal, an item's replacement and a new subscription.

**Fairness.** Of `JobRun` (`FairSpec`): `Work(j, a)`: a worker that is alive and
between two transactions goes on (each call it makes has a timeout, the task a hard
limit, and a crash is `WorkerDies`). `Deliver(j)`: the broker delivers what it holds
to some worker. `Recover(j)`, `SweepReservation(j)`, `SweepClaims`: the beat
publishes the watchdog and both sweeps every 5 minutes (`scheduler.py:79-101`),
and each handles every row it selects. All of it is weak fairness, so nothing is
assumed about which of several enabled steps a worker takes. Deaths, cancels,
repeated deliveries, failing publishes, the end of a window and the roll of an
idle one are owed to nobody. `EveryJobEnds` does not need publishes to succeed:
it rests on the watchdog's redelivery and on the retry budget.

Of `PaidLookup`: a tick that lives takes its next step, claims age, the provider
completes a batch it took (weak); the beat starts a tick again and again, a stale
claim that the reconciler can resolve in some of its visits is resolved in one, and
one of the repeated ingests of a batch succeeds (strong: each is interrupted by
deaths and failing calls, and retried by the next tick or by the redrive).
`ClaimsResolve` and `BatchesSettle` say what these buy and no more. The
reconciler leaves a claim alone as long as something near it is in doubt; the
global cap, once reached, ends a tick before it reconciles; and a queue row
whose result link was never recorded waits for its webhook alone, so only rows with a
link settle.

Of `ContactAction`: the beat's three passes and a task that locked its action (weak);
a row that is sent again and again is sent and answered (strong), a queued row takes a
known answer that stays (weak). Tasks before their lock, publishes and stuck lookups
are owed to nobody; an action that waits for a row a human was told of counts as
answered (`WithHuman`).

Of `UsageMeter`: some sweep of the beat gets the pending rows to the broker while no
billing change of the user is under way (strong: plan changes are a person's clicks and
each holds the lock for one request, the sweep comes every three minutes); a report
task that is given the lock again and again passes or is refused, and one that passes
again and again gets an answer and commits it (strong, each is retried on every
sweep); a plan change ends, because its lock is held by one database transaction
(weak). Nothing is owed by the operator, the user or the subscription, and a batch in
`Lossy` may lose its report after any acceptance.

**What each property is for** is in the comment above it in its module, and
every one of them is broken by a mutant of the code (definitions marked "Mutant"
in the module; `PROJECT.json` pairs them): a dropped status check, a write by
key in place of a compare-and-set, a refund of the wrong window, a lease that is
not compared, a release judged on a stale list, and so on.

Why some properties are not in every run. With a silent worker,
`BilledWithinGrant` fails (section 5), and with it `WithinQuota`; the dedup
properties are checked without silent workers only: a superseded attempt runs steps
2 and 3 and the transfer unfenced, on the rows its replacement is working with.

## 4. What is proved

All theorems hold for every value of the constants that satisfies the assumptions
of their modules (`ConstantsAssumption`, `SlotConstants`, `BatchConstants` and so on),
which bound nothing: they say which constants are naturals and which sets are finite.
Every invariant and every action property that a passing run checks, and both
refinements, is the statement of a theorem here.

**`JobRun`.** For every number of jobs, leads, retries and windows, every `Found`, `Actionable`,
`Strong` and `Silent`, and both kinds of plan (`ConstantsAssumption` is all that
is assumed; the theorems marked † assume `Silent = {}` besides, that is, no worker
that is alive looks dead to the watchdog):

| Theorem | States |
| --- | --- |
| `TypeCorrect` (`JobRunProofs`) | `Spec => []TypeOK` |
| `OutcomesCorrect` | `Spec => []BilledIffDone`: billed exactly when done |
| `TerminalStaysFinal` | `Spec => TerminalIsFinal`: no message, worker, watchdog or cancel changes the status of a job that is over |
| `LiveClaimsStay` | `Spec => LiveClaimsReleasedByOwner`: a claim of a job in flight is given up only in a step of the attempt that owns it |
| `DeliveredStaysClaimed` † (`JobRunDedupProofs`) | `Spec => []DeliveredHoldsClaim`: what a run billed stays claimed by it |
| `NoLeadBilledTwice` † | `Spec => []NoDoubleDelivery`: no lead is billed by two runs |
| `BillStaysTheList` † | `Spec => []BilledIsDeliverable`: the list of a done run stays what it billed |
| `RunsKeepContract` † | `Spec => KeepsContract`: `JobRun` implements `RunContract` |
| `QuotaConserved` (`JobRunQuotaProofs`) | `Spec => []Conservation`: the counter is what was billed and is reserved in its window, superseded workers or not |
| `BillsFitGrants` † | `Spec => []BilledWithinGrant`: a run bills no more leads than it was granted |
| `GrantsFitLimit` † | `Spec => []WithinQuota`: the grants of a window fit the allowance together |

**The argument.** `TypeOK` is inductive by itself: no retry leaves its budget
since both re-pending steps compare first, and `used` stays a natural number
because every subtraction is clamped (`GREATEST(0, ...)` in the code).

`BilledIffDone` is not inductive alone. Its danger is a step that writes a status
or moves claims from a stale belief about the outcome. The inductive invariant
`OutcomeInv` adds `ExitsMatch`: an attempt that is tidying up works on a `done`
job, and one that is past its failure commit works on a `failed` job. These steps
do not read the status again, so the proof must carry what it was, and it is
stable only because no step leaves a terminal status. The steps of `Next` fall
into those that leave status and billing of every job alone (`QuietStep`,
`SameOutcomes`) and the few that settle or re-open one (`Settles`, `StatusStep`);
each of the latter has a guard on the status in its own statement.

`TerminalStaysFinal` follows from the same split (`OverIsOver`) and
`OutcomeInv`. `LiveClaimsStay` goes through every statement that deletes or moves
a claim (`ClaimKept`): each is either keyed by a job that is over (the sweep, the
cleanup of a cancelled job, the transfer, and, by `ExitsMatch`, the uncaught
cleanup and the parcelless release), or checks the attempt token in its own
transaction (the plan cap, `release_run_claims_if_owned`).

The dedup theorems rest on a second invariant, `DedupInv`, which adds four parts
to `OutcomeInv`. `SoleAttempt`: a job has one live attempt at most, because a
restart finds the attempt before it gone; this is where `Silent = {}` is used.
`FlightHeld`: from the step that flags duplicates to the bill, the attempt of a
job in flight holds the claim of every row that is still a first delivery. It is
kept because others do not take such claims (`ClaimKept` again) and do not turn
rows of the job into first deliveries (`RowsKept`), and because each step of the
attempt itself hands it on (`HeldMoved`: the plan cap excludes exactly the rows
whose claims it deletes). `DoneQuiet`: the worker of a done job only tidies up.
`DoneHeld`: a done job lists and holds what it billed, any other billed nothing.
`NoDoubleDelivery` is then a consequence of `claim` being a function, as it is of
the unique index in the code; `RunsKeepContract` maps `Finalize` to `Complete`,
the three ways to end unbilled to `EndUncharged`, and every other step to a
stutter (`HowJobsEnd`). `dedup` checks every one of these properties on the small
instance, and `DedupInv` was checked there before it was proved.

The quota theorems count units: pairs of a job and a number up to what it was
billed or granted, a finite set whose size is the sum (`SharesMove`: when one job's share
changes, the size changes by as much). `QuotaInv` makes `Conservation` inductive.
The dangers are a unit given back twice or to the wrong window, and a clamp at 0 that
hides it. `GrantKept`: a job that is billed, or goes to the bill, still has its
grant, so settlement subtracts from a reservation that is in the counter;
`CleanupOver`: what releases a grant works on a job that is over;
`QuotaBounds`: no grant is of a window to come, so the roll of a window, which sets the
counter to 0, leaves nothing counted behind. Each step moves the quota in one of a
few ways (`QuotaIdle`, `Releases`, `Reserves`, the bill and the roll) and
`QuotaMoves` adds each up. `FitInv` adds to this and to `DedupInv` that the list an
attempt is about to bill fits the grant (`ListFits`): the plan cap excludes every row
whose rank is beyond the grant (`CapFits`), and until the bill the list only shrinks
(`ListShrinks`), because the one attempt that adds to a job's list is past its transfer.
That is where `Silent = {}` is needed, and where finding 2 breaks it. `WithinQuota`
follows step by step: a reservation is granted what is left of the limit beside the
counter, and by `Conservation` the counter is no less than what the others hold, since
a bill is as large as its grant at most (`SharesShrink`).

**`RunSlot` and `BatchRun`.** For every number of scrapers, jobs, starters, batch
runs and finalizers, and any silent workers:

| Theorem | States |
| --- | --- |
| `SlotKept` (`RunSlotProofs`) | `SlotSpec => []WorkerHoldsSlot`: a worker that is not superseded keeps its scraper's slot for its job |
| `SlotIsExclusive` | `SlotSpec => []SlotExclusive`: two workers of a scraper run side by side only if the later job's starter looked before the earlier job was settled |
| `BatchTypes` (`BatchRunProofs`) | `Spec => []TypeOK` |
| `BatchKeepsSlot` | `Spec => []SlotSafe`: the batch's own dispatch, cancels and forced finalize keep both |
| `ChildrenEnd` | `Spec => []NoChildOutlivesRun` |
| `OutcomesHonest` | `Spec => []OutcomeHonest` |
| `FinalStays` | `Spec => FinalIsFinal` |

`SlotInv` says of each job (`Holds`) in which statuses an attempt may live and what
its heartbeat columns then are; that the jobs of a scraper are made in order and
that only the last is active (`InOrder`); and, for exclusion, that a job the starter
saw settled is quiet (`SeenQuiet`: over, and without a worker but superseded ones), now
and for good. What
a starter has found and not yet inserted obeys the same (`LookInv`). The core of
the proof is that a quiet job stays quiet: the steps that could wake it are fenced by
the status and the attempt. `BatchInv` adds that the looks of a dispatch are good
looks (`FanInv`), that an ended run is what it should be (`RowGood`), and that what a
finalizer read stays true until it writes or is refused (`ReadGood`): a child that
was over stays as it was, which `RunSlot`'s steps promise.

**`ContactAction`.** For every number of actions, tasks and leads, and any `Key`:

| Theorem | States |
| --- | --- |
| `TypeCorrect` (`ContactActionProofs`) | `Spec => []TypeOK` |
| `LedgerAgrees` | `Spec => []LedgerMatchesQueue` |
| `SettledIsTrue` | `Spec => []SettledStatesBilling` |
| `BoughtByOne` | `Spec => []NeverBoughtTwice` |
| `EndedActionsStay` | `Spec => EndedStays` |

`TypeInv` adds to `TypeOK` that a task that has locked its action holds the lease
of the running action (`LockInv`).
`LedgerInv` ties each verdict to what the row of its lead may be: the row of a
`newly_queued` verdict is there, an answered verdict is the one derived from its row,
and a settled action has no `newly_queued` left. It is inductive because the queue's steps leave
a row that is over alone and the reconciler writes only what it derives.
`BoughtInv` adds the fact the purchase rests on: a lead that anybody's row stands
for is not `not_attempted`, and both buyers compare that status in the statement that
takes the lead.

**`PaidLookup`.** For every number of rows, ticks and claims, any `Key`, caps and
lossy batches (`LookupConstants`):

| Theorem | States |
| --- | --- |
| `LookupsAgree` (`PaidLookupProofs`) | `Spec => []LookupInv`, the inductive invariant below |
| `TypeCorrect` | `Spec => []TypeOK` |
| `LeadsShowRows` | `Spec => []LeadShowsRow` |
| `OwnBatchOnly` | `Spec => []AnswersFromOwnBatch`: a row is booked to the batch that carried it only |
| `NoAnswerTwice` | `Spec => []RepurchasedOnlyUnanswered` |
| `ChargesWithinCaps` | `Spec => []ChargedWithinCap` |
| `BilledOnceIfBought` | `Spec => []BilledWasBought` |
| `LookupsKeepContract` | `Spec => KeepsContract`: each row implements `LookupContract` |

`LookupInv` has six parts beside the types. `ClaimGood`: the provider's batch of a claim was sent
with exactly the rows that bear the claim, and its queue row is recorded, and billed, as
it was sent. `RowGood`: a row is booked to its own claim's batch, and its status says
how far the queue row of that batch is. `TickGood` and `TicksApart`: a tick works
on a fresh claim of its own, which no other tick works on. `ViewGood` is the crux: what
a tick read of stale claims (the provider's list, the recorded queue ids) stays
good enough until it resolves them. A stale claim has nobody left who could post it, so a
batch that it has now was there, and listed, when the list was read; and whatever
else on that list could be taken for the claim's batch was counted as contested when it was
read. An adoption therefore finds the claim's own batch, and a release a claim the
provider never took. `AnswersApart`: of two claims for one answer, the earlier one
ended `unmatched`. `SpentWithinCaps`: what is reserved and charged fits the caps.
The proof first says how each action moves a row (`RowStep`), a batch with its queue row
(`ClaimStep`), the claims and a tick, once, and then shows that each part of the invariant
survives these moves, so that no part is proved action by action. The refinement
maps the same `RowStep` to steps of the contract (`RowKeepsContract`); that a charge
comes only with the post is `ChargesMove`.

**`UsageMeter`.** `TypeCorrect`, `OverageAddsUp` (`Spec => []WindowsAddUp`) and `RowsTrue`
(`Spec => []RowsTellTheMeter`), for any number of batches, renewals, plan changes and
releases, from `MeterConstants` alone. `MeterInv` adds that the past is past (`Past`:
usage, items and periods are not later than the clock, and what the holder of the lock
saw is no newer than what is) and, per row, its shape (`Shape`), which item took its
event (`Taken`: if none could, the sender was `blind`), and `RowsTellTheMeter` with a
report or a plan change under way (`Told`: once the rows are marked and until the
item is replaced, every row that still says `reported` is on an invoice, or `blind`).
Three facts carry it. The gate compares the usage's time with the start of the open
item and period, so an event some older item took is of usage older than these, and no
retry passes the gate again. Between the gate and the send the item stays, since a
plan change needs the lock; if the period did not move either, the item takes the event
for an invoice to come. And the rows a marking leaves reported are of periods
that were closed when the plan change read the subscription, hence invoiced. For `OverageAddsUp`, `CountInv` says that the
counter is the total of what was counted in the window it belongs to (`Sums`), that no
batch is counted in a later window than that (`InOrder`), that a batch not yet
ingested was never asked for or billed (`Fresh`), and that what may still be sent is dated
in its window (`WellDated`). Then the overage is a telescoping sum: each ingest bills
the difference it makes to the overage of all of its window (`IngestCounts`), and no other step
changes a unit. `Total` is a sum written as the size of a finite set, because the
folds of the libraries are out of the provers' reach; that is why `Batches` is finite.

**Only model-checked.** The liveness properties (`EveryJobEnds`, `ReservationsReturn`,
`ClaimsReturn`, `ClaimsResolve`, `BatchesSettle`, `ActionEnds`, `RowsAnswered`): they need
fairness and `ENABLED`, which are out of the prover's reach. With silent workers
the theorems marked † are not claimed: `BilledWithinGrant` is false (section 5,
finding 2), and which jobs keep the others is neither proved nor checked.

## 5. Findings

1. **A claimed lead that is never shown** (`hidden`, `OwnClaimsAreDelivered`).
   Attempt 1 of a run flags a row as a duplicate of another run in flight, and
   dies; the other run fails or is cancelled and its claims are deleted; attempt 2
   inserts the claim itself. Step 2b then treats the hash as its own
   (`workers/tasks.py:1406`), but nothing clears the flag: step 3 only sets it, and
   the transfer skips claims of its own job. The run ends `done`, holds the claim
   and does not deliver the lead, and later runs see a holder.
2. **A superseded attempt can raise the bill above the grant** (`overbilled`,
   `BilledWithinGrant`). `transfer_undelivered_claims` is not fenced by the attempt
   token. Run by a superseded attempt between its replacement's plan cap and bill,
   it turns one more row of the job into a lead, which `finalize_billing_and_done`
   counts and bills (`workers/tasks.py:1898` says of the cap that the four consumers
   "can never disagree").
3. **A contact-lookup action that is never settled** (`contact_reused`,
   `EveryActionEnds`). The settle sweep gives a queued row its twin's answer and
   makes it `reused` (`skip_trace_dispatcher.py:1117`), also when an action bought
   the row. The reconciler maps no `reused` row and `VERDICT_TRANSITIONS` has no way
   out of `newly_queued` for it, so the action is neither settled nor flagged and
   is visited in every tick. `ActionEnds`, which exempts such actions, holds.

**Observations.** Behaviour met while modelling that no comment or test of the
repository contradicts outright; the properties are stated so that they are exact
about it.

1. The look at a slot and the insert are two transactions. A job inserted, claimed
   and cancelled in between holds the slot of a worker that is still stopping, and the
   unique index, which knows active jobs only, lets the second in: two workers of one
   scraper run. `SlotExclusive` says that nothing else does this. The
   fan-out of a batch looks for *stopping* runs only, before its insert.
2. A superseded worker (silent heartbeat) may still run while the slot is free.
3. A forced finalize reads the children's statuses before it cancels: a child done in
   between is exported and listed as timed out. `OutcomeHonest` allows it.
4. No route writes `cancelled` to a `batch_runs` row.
5. A lookup whose charged answer could not be attributed (`unmatched`) does not hold
   its twin back: `_hold_answers_in_flight` (`skip_trace_dispatcher.py:1182`) does not
   look for it and the same answer is bought again. `RepurchasedOnlyUnanswered` says
   that this is the only way.
6. A batch of one window that is ingested in the next uses the next window's
   allowance, so that lookups the customer was owed for free in that window are
   billed (compare `skip_trace_usage.py:136`). `WindowsAddUp` counts by the
   window of ingestion.
7. The settle script's release takes no billing lock and does not ask the provider.
   Run between the marking of a plan change and the replacement of the item, or after a
   change that did go through, it turns a row back to `reported` whose event nobody will
   invoice. `billing.py:1637` says of the marking that it "can only over-flag", which is
   true of the marking; that a human releases only what did not go through is left to
   the human. The model lets the operator release at any time; `RowsTellTheMeter`
   exempts the rows so released, and no other (`blind`).
8. The gate lists the subscriptions and the event is created in a later call. The
   advisory lock keeps plan changes out of the gap, not the subscription's own renewal or
   end: the period may close in between, and the row then says `reported` of an event
   dated in a closed period, which is what the gate exists to refuse
   (`closed_billing_period`). `RowsTellTheMeter` exempts exactly these sends.
9. A report that was taken but whose answer was lost, and is then refused by the gate,
   puts the row before a human who cannot see that it was taken and may settle it by
   hand: the customer pays twice. `RowsTellTheMeter` exempts the rows in `Lossy`.

## 6. What is not modelled

Of `JobRun`'s components: the collapse and re-election of same-run siblings;
background recovery, which may give an address to a row of a run that is over;
calendar arithmetic of windows (a window is a number), plan changes and trial
expiry; the snapshot of run counts, notifications, e-mail and logs.

`SlotSafe` says that a run slot is not shared; that a slot is freed in the end is not
stated of `RunSlot` (`EveryJobEnds` says it of `JobRun`'s jobs, whose workers' exits
`RunSlot` has). `contact` has one action; several quotes for one lead are compared by the
theorem `BoughtByOne` only. The delivery of a finished batch's export and webhook is not
checked: `FinalIsFinal` says that a run is finalized once, not that its mail arrives.

Of the run slot: the cron arithmetic of `next_run_at`, pausing after failures and its
alerts, the fair order in which a tick drains its scrapers. Of batches: the contents and the
upload of the combined export, deleted scrapers, the re-send of a child's own message.
Of paid lookups: how an answer is attributed to a row (matching of names and
addresses), the providers' formats, the quote and its planner. Of metering:
deployments without billing, frozen windows, the mapping of subscription webhooks to
plans.

Not modelled at all, with the reason in `PROJECT.json`: the webhook and dialer
outboxes, stream leases and rate limits, sessions, account deletion and export;
enrichment; and the county scrapers, crawlers, matchers, monitoring and CRUD routes,
which are I/O or writes of a single row with no state that two actors share. They are
the larger part of the repository's lines: the map covers the engine that coordinates
workers, money and claims, not the hundred connectors that feed it.

## 7. Plan

Done: `JobRun` and `RunContract` with `JobRunProofs`, `JobRunDedupProofs`,
`JobRunQuotaProofs`; `RunSlot` and `BatchRun` with `RunSlotProofs`, `BatchRunProofs`;
`PaidLookup` and `LookupContract` with `PaidLookupProofs`; `ContactAction` with `ContactActionProofs`;
`UsageMeter` with `UsageMeterProofs`.

Next:

1. **Silent workers.** The theorems marked † per job: a job whose worker never looks dead
   keeps them, whatever the other jobs' workers do; first with TLC on an instance
   with one silent and one ordinary job, then as theorems.
2. **Outboxes and leases.** Webhook and dialer outbox (at least once within the retry
   budget, no send after giving up), stream leases.
3. **Calendar.** The entitlement window as operators, against a reference definition.
4. **Account deletion**, phase by phase, against runs and purchases in flight.
