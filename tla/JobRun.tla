------------------------------- MODULE JobRun -------------------------------
(***************************************************************************)
(* The life of a scrape job: the jobs row, the worker attempts that run it,*)
(* the quota it reserves and bills, and the dedup claims it takes on leads *)
(* (src/workers/tasks.py, tasks_helpers/*, scheduler_helpers/health.py,    *)
(* api/routes/jobs.py).                                                    *)
(*                                                                         *)
(* All jobs belong to one user.  A lead is a dedup hash; within a job one  *)
(* results row stands for it (same-run siblings are collapsed before they  *)
(* reach any statement modelled here).  One action is one database         *)
(* transaction of the code.  The in-flight statuses queued .. enriching    *)
(* are one status "active".  started_at is abstracted to "stamped or NULL":*)
(* every re-pend increments retry_count, so the claim that stamped it is   *)
(* identified by retry_count, and an attempt token is the retry_count its  *)
(* claim returned.                                                         *)
(***************************************************************************)
EXTENDS Integers, FiniteSets

CONSTANTS
    Jobs,              \* the user's jobs
    Leads,             \* dedup hashes, integers in the plan cap's ranking order
    Found,             \* [Jobs -> SUBSET Leads]: the rows a job's scrape returns
    Actionable,        \* [Jobs -> SUBSET Leads]: those enrichment gives an address
    Strong,            \* hashes of a parcel or address, not of a name and date
    Metered,           \* FALSE: an unlimited plan, which skips the plan cap
    Limit,             \* users.records_limit
    MaxRetries,        \* the watchdog's retry budget
    TransientRetries,  \* SCRAPE_TRANSIENT_MAX_RETRIES
    Windows,           \* bound: entitlement windows are 1..Windows
    Silent,            \* jobs whose live attempts' heartbeat writes may fail for long
    NoJob              \* no claim on a lead

ASSUME ConstantsAssumption ==
    /\ IsFiniteSet(Jobs) /\ NoJob \notin Jobs
    /\ Leads \subseteq Int /\ IsFiniteSet(Leads) /\ Strong \subseteq Leads
    /\ Found \in [Jobs -> SUBSET Leads]
    /\ Actionable \in [Jobs -> SUBSET Leads]
    /\ \A j \in Jobs : Actionable[j] \subseteq Found[j]
    /\ Metered \in BOOLEAN /\ Silent \subseteq Jobs
    /\ Limit \in Nat /\ MaxRetries \in Nat /\ TransientRetries \in Nat
    /\ TransientRetries <= MaxRetries
    /\ Windows \in Nat \ {0}

VARIABLES
    job,        \* the jobs rows
    queue,      \* jobs with a run_scrape_job message at the broker
    att,        \* att[j][a]: the worker running attempt a of job j
    rows,       \* rows[j][l]: the duplicate flag of j's results row for lead l
    capped,     \* capped[j]: leads j's plan cap excluded (delivery_excluded)
    claim,      \* delivered_records: claim[l] is the job that holds lead l
    used,       \* users.records_used
    window,     \* users.quota_period_start
    clock,      \* the entitlement window the wall clock is in
    delivered,  \* delivered[j]: the leads j billed; billed_count is their number
    chargedIn   \* history: the window j's bill was charged to (0: not billed)

vars == <<job, queue, att, rows, capped, claim, used, window, clock, delivered, chargedIn>>
leadVars == <<rows, capped, claim>>
quotaVars == <<used, window, clock, delivered, chargedIn>>

Terminal == {"done", "failed", "cancelled"}
Attempts == 0..MaxRetries

(* Where a worker is in run_scrape_job, between two transactions.          *)
WorkSteps == {"scrape", "save", "dedup", "claim", "mark", "export", "transfer", "cap", "final"}
ExitSteps == {"tidy", "failing", "releasing", "cleanup", "dropping",
              "uncaughtRelease", "uncaughtDrop"}
Steps == WorkSteps \cup ExitSteps \cup {"none"}

JobRow == [status : {"pending", "active"} \cup Terminal, retry : Attempts,
           started : BOOLEAN, reserved : BOOLEAN, count : Nat,
           window : 0..Windows, billed : BOOLEAN]

TypeOK ==
    /\ job \in [Jobs -> JobRow]
    /\ queue \subseteq Jobs
    /\ att \in [Jobs -> [Attempts -> [pc : Steps, mine : SUBSET Leads]]]
    /\ rows \in [Jobs -> [Leads -> {"absent", "new", "prior_run", "superseded"}]]
    /\ capped \in [Jobs -> SUBSET Leads]
    /\ claim \in [Leads -> Jobs \cup {NoJob}]
    /\ used \in Nat
    /\ window \in 1..Windows /\ clock \in 1..Windows
    /\ delivered \in [Jobs -> SUBSET Leads]
    /\ chargedIn \in [Jobs -> 0..Windows]

Init ==
    /\ job = [j \in Jobs |->
                [status |-> "pending", retry |-> 0, started |-> FALSE, reserved |-> FALSE,
                 count |-> 0, window |-> 0, billed |-> FALSE]]
    /\ queue \in SUBSET Jobs   \* the publish after the commit may have failed
    /\ att = [j \in Jobs |-> [a \in Attempts |-> [pc |-> "none", mine |-> {}]]]
    /\ rows = [j \in Jobs |-> [l \in Leads |-> "absent"]]
    /\ capped = [j \in Jobs |-> {}]
    /\ claim = [l \in Leads |-> NoJob]
    /\ used = 0 /\ window = 1 /\ clock = 1
    /\ delivered = [j \in Jobs |-> {}]
    /\ chargedIn = [j \in Jobs |-> 0]

-----------------------------------------------------------------------------
(* What the code's predicates say about the rows.                          *)

At(j, a, pc) == att[j][a].pc = pc

Goto(j, a, pc) == att' = [att EXCEPT ![j][a] = [pc |-> pc, mine |-> {}]]

(* Mutant: a check of the status alone, as _set_status makes without token. *)
OwnsByStatus(j, a) == job[j].status \notin Terminal

(* attempt_state: the token matches and the row is not terminal.           *)
Owns(j, a) ==
    /\ job[j].started
    /\ job[j].retry = a
    /\ job[j].status \notin Terminal

(* Where finalize_exit and _after_missed_write send an attempt whose fenced *)
(* write missed: a terminal job is cleaned up, another attempt's job is not.*)
MissedExit(j) == IF job[j].status \in Terminal THEN "cleanup" ELSE "none"

(* actionable_sql: the row has an address and the plan cap did not exclude it. *)
IsActionable(j, l) == l \in Actionable[j] \ capped[j]

Deliverable(j) == {l \in Leads : rows[j][l] = "new" /\ IsActionable(j, l)}

OwnClaims(j) == {l \in Leads : claim[l] = j}

Unclaimed(S) == [l \in Leads |-> IF l \in S THEN NoJob ELSE claim[l]]

(* The rows the plan cap ranks, and those ranked past the grant.           *)
Rankable(j) == {l \in Leads : rows[j][l] = "new" /\ l \in Actionable[j]}

(* Mutant: an off-by-one lets one row past the grant through.              *)
OverQuotaOffByOne(S, grant) ==
    {l \in S : Cardinality({k \in S : k <= l}) > grant + 1}

OverQuota(S, grant) == {l \in S : Cardinality({k \in S : k <= l}) > grant}

(* window_cte_sql: a window the clock has left is rolled by whoever charges. *)
Rolling == clock > window
Base == IF Rolling THEN 0 ELSE used

AtLeast0(n) == IF n < 0 THEN 0 ELSE n
Lesser(m, n) == IF m < n THEN m ELSE n

-----------------------------------------------------------------------------
(* Claiming a delivery.                                                    *)

(* Mutant: a message claims whatever job it names, in flight or over.      *)
ClaimAnyStatus(j) ==
    /\ job' = [job EXCEPT ![j].status = "active", ![j].started = TRUE]
    /\ Goto(j, job[j].retry, "scrape")
    /\ queue' = queue \ {j}
    /\ UNCHANGED <<leadVars, quotaVars>>

(* claim_attempt: pending -> queued.  A message that reaches a job in any  *)
(* other status is dropped by the same CAS, so only winning claims are     *)
(* steps.                                                                  *)
Claim(j) ==
    /\ job[j].status = "pending"
    /\ job' = [job EXCEPT ![j].status = "active", ![j].started = TRUE]
    /\ Goto(j, job[j].retry, "scrape")
    /\ queue' = queue \ {j}
    /\ UNCHANGED <<leadVars, quotaVars>>

(* The broker delivers the message, or one it delivered before (acks_late). *)
Deliver(j) == j \in queue /\ Claim(j)
DeliverAgain(j) == j \notin queue /\ Claim(j)

(* The scrape succeeded: `saving` is fenced, and committed.                *)
ScrapeOk(j, a) ==
    /\ At(j, a, "scrape") /\ Owns(j, a)
    /\ Goto(j, a, "save")
    /\ UNCHANGED <<job, queue, leadVars, quotaVars>>

(* The rows are inserted ON CONFLICT DO NOTHING, whoever owns the job now. *)
SaveRows(j, a) ==
    /\ At(j, a, "save")
    /\ rows' = [rows EXCEPT ![j] = [l \in Leads |->
                    IF l \in Found[j] /\ rows[j][l] = "absent" THEN "new" ELSE rows[j][l]]]
    /\ Goto(j, a, "dedup")
    /\ UNCHANGED <<job, queue, capped, claim, quotaVars>>

(* `deduping` is fenced.                                                   *)
StartDedup(j, a) ==
    /\ At(j, a, "dedup") /\ Owns(j, a)
    /\ Goto(j, a, "claim")
    /\ UNCHANGED <<job, queue, leadVars, quotaVars>>

(* _retry_scrape_job: attempt-scoped CAS back to pending, then a publish   *)
(* that may fail.  Exhausted or missed, the caller fails the attempt.      *)
RetryScrape(j, a) ==
    /\ At(j, a, "scrape") /\ Owns(j, a)
    /\ job[j].retry < TransientRetries /\ ~job[j].billed
    /\ job' = [job EXCEPT ![j].status = "pending", ![j].started = FALSE, ![j].retry = @ + 1]
    /\ queue' \in {queue, queue \cup {j}}
    /\ Goto(j, a, "none")
    /\ UNCHANGED <<leadVars, quotaVars>>

-----------------------------------------------------------------------------
(* Dedup, export and claim transfer.  Only the stage writes are fenced.    *)

(* Step 2: INSERT delivered_records ON CONFLICT DO NOTHING.                *)
ClaimLeads(j, a) ==
    /\ At(j, a, "claim")
    /\ claim' = [l \in Leads |->
                    IF rows[j][l] # "absent" /\ claim[l] = NoJob THEN j ELSE claim[l]]
    /\ att' = [att EXCEPT ![j][a] = [pc |-> "mark", mine |-> {l \in Leads : claim'[l] # claim[l]}]]
    /\ UNCHANGED <<job, queue, rows, capped, quotaVars>>

(* Steps 2b and 3: every claim the job holds counts as its own; flag every *)
(* other row is_duplicate, reason prior_run.                               *)
MarkDuplicates(j, a) ==
    /\ At(j, a, "mark")
    /\ rows' = [rows EXCEPT ![j] = [l \in Leads |->
                    IF rows[j][l] # "absent" /\ l \notin att[j][a].mine \cup OwnClaims(j)
                    THEN "prior_run" ELSE rows[j][l]]]
    /\ Goto(j, a, "export")
    /\ UNCHANGED <<job, queue, capped, claim, quotaVars>>

(* The `exporting` and `address_lookup` fences around the first upload.    *)
Export(j, a) ==
    /\ At(j, a, "export") /\ Owns(j, a)
    /\ Goto(j, a, "transfer")
    /\ UNCHANGED <<job, queue, leadVars, quotaVars>>

(* The trustee finalize, an upload or the re-export failed: release the    *)
(* run's claims if this attempt owns the job (the delete itself may fail), *)
(* then fail the attempt in a second transaction.                          *)
DeliveryFails(j, a) ==
    /\ At(j, a, "export") \/ At(j, a, "cap") \/ At(j, a, "final")
    /\ \/ Owns(j, a) /\ claim' = Unclaimed(OwnClaims(j))
       \/ UNCHANGED claim
    /\ Goto(j, a, "failing")
    /\ UNCHANGED <<job, queue, rows, capped, quotaVars>>

(* Mutant: a done run is robbed of a lead it delivered.                    *)
NeverDeliveredIfOver(h, l) == job[h].status \in Terminal

(* The holder of a claim gave its lead to nobody: it failed or was         *)
(* cancelled unbilled, or it is done and has no deliverable row for it.    *)
NeverDelivered(h, l) ==
    \/ job[h].status \in {"failed", "cancelled"} /\ ~job[h].billed
    \/ job[h].status = "done" /\ job[h].billed /\ l \notin Deliverable(h)

(* _take_unheld_claim: the claim was released after step 3 flagged the row. *)
TakeUnheldClaim(j, a, l) ==
    /\ At(j, a, "transfer")
    /\ rows[j][l] = "prior_run" /\ IsActionable(j, l)
    /\ claim[l] = NoJob
    /\ claim' = [claim EXCEPT ![l] = j]
    /\ rows' = [rows EXCEPT ![j][l] = "new"]
    /\ UNCHANGED <<job, queue, att, capped, quotaVars>>

(* _transfer_one_claim: take the claim over from a run that never delivered *)
(* the lead, and hide that run's row for good.                             *)
TransferClaim(j, a, l) ==
    /\ At(j, a, "transfer")
    /\ rows[j][l] = "prior_run" /\ IsActionable(j, l)
    /\ l \in Strong
    /\ claim[l] \notin {j, NoJob}
    /\ NeverDelivered(claim[l], l)
    /\ claim' = [claim EXCEPT ![l] = j]
    /\ rows' = [rows EXCEPT ![j][l] = "new", ![claim[l]][l] = "superseded"]
    /\ UNCHANGED <<job, queue, att, capped, quotaVars>>

(* The loop ends; a hash whose transfer failed is left as it was.  An       *)
(* unlimited plan skips the plan cap unless its account may not be charged. *)
TransferDone(j, a) ==
    /\ At(j, a, "transfer")
    /\ \E next \in IF Metered THEN {"cap"} ELSE {"cap", "final"} : Goto(j, a, next)
    /\ UNCHANGED <<job, queue, leadVars, quotaVars>>

-----------------------------------------------------------------------------
(* The plan cap: reserve_job_quota, then exclude and unclaim what is past  *)
(* the grant, in one transaction.                                          *)

(* Mutant: the grant is judged against the limit, not what is left of it.  *)
GrantedOfLimit(want) == {Lesser(want, Limit), 0}

(* A frozen or ended account, all that an unlimited plan comes here for, is *)
(* granted nothing.                                                        *)
Granted(want) == IF Metered THEN {Lesser(want, AtLeast0(Limit - Base)), 0} ELSE {0}

(* Exclude the rows past the grant and release their claims; the ownership *)
(* check runs only when there is something to exclude.                     *)
ApplyCap(j, a, grant) ==
    LET over == OverQuota(Rankable(j), grant) IN
    /\ over # {} => Owns(j, a)
    /\ capped' = [capped EXCEPT ![j] = over]
    /\ claim' = Unclaimed(over \cap OwnClaims(j))

ReserveAndCap(j, a) ==
    /\ At(j, a, "cap") /\ ~job[j].reserved
    /\ \E grant \in Granted(Cardinality(Rankable(j))) :
         /\ ApplyCap(j, a, grant)
         /\ job' = [job EXCEPT ![j].reserved = TRUE, ![j].count = grant, ![j].window = clock]
         /\ used' = Base + grant
    /\ window' = clock
    /\ Goto(j, a, "final")
    /\ UNCHANGED <<queue, rows, clock, delivered, chargedIn>>

(* A re-run reuses the grant an earlier attempt reserved.                  *)
ReuseGrantAndCap(j, a) ==
    /\ At(j, a, "cap") /\ job[j].reserved
    /\ ApplyCap(j, a, job[j].count)
    /\ Goto(j, a, "final")
    /\ UNCHANGED <<job, queue, rows, quotaVars>>

-----------------------------------------------------------------------------
(* Mutant: done commits without the settlement of the user's counter.      *)
FinalizeUnsettled(j, a) ==
    /\ At(j, a, "final") /\ Owns(j, a) /\ ~job[j].billed
    /\ job' = [job EXCEPT ![j].billed = TRUE, ![j].status = "done"]
    /\ delivered' = [delivered EXCEPT ![j] = Deliverable(j)]
    /\ chargedIn' = [chargedIn EXCEPT ![j] = clock]
    /\ Goto(j, a, "tidy")
    /\ UNCHANGED <<queue, leadVars, used, window, clock>>

(* finalize_billing_and_done: the billing CAS, the settlement of the user's *)
(* counter and the done-CAS commit together.                               *)
Finalize(j, a) ==
    /\ At(j, a, "final") /\ Owns(j, a) /\ ~job[j].billed
    /\ LET billable == Cardinality(Deliverable(j))
           held == IF job[j].reserved /\ job[j].window = window /\ ~Rolling
                   THEN job[j].count ELSE 0
       IN used' = AtLeast0(Base + billable - held)
    /\ window' = clock
    /\ job' = [job EXCEPT ![j].billed = TRUE, ![j].status = "done"]
    /\ delivered' = [delivered EXCEPT ![j] = Deliverable(j)]
    /\ chargedIn' = [chargedIn EXCEPT ![j] = clock]
    /\ Goto(j, a, "tidy")
    /\ UNCHANGED <<queue, leadVars, clock>>

(* Mutant: the address is not looked at, so a delivered lead qualifies.    *)
ParcellessAnyAddress(j) ==
    {l \in OwnClaims(j) \ Strong : \A o \in Jobs \ {j} : rows[o][l] # "prior_run"}

(* Weak claims of rows that are not leads and that no other run is flagged *)
(* against.                                                                *)
Parcelless(j) ==
    {l \in OwnClaims(j) \ Strong :
        l \notin Actionable[j] /\ \A o \in Jobs \ {j} : rows[o][l] # "prior_run"}

(* release_parcelless_no_address_claims, after the commit of the bill.     *)
ReleaseParcelless(j, a) ==
    /\ At(j, a, "tidy")
    /\ claim' = Unclaimed(Parcelless(j))
    /\ rows' = [rows EXCEPT ![j] = [l \in Leads |->
                   IF l \in Parcelless(j) THEN "superseded" ELSE rows[j][l]]]
    /\ Goto(j, a, "none")
    /\ UNCHANGED <<job, queue, capped, quotaVars>>

-----------------------------------------------------------------------------
(* Exits.                                                                  *)

(* A fenced stage write misses: stop, or clean up after a terminal job.    *)
StopOnMiss(j, a) ==
    /\ \/ At(j, a, "scrape") \/ At(j, a, "dedup")
       \/ At(j, a, "export") \/ At(j, a, "final")
    /\ ~Owns(j, a)
    /\ Goto(j, a, MissedExit(j))
    /\ UNCHANGED <<job, queue, leadVars, quotaVars>>

(* _fail_job: the attempt-scoped CAS, committed before anything is released. *)
(* At "scrape": a deleted or paused scraper, a frozen account, a permanent  *)
(* scrape error, or a transient one whose retry was refused.               *)
FailJob(j, a) ==
    /\ At(j, a, "scrape") \/ At(j, a, "failing")
    /\ IF Owns(j, a)
       THEN /\ job' = [job EXCEPT ![j].status = "failed"]
            /\ Goto(j, a, "releasing")
       ELSE /\ Goto(j, a, MissedExit(j))
            /\ UNCHANGED job
    /\ UNCHANGED <<queue, leadVars, quotaVars>>

(* Mutants: a release that refunds a window the grant was never added to,  *)
(* and one that leaves its reservation behind to be refunded again.        *)
ReleaseAnyWindow(j) ==
    IF job[j].reserved /\ ~job[j].billed /\ job[j].count > 0
    THEN /\ job' = [job EXCEPT ![j].reserved = FALSE, ![j].count = 0]
         /\ used' = AtLeast0(used - job[j].count)
    ELSE UNCHANGED <<job, used>>
ReleaseTwice(j) ==
    IF job[j].reserved /\ ~job[j].billed /\ job[j].count > 0
    THEN used' = AtLeast0(used - job[j].count) /\ UNCHANGED job
    ELSE UNCHANGED <<job, used>>

(* release_quota_reservation: refund a grant of the stored window, retire  *)
(* one whose window has rolled.  Guarded by the row, not by an attempt.    *)
Release(j) ==
    IF job[j].reserved /\ ~job[j].billed /\ job[j].count > 0
    THEN /\ job' = [job EXCEPT ![j].reserved = FALSE, ![j].count = 0]
         /\ used' = IF job[j].window = window THEN AtLeast0(used - job[j].count) ELSE used
    ELSE UNCHANGED <<job, used>>

ReleaseStep(j, a, from, to) ==
    /\ At(j, a, from)
    /\ Release(j)
    /\ Goto(j, a, to)
    /\ UNCHANGED <<queue, leadVars, window, clock, delivered, chargedIn>>

(* _fail_job's release, and the first half of _terminal_cleanup.           *)
ReleaseAfterFail(j, a) == ReleaseStep(j, a, "releasing", "none")
ReleaseOnCleanup(j, a) == ReleaseStep(j, a, "cleanup", "dropping")

(* _release_claims_of_cancelled_job re-checks the row inside the delete.   *)
DropCancelledClaims(j, a) ==
    /\ At(j, a, "dropping")
    /\ claim' = IF job[j].status = "cancelled" /\ ~job[j].billed
                THEN Unclaimed(OwnClaims(j)) ELSE claim
    /\ Goto(j, a, "none")
    /\ UNCHANGED <<job, queue, rows, capped, quotaVars>>

(* An exception escapes run_scrape_job, and on_failure runs                *)
(* _fail_job_after_uncaught: three commits, fail, release, delete claims.  *)
FailAfterUncaught(j, a) ==
    /\ att[j][a].pc \in WorkSteps
    /\ IF Owns(j, a) /\ ~job[j].billed
       THEN /\ job' = [job EXCEPT ![j].status = "failed"]
            /\ Goto(j, a, "uncaughtRelease")
       ELSE /\ Goto(j, a, "none")
            /\ UNCHANGED job
    /\ UNCHANGED <<queue, leadVars, quotaVars>>

ReleaseAfterUncaught(j, a) == ReleaseStep(j, a, "uncaughtRelease", "uncaughtDrop")

DropAfterUncaught(j, a) ==
    /\ At(j, a, "uncaughtDrop")
    /\ claim' = Unclaimed(OwnClaims(j))
    /\ Goto(j, a, "none")
    /\ UNCHANGED <<job, queue, rows, capped, quotaVars>>

(* The worker process dies, or a time limit ends the task (on_failure      *)
(* leaves those to the watchdog).                                          *)
WorkerDies(j, a) ==
    /\ ~At(j, a, "none")
    /\ Goto(j, a, "none")
    /\ UNCHANGED <<job, queue, leadVars, quotaVars>>

-----------------------------------------------------------------------------
(* Actors beside the worker.                                               *)

(* Mutant: the status is read first and the row written by its key.        *)
CancelByKey(j) ==
    /\ job' = [job EXCEPT ![j].status = "cancelled"]
    /\ UNCHANGED <<queue, att, leadVars, quotaVars>>

(* DELETE /jobs/{id}: one CAS on the status.                               *)
Cancel(j) ==
    /\ job[j].status \notin Terminal
    /\ job' = [job EXCEPT ![j].status = "cancelled"]
    /\ UNCHANGED <<queue, att, leadVars, quotaVars>>

(* The watchdog sees no fresh heartbeat: the attempt is dead, or only its  *)
(* heartbeat writes are failing.                                           *)
LooksDead(j) == j \in Silent \/ At(j, job[j].retry, "none")

(* Mutant: a budget of one restart too many.                               *)
RequeueOffByOne(j) ==
    /\ job[j].status = "active" /\ LooksDead(j)
    /\ job[j].retry <= MaxRetries
    /\ job' = [job EXCEPT ![j].status = "pending", ![j].started = FALSE, ![j].retry = @ + 1]
    /\ queue' \in {queue, queue \cup {j}}
    /\ UNCHANGED <<att, leadVars, quotaVars>>

(* watchdog_stuck_jobs, an active job with budget left: back to pending,   *)
(* and a publish after the commit that may fail.                           *)
Requeue(j) ==
    /\ job[j].status = "active" /\ LooksDead(j)
    /\ job[j].retry < MaxRetries
    /\ job' = [job EXCEPT ![j].status = "pending", ![j].started = FALSE, ![j].retry = @ + 1]
    /\ queue' \in {queue, queue \cup {j}}
    /\ UNCHANGED <<att, leadVars, quotaVars>>

(* ... and without: failed, with its reservation and claims left in place. *)
GiveUp(j) ==
    /\ job[j].status = "active" /\ LooksDead(j)
    /\ job[j].retry >= MaxRetries
    /\ job' = [job EXCEPT ![j].status = "failed"]
    /\ UNCHANGED <<queue, att, leadVars, quotaVars>>

(* Mutant: only retried rows are published again, as before orphans were.  *)
RedeliverRetried(j) ==
    /\ job[j].status = "pending" /\ j \notin queue /\ job[j].retry > 0
    /\ queue' = queue \cup {j}
    /\ UNCHANGED <<job, att, leadVars, quotaVars>>

(* A pending row whose message was lost is published again.                *)
Redeliver(j) ==
    /\ job[j].status = "pending" /\ j \notin queue
    /\ queue' = queue \cup {j}
    /\ UNCHANGED <<job, att, leadVars, quotaVars>>

(* Mutant: the sweep forgets the jobs the watchdog failed.                 *)
SweepCancelledReservation(j) ==
    /\ job[j].status \in {"done", "cancelled"}
    /\ job[j].reserved /\ ~job[j].billed /\ job[j].count > 0
    /\ Release(j)
    /\ UNCHANGED <<queue, att, leadVars, window, clock, delivered, chargedIn>>

(* sweep_stranded_quota_reservations, one job of it.                       *)
SweepReservation(j) ==
    /\ job[j].status \in Terminal
    /\ job[j].reserved /\ ~job[j].billed /\ job[j].count > 0
    /\ Release(j)
    /\ UNCHANGED <<queue, att, leadVars, window, clock, delivered, chargedIn>>

(* Mutants: the sweep takes done jobs for stranded, or forgets the failed. *)
StrandedTerminal == {l \in Leads : claim[l] # NoJob /\ job[claim[l]].status \in Terminal}
StrandedCancelled == {l \in Leads : claim[l] # NoJob /\ job[claim[l]].status = "cancelled"}

(* sweep_stranded_dedup_claims: one statement over every stranded claim.   *)
Stranded == {l \in Leads : /\ claim[l] # NoJob
                           /\ job[claim[l]].status \in {"failed", "cancelled"}
                           /\ ~job[claim[l]].billed}
SweepClaims ==
    /\ Stranded # {}
    /\ claim' = Unclaimed(Stranded)
    /\ UNCHANGED <<job, queue, att, rows, capped, quotaVars>>

(* The wall clock crosses into the next entitlement window.                *)
WindowEnds ==
    /\ clock < Windows
    /\ clock' = clock + 1
    /\ UNCHANGED <<job, queue, att, leadVars, used, window, delivered, chargedIn>>

(* reconcile_quota_periods: the beat rolls a window nobody has charged in. *)
RollWindow ==
    /\ Rolling
    /\ window' = clock
    /\ used' = 0
    /\ UNCHANGED <<job, queue, att, leadVars, clock, delivered, chargedIn>>

-----------------------------------------------------------------------------
Work(j, a) ==
    \/ ScrapeOk(j, a) \/ RetryScrape(j, a) \/ SaveRows(j, a) \/ StartDedup(j, a)
    \/ ClaimLeads(j, a) \/ MarkDuplicates(j, a) \/ Export(j, a)
    \/ \E l \in Leads : TakeUnheldClaim(j, a, l) \/ TransferClaim(j, a, l)
    \/ TransferDone(j, a) \/ ReserveAndCap(j, a) \/ ReuseGrantAndCap(j, a)
    \/ Finalize(j, a) \/ ReleaseParcelless(j, a) \/ DeliveryFails(j, a)
    \/ StopOnMiss(j, a) \/ FailJob(j, a) \/ ReleaseAfterFail(j, a)
    \/ ReleaseOnCleanup(j, a) \/ DropCancelledClaims(j, a)
    \/ FailAfterUncaught(j, a) \/ ReleaseAfterUncaught(j, a) \/ DropAfterUncaught(j, a)

Recover(j) == Requeue(j) \/ GiveUp(j) \/ Redeliver(j)

Next ==
    \/ \E j \in Jobs :
         Deliver(j) \/ DeliverAgain(j) \/ Cancel(j) \/ Recover(j) \/ SweepReservation(j)
    \/ \E j \in Jobs, a \in Attempts : Work(j, a) \/ WorkerDies(j, a)
    \/ SweepClaims \/ WindowEnds \/ RollWindow

Spec == Init /\ [][Next]_vars

(* Every worker that is alive goes on; the watchdog and the sweeps run on  *)
(* the beat; the broker delivers what it holds.  Deaths, cancels, duplicate *)
(* deliveries and the end of a window are not owed to anyone.              *)
Fairness ==
    /\ \A j \in Jobs :
         /\ WF_vars(Deliver(j)) /\ WF_vars(Recover(j)) /\ WF_vars(SweepReservation(j))
         /\ \A a \in Attempts : WF_vars(Work(j, a))
    /\ WF_vars(SweepClaims)

FairSpec == Spec /\ Fairness

-----------------------------------------------------------------------------
(* Properties.                                                             *)

(* The units of quota the counter stands for: what was billed to the stored *)
(* window, and what unbilled reservations of that window hold.             *)
UnitsOf(j) ==
    IF job[j].billed
    THEN IF chargedIn[j] = window THEN Cardinality(delivered[j]) ELSE 0
    ELSE IF job[j].reserved /\ job[j].window = window THEN job[j].count ELSE 0

Units == {u \in Jobs \X (1..Cardinality(Leads)) : u[2] <= UnitsOf(u[1])}

(* Conservation: users.records_used is exactly those units: no interleaving *)
(* of reservations, settlements, releases, sweeps and window rolls loses or *)
(* invents one (reserve_job_quota, _settle_user_charge,                    *)
(* release_quota_reservation, reconcile_quota_periods).                    *)
Conservation == used = Cardinality(Units)

(* Concurrent reservations never share the same allowance: the units granted *)
(* in the stored window fit the limit.  A grant of an earlier window that   *)
(* is settled now is carried in full on top of it.                         *)
WithinQuota ==
    Metered => Cardinality({u \in Units : job[u[1]].window = window}) <= Limit

(* A metered run bills no more than the plan cap granted it                *)
(* (mark_over_quota_rows, then finalize_billing_and_done).                 *)
BilledWithinGrant ==
    Metered => \A j \in Jobs : Cardinality(delivered[j]) <= job[j].count

(* A job is billed exactly when it is done: the billing CAS and the done-CAS *)
(* commit together, and no cancel, failure or recovery writes over them.   *)
BilledIffDone == \A j \in Jobs : job[j].billed <=> job[j].status = "done"

(* An attempt that tidies up after an outcome works on a job that still has *)
(* it: tidying follows the done-CAS, and the release and the delete of an  *)
(* uncaught failure follow the failed-CAS, each in a transaction of its own *)
(* that does not look at the status again (_fail_job_after_uncaught,       *)
(* release_parcelless_no_address_claims).                                  *)
ExitsMatch ==
    \A j \in Jobs, a \in Attempts :
        /\ At(j, a, "tidy") => job[j].status = "done"
        /\ att[j][a].pc \in {"releasing", "uncaughtRelease", "uncaughtDrop"}
              => job[j].status = "failed"

(* What a done run shows as delivered stays what it billed, whatever later *)
(* runs do to its rows (transfer_undelivered_claims,                       *)
(* release_parcelless_no_address_claims).                                  *)
BilledIsDeliverable ==
    \A j \in Jobs : job[j].status = "done" => Deliverable(j) = delivered[j]

(* No lead is billed by two runs of the user (delivered_records,           *)
(* transfer_undelivered_claims).                                           *)
NoDoubleDelivery ==
    \A i, j \in Jobs : i # j => delivered[i] \cap delivered[j] = {}

(* A lead a run billed stays claimed by that run, so that every later run  *)
(* sees it as already delivered: no sweep, release or transfer drops it.   *)
DeliveredHoldsClaim == \A j \in Jobs : delivered[j] \subseteq OwnClaims(j)

(* tasks.py, dedup step 2b: "Treat hashes THIS job already owns as         *)
(* first-delivery (mine), not duplicates."  A done run that holds the claim *)
(* of a lead with an address delivered that lead.                          *)
OwnClaimsAreDelivered ==
    \A j \in Jobs : job[j].status = "done" =>
        OwnClaims(j) \cap Actionable[j] \subseteq delivered[j]

(* No message, worker, watchdog or cancel moves a job out of the terminal  *)
(* status it reached (the CAS of every write to jobs.status).              *)
TerminalIsFinal ==
    [][\A j \in Jobs : job[j].status \in Terminal => job'[j].status = job[j].status]_vars

(* While a job is in flight, a claim it holds is given up only by a step of *)
(* the attempt that owns it: a superseded attempt, another run or a sweep  *)
(* never strips the claims a replacement works with                        *)
(* (release_run_claims_if_owned, the ownership check of the plan cap,      *)
(* _transfer_one_claim: "A run still in flight is never robbed").          *)
LiveClaimsReleasedByOwner ==
    [][\A l \in Leads :
         LET h == claim[l] IN
           h # NoJob /\ claim'[l] # h /\ job[h].status \notin Terminal
             => Owns(h, job[h].retry) /\ att'[h][job[h].retry] # att[h][job[h].retry]]_vars

(* Every job ends: through a lost message, a dead worker or an exhausted   *)
(* retry budget (watchdog_stuck_jobs).                                     *)
EveryJobEnds == \A j \in Jobs : <>(job[j].status \in Terminal)

(* A job that ended without billing holds no quota for good, even if a     *)
(* superseded attempt reserves again after the first release               *)
(* (sweep_stranded_quota_reservations).                                    *)
ReservationsReturn ==
    \A j \in Jobs : job[j].status \in {"failed", "cancelled"} ~>
        [](~job[j].reserved \/ job[j].count = 0)

(* ... and hides no lead from later runs for good                          *)
(* (sweep_stranded_dedup_claims).                                          *)
ClaimsReturn ==
    \A j \in Jobs : job[j].status \in {"failed", "cancelled"} ~> [](OwnClaims(j) = {})

(* A run keeps its contract with the customer.                             *)
Outcome == [j \in Jobs |-> IF job[j].status \in Terminal THEN job[j].status ELSE "open"]
Contract == INSTANCE RunContract WITH outcome <- Outcome, charged <- delivered
KeepsContract == Contract!Spec
=============================================================================
