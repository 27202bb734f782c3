------------------------------- MODULE RunSlot -------------------------------
(***************************************************************************)
(* A scraper has one run slot.  Whoever starts a run (Run now, the         *)
(* scheduler's tick, a batch's fan-out) looks whether the slot is held and *)
(* then inserts a job, which a worker claims and runs; a cancelled job     *)
(* keeps the slot until its worker says it has stopped, or until the hard  *)
(* time limit has killed it (Job.holds_run_slot in db/models.py,           *)
(* api/routes/jobs.py, scheduler_helpers/dispatch.py,                      *)
(* tasks_helpers/status.py, scheduler_helpers/health.py).                  *)
(*                                                                         *)
(* What a worker does to leads and quota is JobRun's subject, and so are   *)
(* its messages: here a pending job may be claimed at any time, since a    *)
(* message that is lost is published again, and a worker only runs, ends   *)
(* and leaves.  An attempt is named by the retry_count its claim saw.      *)
(***************************************************************************)
EXTENDS Integers, FiniteSets

CONSTANTS
    Configs,      \* the scrapers (scraper_configs)
    MaxRuns,      \* bound: the jobs each scraper gets
    MaxRetries,   \* bound on each job's retry_count; the code's is 3
    Starters,     \* requests and ticks that may be starting a run at once
    Silent        \* jobs whose worker may look dead while it runs

(* The n-th job of a scraper, in the order of their inserts.               *)
JobsOf(c) == {c} \X (1..MaxRuns[c])
Jobs == UNION {JobsOf(c) : c \in Configs}

ASSUME SlotConstants ==
    /\ IsFiniteSet(Configs) /\ MaxRuns \in [Configs -> Nat]
    /\ MaxRetries \in [Jobs -> Nat]
    /\ Silent \subseteq Jobs

VARIABLES
    job,        \* the jobs rows
    live,       \* live[j]: the attempts of j whose worker still runs
    look        \* look[s]: the scraper starter s found free, and its settled jobs then

slotVars == <<job, live, look>>

Attempts == UNION {0..MaxRetries[j] : j \in Jobs}
Statuses == {"none", "pending", "active", "done", "failed", "cancelled"}

(* `beat`: started_at and last_heartbeat_at are set (a claim stamps both, a *)
(* retry clears both, an acknowledgement clears the second).  `old`:       *)
(* started_at is beyond the hard time limit.  `seen` is a history          *)
(* variable: the jobs of its scraper that were settled when the starter of *)
(* this one looked.                                                        *)
JobRow == [status : Statuses, retry : Attempts, beat : BOOLEAN, old : BOOLEAN, seen : Nat]
NoJob == [status |-> "none", retry |-> 0, beat |-> FALSE, old |-> FALSE, seen |-> 0]

(* What a starter found: the settled jobs of each scraper it may start.    *)
IsLook(found) == DOMAIN found \subseteq Configs /\ \A c \in DOMAIN found : found[c] \in Nat
NoLook == [c \in {} |-> 0]

SlotInit ==
    /\ job = [j \in Jobs |-> NoJob]
    /\ live = [j \in Jobs |-> {}]
    /\ look = [s \in Starters |-> NoLook]

-----------------------------------------------------------------------------
(* Operators.                                                              *)

Made(c) == Cardinality({j \in JobsOf(c) : job[j].status # "none"})
Active(j) == job[j].status \in {"pending", "active"}
Over(j) == job[j].status \in {"done", "failed", "cancelled"}
Settled(c) == Cardinality({j \in JobsOf(c) : Over(j)})

(* holds_run_slot: active, or cancelled after a worker claimed it and      *)
(* before that worker stopped or was provably killed.                      *)
HoldsSlot(j) ==
    \/ Active(j)
    \/ job[j].status = "cancelled" /\ job[j].beat /\ ~job[j].old

SlotHeld(c) == \E j \in JobsOf(c) : HoldsSlot(j)

(* The one-active-job index of a scraper refuses the other inserts; so     *)
(* does the bound MaxRuns.                                                 *)
Insertable(found) ==
    {c \in DOMAIN found : Made(c) < MaxRuns[c] /\ \A j \in JobsOf(c) : ~Active(j)}
NewJobs(S) == {<<c, Made(c) + 1>> : c \in S}

(* Insert a job for every scraper of a look that has no active one.        *)
Insert(found) ==
    job' = [j \in Jobs |-> IF j \in NewJobs(Insertable(found))
                          THEN [NoJob EXCEPT !.status = "pending", !.seen = found[j[1]]]
                          ELSE job[j]]

(* Attempt a of j still owns the job: what every fenced write checks.      *)
Owns(j, a) == job[j].status = "active" /\ job[j].retry = a

-----------------------------------------------------------------------------
(* Starting a run.                                                         *)

(* The check of Run now (config_run_eligibility) or of a tick              *)
(* (_scheduled_dispatch_blocker_exists): a held slot ends it here.         *)
Look(s, c) ==
    /\ look[s] = NoLook /\ ~SlotHeld(c)
    /\ look' = [look EXCEPT ![s] = [d \in {c} |-> Settled(d)]]
    /\ UNCHANGED <<job, live>>

(* The insert, a statement of its own.  The index refuses a second active  *)
(* job (a 409, or ON CONFLICT DO NOTHING).                                 *)
Enter(s) ==
    /\ look[s] # NoLook
    /\ Insert(look[s])
    /\ look' = [look EXCEPT ![s] = NoLook]
    /\ UNCHANGED live

(* DELETE /jobs/{id}: one conditional statement.                           *)
Cancel(j) ==
    /\ Active(j)
    /\ job' = [job EXCEPT ![j].status = "cancelled"]
    /\ UNCHANGED <<live, look>>

-----------------------------------------------------------------------------
(* The worker.                                                             *)

(* claim_attempt: pending -> queued stamps started_at and the heartbeat.   *)
Claim(j) ==
    /\ job[j].status = "pending"
    /\ job' = [job EXCEPT ![j].status = "active", ![j].beat = TRUE]
    /\ live' = [live EXCEPT ![j] = @ \cup {job[j].retry}]
    /\ UNCHANGED look

Leaves(j, a) == live' = [live EXCEPT ![j] = @ \ {a}]

(* The run ends, done or failed, and its worker with it: the job keeps its *)
(* heartbeat, and holds no slot.                                           *)
Finish(j, a) ==
    /\ a \in live[j] /\ Owns(j, a) /\ Leaves(j, a)
    /\ \E end \in {"done", "failed"} : job' = [job EXCEPT ![j].status = end]
    /\ UNCHANGED look

Pend(j) ==
    job' = [job EXCEPT ![j].status = "pending", ![j].retry = @ + 1, ![j].beat = FALSE]

(* _retry_scrape_job: a transient error re-queues the attempt's own job.   *)
RetryScrape(j, a) ==
    /\ a \in live[j] /\ Owns(j, a) /\ a < MaxRetries[j]
    /\ Pend(j) /\ Leaves(j, a)
    /\ UNCHANGED look

(* Mutant: the acknowledgement names the job, not the attempt.             *)
AcknowledgesByJob(j, a) == job[j].status = "cancelled"

(* _ack_exit_sql: a cancelled job of this very attempt.                    *)
Acknowledges(j, a) ==
    job[j].status = "cancelled" /\ job[j].retry = a

(* An attempt that finds it no longer owns the job stops, and says so on   *)
(* its way out (HeartbeatThread.__exit__); the write may fail.             *)
Exit(j, a) ==
    /\ a \in live[j] /\ ~Owns(j, a) /\ Leaves(j, a)
    /\ \/ Acknowledges(j, a) /\ job' = [job EXCEPT ![j].beat = FALSE]
       \/ UNCHANGED job
    /\ UNCHANGED look

(* A deploy, an out-of-memory kill or the hard limit: no acknowledgement.  *)
Die(j, a) ==
    /\ a \in live[j] /\ Leaves(j, a)
    /\ UNCHANGED <<job, look>>

-----------------------------------------------------------------------------
(* The watchdog and the clock.                                             *)

(* No heartbeat for 15 minutes: the worker is gone, or it is a silent one. *)
LooksDead(j) == job[j].status = "active" /\ (job[j].retry \notin live[j] \/ j \in Silent)

(* Mutant: a dead job is re-queued without end.                            *)
RequeueAlways(j) == LooksDead(j) /\ Pend(j) /\ UNCHANGED <<live, look>>

(* The watchdog re-queues the job of a worker that looks dead, or fails it *)
(* after its last retry.                                                   *)
Requeue(j) ==
    /\ LooksDead(j) /\ job[j].retry < MaxRetries[j]
    /\ Pend(j)
    /\ UNCHANGED <<live, look>>

GiveUp(j) ==
    /\ LooksDead(j) /\ job[j].retry = MaxRetries[j]
    /\ job' = [job EXCEPT ![j].status = "failed"]
    /\ UNCHANGED <<live, look>>

(* started_at is older than the hard time limit and its slack: by then the *)
(* limit has killed every worker of the job.                               *)
Lapse(j) ==
    /\ job[j].status = "cancelled" /\ job[j].beat /\ ~job[j].old /\ live[j] = {}
    /\ job' = [job EXCEPT ![j].old = TRUE]
    /\ UNCHANGED <<live, look>>

-----------------------------------------------------------------------------
Work(j, a) == Finish(j, a) \/ RetryScrape(j, a) \/ Exit(j, a)
Recover(j) == Requeue(j) \/ GiveUp(j)

SlotNext ==
    \/ \E s \in Starters : Enter(s) \/ \E c \in Configs : Look(s, c)
    \/ \E j \in Jobs : \/ Cancel(j) \/ Claim(j) \/ Recover(j) \/ Lapse(j)
                       \/ \E a \in Attempts : Work(j, a) \/ Die(j, a)

SlotSpec == SlotInit /\ [][SlotNext]_slotVars

-----------------------------------------------------------------------------
(* Properties.                                                             *)

SlotTypeOK ==
    /\ job \in [Jobs -> JobRow]
    /\ live \in [Jobs -> SUBSET Attempts]
    /\ DOMAIN look = Starters /\ \A s \in Starters : IsLook(look[s])

(* A worker whose attempt is its job's current one keeps the slot for that *)
(* job, whatever cancels, superseded attempts and late acknowledgements    *)
(* do; only a watchdog that gave up on a worker that looked dead frees it. *)
WorkerHoldsSlot ==
    \A j \in Jobs : job[j].retry \in live[j] =>
        HoldsSlot(j) \/ (j \in Silent /\ job[j].status = "failed")

Working(j) == job[j].retry \in live[j] /\ job[j].status \in {"active", "cancelled"}

(* Two workers of one scraper run side by side only if the starter of the  *)
(* later job looked before the earlier job was settled: no starter passes  *)
(* a cancelled run it could see.                                           *)
SlotExclusive ==
    \A j, k \in Jobs :
        j[1] = k[1] /\ j[2] < k[2] /\ Working(j) /\ Working(k) => job[k].seen < j[2]

(* The slot is kept by a worker that needs it, and given to one run at a   *)
(* time.                                                                   *)
SlotSafe == WorkerHoldsSlot /\ SlotExclusive
=============================================================================
