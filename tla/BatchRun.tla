------------------------------ MODULE BatchRun ------------------------------
(***************************************************************************)
(* A batch is a set of scrapers run together.  A run of it is a durable    *)
(* 'pending' row; a dispatch (at least once) starts one job per scraper    *)
(* whose slot it finds free; sweeps re-send what was lost, and a sweep     *)
(* that holds the run's lease writes its final status and combined export  *)
(* and mails it once (workers/batch_tasks.py, scheduler_helpers/batch.py,  *)
(* workers/batch_export.py).  The jobs are RunSlot's, and its starters go  *)
(* on starting runs of the same scrapers.                                  *)
(*                                                                         *)
(* Modelled for one batch: no scraper is in two, so batches meet only in   *)
(* the sweeps, which take each run on its own.                             *)
(***************************************************************************)
EXTENDS RunSlot

CONSTANTS
    MaxBatchRuns,  \* bound: runs of the batch
    Finalizers,    \* sweeps that may be finalizing at once
    NoOne          \* the lease of a run nobody finalizes

Runs == 1..MaxBatchRuns

ASSUME BatchConstants == MaxBatchRuns \in Nat \ {0} /\ NoOne \notin Finalizers

VARIABLES
    run,         \* the batch_runs rows
    fan,         \* fan[b]: what the dispatch that holds b's row lock found
    dispatches,  \* pending runs with a dispatch_batch_run message at the broker
    fin          \* fin[f]: where a finalizing sweep is

batchVars == <<run, fan, dispatches, fin>>
vars == <<slotVars, batchVars>>

(* `failed`: the children in failed_children; `blocked`: its scrapers that *)
(* got no job.  `late`: pending, or running, for more than 90 minutes.     *)
(* `sent`: delivery_started_at, `mails` a history variable.                *)
RunRow == [status : {"none", "pending", "running", "done", "partial", "failed"},
           children : SUBSET Jobs, blocked : SUBSET Configs, failed : SUBSET Jobs,
           export : SUBSET Jobs, lease : Finalizers \cup {NoOne}, expired : BOOLEAN,
           late : BOOLEAN, sent : BOOLEAN, mails : Nat]
NoRun == [status |-> "none", children |-> {}, blocked |-> {}, failed |-> {}, export |-> {},
          lease |-> NoOne, expired |-> FALSE, late |-> FALSE, sent |-> FALSE, mails |-> 0]

(* A sweep claims a run and reads how its children ended, writes, delivers. *)
FinRow == [at : {"idle", "read", "written"}, run : Runs, forced : BOOLEAN,
           failed : SUBSET Jobs]
Idle == [at |-> "idle", run |-> 1, forced |-> FALSE, failed |-> {}]

Init ==
    /\ SlotInit
    /\ run = [b \in Runs |-> NoRun]
    /\ fan = [b \in Runs |-> NoLook]
    /\ dispatches = {}
    /\ fin = [f \in Finalizers |-> Idle]

-----------------------------------------------------------------------------
(* Operators.                                                              *)

Pending(b) == run[b].status = "pending"
Running(b) == run[b].status = "running"
Ended(b) == run[b].status \in {"done", "partial", "failed"}
Locked(b) == fan[b] # NoLook

(* A scraper with a cancelled run that has not stopped.                    *)
Stopping(c) == \E j \in JobsOf(c) : job[j].status = "cancelled" /\ HoldsSlot(j)

LeaseFree(b) == run[b].lease = NoOne \/ run[b].expired

-----------------------------------------------------------------------------
(* Creation and dispatch.                                                  *)

(* POST /batches, or the schedule's tick: one active run per batch, and a  *)
(* publish that may be lost.                                               *)
Create(b) ==
    /\ run[b].status = "none" /\ \A a \in Runs : a < b => Ended(a)
    /\ run' = [run EXCEPT ![b].status = "pending"]
    /\ dispatches' \in {dispatches, dispatches \cup {b}}
    /\ UNCHANGED <<slotVars, fan, fin>>

(* The account may not start runs, or no scraper of the batch may: the run *)
(* fails without a job.                                                    *)
DispatchRefused(b) ==
    /\ b \in dispatches /\ ~Locked(b)
    /\ run' = [run EXCEPT ![b].status = "failed", ![b].blocked = Configs]
    /\ dispatches' = dispatches \ {b}
    /\ UNCHANGED <<slotVars, fan, fin>>

(* The dispatch locks the pending row and looks which scrapers it may      *)
(* start: the plan may block any, a cancelled run that is still stopping   *)
(* does.  An active run is the insert's business.                          *)
DispatchLook(b) ==
    /\ b \in dispatches /\ ~Locked(b)
    /\ \E S \in SUBSET {c \in Configs : ~Stopping(c)} \ {{}} :
           fan' = [fan EXCEPT ![b] = [c \in S |-> Settled(c)]]
    /\ UNCHANGED <<slotVars, run, dispatches, fin>>

(* Each job is inserted in a savepoint, and the run flipped.  What is left *)
(* of the message finds no pending run and publishes the children again.   *)
DispatchCommit(b) ==
    /\ Locked(b) /\ Insert(fan[b])
    /\ LET started == Insertable(fan[b])
           kids == NewJobs(started)
       IN  run' = [run EXCEPT ![b].status = IF kids = {} THEN "failed" ELSE "running",
                              ![b].children = kids, ![b].blocked = Configs \ started,
                              ![b].late = FALSE]
    /\ fan' = [fan EXCEPT ![b] = NoLook]
    /\ dispatches' = dispatches \ {b}
    /\ UNCHANGED <<live, look, fin>>

(* The worker dies before its commit: nothing happened.  The broker still  *)
(* holds the message, or has lost it.                                      *)
DispatchDies(b) ==
    /\ Locked(b)
    /\ fan' = [fan EXCEPT ![b] = NoLook]
    /\ dispatches' \in {dispatches, dispatches \ {b}}
    /\ UNCHANGED <<slotVars, run, fin>>

-----------------------------------------------------------------------------
(* The recovery sweep.                                                     *)

Redispatch(b) ==
    /\ Pending(b) /\ ~run[b].late /\ b \notin dispatches
    /\ dispatches' = dispatches \cup {b}
    /\ UNCHANGED <<slotVars, run, fan, fin>>

(* Guarded on the status, so it waits for a dispatch that holds the row    *)
(* and then finds it running.                                              *)
GiveUpPending(b) ==
    /\ Pending(b) /\ run[b].late /\ ~Locked(b)
    /\ run' = [run EXCEPT ![b].status = "failed"]
    /\ dispatches' = dispatches \ {b}
    /\ UNCHANGED <<slotVars, fan, fin>>

(* 90 minutes pass since created_at, or since running_at.                  *)
Late(b) ==
    /\ Pending(b) \/ Running(b)
    /\ ~run[b].late
    /\ run' = [run EXCEPT ![b].late = TRUE]
    /\ UNCHANGED <<slotVars, fan, dispatches, fin>>

-----------------------------------------------------------------------------
(* The completion sweep.                                                   *)

(* Mutant: a forced finalize lists the children that failed, no others.    *)
ReadFailedOnly(b, forced) == {j \in run[b].children : job[j].status \in {"failed", "cancelled"}}

(* The children a finalize lists as failed, by the statuses it reads.      *)
ReadFailed(b, forced) ==
    {j \in run[b].children :
         job[j].status \in {"failed", "cancelled"} \/ (forced /\ job[j].status # "done")}

(* A running run with a free or expired lease, every child settled or the  *)
(* deadline passed: one conditional statement.  The read that follows sees *)
(* what a later claim would see, so it is one step with the claim.         *)
SweepClaim(f, b) ==
    /\ fin[f].at = "idle" /\ Running(b) /\ LeaseFree(b)
    /\ run[b].late \/ \A j \in run[b].children : Over(j)
    /\ run' = [run EXCEPT ![b].lease = f, ![b].expired = FALSE]
    /\ fin' = [fin EXCEPT ![f] = [at |-> "read", run |-> b, forced |-> run[b].late,
                                 failed |-> ReadFailed(b, run[b].late)]]
    /\ UNCHANGED <<slotVars, fan, dispatches>>

(* The lease bears the time its sweep began, up to 19 finalizes earlier,   *)
(* so it may expire at once.                                               *)
LeaseExpires(b) ==
    /\ Running(b) /\ ~LeaseFree(b)
    /\ run' = [run EXCEPT ![b].expired = TRUE]
    /\ UNCHANGED <<slotVars, fan, dispatches, fin>>

(* Mutant: a forced finalize leaves the children it gave up on running.    *)
TimedOutNone(f) == {}

(* The children a forced finalize cancels.                                 *)
TimedOut(f) == {j \in run[fin[f].run].children : fin[f].forced /\ ~Over(j)}

(* Mutant: the final write is guarded neither by the lease nor the status. *)
MayWriteAlways(f) == fin[f].at = "read"

(* The final write is made by the lease's owner to a running run.          *)
MayWrite(f) == Running(fin[f].run) /\ run[fin[f].run].lease = f

Verdict(failed, total) ==
    IF failed = 0 THEN "done" ELSE IF failed >= total THEN "failed" ELSE "partial"

(* One transaction: the forced cancel, the export of the children that are *)
(* done, the guarded final write.  If the guard misses, the cancel is      *)
(* committed all the same.                                                 *)
Finalize(f) ==
    /\ fin[f].at = "read"
    /\ LET b == fin[f].run
           kids == run[b].children
           refused == Cardinality(run[b].blocked)
           failures == refused + Cardinality(fin[f].failed)
       IN  /\ job' = [j \in Jobs |-> IF j \in TimedOut(f)
                                     THEN [job[j] EXCEPT !.status = "cancelled"] ELSE job[j]]
           /\ IF MayWrite(f)
              THEN /\ run' = [run EXCEPT ![b].failed = fin[f].failed,
                                ![b].export = {j \in kids : job[j].status = "done"},
                                ![b].status = Verdict(failures, refused + Cardinality(kids))]
                   /\ fin' = [fin EXCEPT ![f].at = "written", ![f].failed = {}]
              ELSE fin' = [fin EXCEPT ![f] = Idle] /\ UNCHANGED run
    /\ UNCHANGED <<live, look, fan, dispatches>>

(* The upload or the database fails: rolled back, and the lease released   *)
(* if it is still this sweep's.                                            *)
FinalizeFails(f) ==
    /\ fin[f].at = "read"
    /\ LET b == fin[f].run
       IN  run' = IF run[b].lease = f
                  THEN [run EXCEPT ![b].lease = NoOne, ![b].expired = FALSE] ELSE run
    /\ fin' = [fin EXCEPT ![f] = Idle]
    /\ UNCHANGED <<slotVars, fan, dispatches>>

(* _deliver: a run with something to show is mailed once, by whoever first *)
(* stamps delivery_started_at.                                             *)
Deliver(f) ==
    /\ fin[f].at = "written"
    /\ LET b == fin[f].run
       IN  run' = IF run[b].status \in {"done", "partial"} /\ ~run[b].sent
                  THEN [run EXCEPT ![b].sent = TRUE, ![b].mails = @ + 1] ELSE run
    /\ fin' = [fin EXCEPT ![f] = Idle]
    /\ UNCHANGED <<slotVars, fan, dispatches>>

FinalizerDies(f) ==
    /\ fin[f].at # "idle"
    /\ fin' = [fin EXCEPT ![f] = Idle]
    /\ UNCHANGED <<slotVars, run, fan, dispatches>>

-----------------------------------------------------------------------------
Dispatch(b) == DispatchRefused(b) \/ DispatchLook(b) \/ DispatchCommit(b) \/ DispatchDies(b)
RecoverySweep(b) == Redispatch(b) \/ GiveUpPending(b)
Clock(b) == Late(b) \/ LeaseExpires(b)
Finalizing(f) == Finalize(f) \/ FinalizeFails(f) \/ Deliver(f) \/ FinalizerDies(f)

Next ==
    \/ SlotNext /\ UNCHANGED batchVars
    \/ \E b \in Runs : \/ Create(b) \/ Dispatch(b) \/ RecoverySweep(b) \/ Clock(b)
                       \/ \E f \in Finalizers : SweepClaim(f, b)
    \/ \E f \in Finalizers : Finalizing(f)

Spec == Init /\ [][Next]_vars

-----------------------------------------------------------------------------
(* Properties.                                                             *)

TypeOK ==
    /\ SlotTypeOK
    /\ run \in [Runs -> RunRow]
    /\ DOMAIN fan = Runs /\ \A b \in Runs : IsLook(fan[b])
    /\ dispatches \subseteq Runs
    /\ fin \in [Finalizers -> FinRow]

(* No child of a run outlives it: once the run is final, none is pending   *)
(* or claimed, so none is scraped or billed for a result nobody collects.  *)
NoChildOutlivesRun == \A b \in Runs : Ended(b) => \A j \in run[b].children : Over(j)

(* A final run says what it delivers: 'done' means every scraper of the    *)
(* batch has its leads in the export, and whatever is missing is named     *)
(* among the failed or the blocked.                                        *)
OutcomeHonest ==
    \A b \in Runs : Ended(b) =>
        /\ run[b].children \subseteq run[b].export \cup run[b].failed
        /\ \A j \in run[b].export : job[j].status = "done"
        /\ run[b].status = "done" => run[b].blocked = {} /\ run[b].export = run[b].children

(* The outcome of a final run is never written again, however many sweeps  *)
(* lost their lease while they were finalizing it, and is mailed at most   *)
(* once.                                                                   *)
Outcome(b) == <<run[b].status, run[b].children, run[b].failed, run[b].export>>
FinalIsFinal ==
    [][\A b \in Runs : (Ended(b) => Outcome(b)' = Outcome(b)) /\ run'[b].mails <= 1]_vars
=============================================================================
