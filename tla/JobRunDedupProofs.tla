------------------------- MODULE JobRunDedupProofs -------------------------
(***************************************************************************)
(* Theorems about the leads a run delivers, for users none of whose workers *)
(* looks dead while it is alive (Silent = {}): what a run billed stays on  *)
(* its list and stays claimed by it, no lead is billed by two runs, and    *)
(* every run keeps the contract of RunContract.                            *)
(*                                                                         *)
(* The argument.  A restart finds the attempt before it gone, so a job has *)
(* one live attempt at most (SoleAttempt).  Whatever that attempt still    *)
(* counts as its first delivery it holds the claim of, from the step that  *)
(* flags the other rows to the bill (FlightHeld): nobody but the attempt   *)
(* itself takes a claim from a job in flight, which is ClaimKept.  So the  *)
(* bill covers claimed leads only (DoneHeld), and a job that is done is    *)
(* left alone by every other attempt and by its own (DoneQuiet).           *)
(***************************************************************************)
EXTENDS JobRunProofs

USE DEF leadVars, quotaVars

(* A job has one live attempt at most, the one its row names; a pending job *)
(* has none.                                                               *)
SoleAttempt ==
    /\ \A j \in Jobs : job[j].status = "pending" => ~job[j].started
    /\ \A j \in Jobs, a \in Attempts :
         ~At(j, a, "none") => job[j].started /\ a = job[j].retry

(* The worker of a job that is done does nothing but tidy up.              *)
DoneQuiet ==
    \A j \in Jobs, a \in Attempts :
        job[j].status = "done" => att[j][a].pc \in {"none", "tidy"}

(* The attempt of a job in flight holds the claim of every lead that is    *)
(* still its first delivery.                                               *)
FlightHeld ==
    \A j \in Jobs, a \in Attempts :
        job[j].status \notin Terminal =>
            /\ At(j, a, "mark") => att[j][a].mine \subseteq OwnClaims(j)
            /\ att[j][a].pc \in {"export", "transfer", "cap"} =>
                 \A l \in Leads : rows[j][l] = "new" => claim[l] = j
            /\ At(j, a, "final") => Deliverable(j) \subseteq OwnClaims(j)

(* A job that is done lists and holds what it billed; any other billed     *)
(* nothing.                                                                *)
DoneHeld ==
    \A j \in Jobs :
        IF job[j].status = "done"
        THEN delivered[j] = Deliverable(j) /\ delivered[j] \subseteq OwnClaims(j)
        ELSE delivered[j] = {}

DedupInv == OutcomeInv /\ SoleAttempt /\ DoneQuiet /\ FlightHeld /\ DoneHeld

-----------------------------------------------------------------------------
(* A step that starts no worker and re-pends no job.                       *)
NoNewWorker ==
    /\ \A i \in Jobs : /\ job'[i].started = job[i].started
                       /\ job'[i].retry = job[i].retry
                       /\ job'[i].status = "pending" => job[i].status = "pending"
    /\ \A i \in Jobs, b \in Attempts : att[i][b].pc = "none" => att'[i][b].pc = "none"

(* A step of a live worker that only moves on, or only rewrites columns    *)
(* other than the attempt's.                                               *)
LEMMA MovesOn ==
    ASSUME TypeOK, NEW j \in Jobs, NEW a \in Attempts, NEW pc, ~At(j, a, "none"),
           Goto(j, a, pc)
    PROVE  \A i \in Jobs, b \in Attempts : att[i][b].pc = "none" => att'[i][b].pc = "none"
  BY GotoPc DEF At

LEMMA ReleaseKeepsStamps ==
    ASSUME TypeOK, NEW j \in Jobs, Release(j)
    PROVE  \A i \in Jobs : /\ job'[i].started = job[i].started
                           /\ job'[i].retry = job[i].retry
                           /\ job'[i].status = job[i].status
<1>1. \/ job' = [job EXCEPT ![j].reserved = FALSE, ![j].count = 0]
      \/ job' = job
  BY DEF Release
<1>2. CASE job' = [job EXCEPT ![j].reserved = FALSE, ![j].count = 0]
  BY <1>2 DEF TypeOK, JobRow
<1> QED BY <1>1, <1>2

(* Every step of a worker that is not a re-pend starts nobody.             *)
LEMMA WorkStartsNobody ==
    ASSUME TypeOK, NEW j \in Jobs, NEW a \in Attempts, Work(j, a) \/ WorkerDies(j, a),
           ~RetryScrape(j, a)
    PROVE  NoNewWorker
<1>0. \A i \in Jobs : job[i] \in JobRow
  BY DEF TypeOK
<1>1. ASSUME NEW pc, ~At(j, a, "none"), Goto(j, a, pc), UNCHANGED job
      PROVE  NoNewWorker
  BY <1>1, MovesOn DEF NoNewWorker
<1>2. ASSUME NEW pc, NEW s, s # "pending", ~At(j, a, "none"), Goto(j, a, pc),
             job' = [job EXCEPT ![j].status = s]
      PROVE  NoNewWorker
  <2>1. \A i \in Jobs : /\ job'[i].started = job[i].started
                        /\ job'[i].retry = job[i].retry
                        /\ job'[i].status = "pending" => job[i].status = "pending"
    BY <1>2, <1>0 DEF TypeOK, JobRow
  <2> QED BY <1>2, <2>1, MovesOn DEF NoNewWorker
<1>3. CASE \/ ScrapeOk(j, a) \/ SaveRows(j, a) \/ StartDedup(j, a)
           \/ MarkDuplicates(j, a) \/ Export(j, a) \/ DeliveryFails(j, a)
  BY <1>3, <1>1 DEF ScrapeOk, SaveRows, StartDedup, MarkDuplicates, Export,
                    DeliveryFails, At
<1>4. CASE ReuseGrantAndCap(j, a) \/ TransferDone(j, a) \/ ReleaseParcelless(j, a)
  BY <1>4, <1>1 DEF ReuseGrantAndCap, TransferDone, ReleaseParcelless, At
<1>5. CASE \/ StopOnMiss(j, a) \/ DropCancelledClaims(j, a)
           \/ DropAfterUncaught(j, a) \/ WorkerDies(j, a)
  BY <1>5, <1>1 DEF StopOnMiss, DropCancelledClaims, DropAfterUncaught, WorkerDies, At
<1>6. CASE FailJob(j, a)
  <2>1. ~At(j, a, "none")
    BY <1>6 DEF FailJob, At
  <2> QED BY <1>6, <2>1, <1>1, <1>2 DEF FailJob
<1>7. CASE FailAfterUncaught(j, a)
  <2>1. ~At(j, a, "none")
    BY <1>7 DEF FailAfterUncaught, At, WorkSteps
  <2> QED BY <1>7, <2>1, <1>1, <1>2 DEF FailAfterUncaught
<1>8. CASE ReleaseAfterFail(j, a) \/ ReleaseOnCleanup(j, a) \/ ReleaseAfterUncaught(j, a)
  <2>1. PICK from \in {"releasing", "cleanup", "uncaughtRelease"},
             to \in {"none", "dropping", "uncaughtDrop"} : ReleaseStep(j, a, from, to)
    BY <1>8 DEF ReleaseAfterFail, ReleaseOnCleanup, ReleaseAfterUncaught
  <2>2. ~At(j, a, "none") /\ Goto(j, a, to) /\ Release(j)
    BY <2>1 DEF ReleaseStep, At
  <2> QED BY <2>2, MovesOn, ReleaseKeepsStamps DEF NoNewWorker
<1>9. CASE ClaimLeads(j, a)
  BY <1>9 DEF ClaimLeads, NoNewWorker, TypeOK, At
<1>10. ASSUME NEW l \in Leads, TakeUnheldClaim(j, a, l) \/ TransferClaim(j, a, l)
       PROVE  NoNewWorker
  BY <1>10 DEF TakeUnheldClaim, TransferClaim, NoNewWorker
<1>11. CASE ReserveAndCap(j, a)
  <2>1. \A i \in Jobs : /\ job'[i].started = job[i].started
                        /\ job'[i].retry = job[i].retry
                        /\ job'[i].status = "pending" => job[i].status = "pending"
    BY <1>11, <1>0 DEF ReserveAndCap, TypeOK, JobRow
  <2>2. ~At(j, a, "none") /\ Goto(j, a, "final")
    BY <1>11 DEF ReserveAndCap, At
  <2>3. \A i \in Jobs, b \in Attempts : att[i][b].pc = "none" => att'[i][b].pc = "none"
    BY <2>2, MovesOn
  <2> QED BY <2>1, <2>3 DEF NoNewWorker
<1>12. CASE Finalize(j, a)
  <2>1. \A i \in Jobs : /\ job'[i].started = job[i].started
                        /\ job'[i].retry = job[i].retry
                        /\ job'[i].status = "pending" => job[i].status = "pending"
    BY <1>12, <1>0 DEF Finalize, TypeOK, JobRow
  <2>2. ~At(j, a, "none") /\ Goto(j, a, "tidy")
    BY <1>12 DEF Finalize, At
  <2>3. \A i \in Jobs, b \in Attempts : att[i][b].pc = "none" => att'[i][b].pc = "none"
    BY <2>2, MovesOn
  <2> QED BY <2>1, <2>3 DEF NoNewWorker
<1> QED BY <1>3, <1>4, <1>5, <1>6, <1>7, <1>8, <1>9, <1>10, <1>11, <1>12 DEF Work

(* A job never gets a second live attempt: the watchdog re-pends a job only *)
(* when its attempt is gone, and _retry_scrape_job as its attempt leaves.  *)
LEMMA SoleStep ==
    ASSUME TypeOK, SoleAttempt, Silent = {}, [Next]_vars
    PROVE  SoleAttempt'
<1>0. \A i \in Jobs : job[i] \in JobRow
  BY DEF TypeOK
<1>1. CASE NoNewWorker
  BY <1>1 DEF NoNewWorker, SoleAttempt, At
<1>2. CASE UNCHANGED <<job, att>>
  BY <1>2 DEF SoleAttempt, At
<1>3. ASSUME NEW j \in Jobs, Claim(j) PROVE SoleAttempt'
  <2>1. \A i \in Jobs : /\ i = j => job'[i].started
                        /\ i # j => job'[i].started = job[i].started
                        /\ job'[i].retry = job[i].retry
                        /\ job'[i].status = IF i = j THEN "active" ELSE job[i].status
    BY <1>3, <1>0 DEF Claim, TypeOK, JobRow
  <2>2. job[j].retry \in Attempts
    BY <1>0 DEF JobRow
  <2>3. \A i \in Jobs, b \in Attempts :
          att'[i][b].pc = IF i = j /\ b = job[j].retry THEN "scrape" ELSE att[i][b].pc
    BY <1>3, <2>2, GotoPc DEF Claim
  <2>4. \A b \in Attempts : att[j][b].pc = "none"
    BY <1>3 DEF Claim, SoleAttempt, At
  <2>5. ASSUME NEW i \in Jobs, NEW b \in Attempts, att'[i][b].pc # "none"
        PROVE  job'[i].started /\ b = job'[i].retry
    BY <2>1, <2>3, <2>4, <2>5 DEF SoleAttempt, At
  <2>6. ASSUME NEW i \in Jobs, job'[i].status = "pending" PROVE ~job'[i].started
    BY <2>1, <2>6 DEF SoleAttempt
  <2> QED BY <2>5, <2>6 DEF SoleAttempt, At
<1>4. ASSUME NEW j \in Jobs, Requeue(j) PROVE SoleAttempt'
  <2>1. \A i \in Jobs : /\ i = j => ~job'[i].started
                        /\ i # j => job'[i].started = job[i].started
                        /\ i # j => job'[i].retry = job[i].retry
                        /\ i # j => job'[i].status = job[i].status
    BY <1>4, <1>0 DEF Requeue, TypeOK, JobRow
  <2>2. \A b \in Attempts : att[j][b].pc = "none"
    BY <1>4 DEF Requeue, LooksDead, SoleAttempt, At
  <2>3. att' = att
    BY <1>4 DEF Requeue
  <2>4. ASSUME NEW i \in Jobs, NEW b \in Attempts, att'[i][b].pc # "none"
        PROVE  job'[i].started /\ b = job'[i].retry
    BY <2>1, <2>2, <2>3, <2>4 DEF SoleAttempt, At
  <2>5. ASSUME NEW i \in Jobs, job'[i].status = "pending" PROVE ~job'[i].started
    BY <2>1, <2>5 DEF SoleAttempt
  <2> QED BY <2>4, <2>5 DEF SoleAttempt, At
<1>5. ASSUME NEW j \in Jobs, Cancel(j) \/ GiveUp(j) \/ Redeliver(j) PROVE SoleAttempt'
  <2>1. CASE Redeliver(j)
    BY <2>1, <1>2 DEF Redeliver
  <2>2. CASE Cancel(j) \/ GiveUp(j)
    <3>1. PICK s \in {"cancelled", "failed"} : job' = [job EXCEPT ![j].status = s]
      BY <2>2 DEF Cancel, GiveUp
    <3>2. \A i \in Jobs : /\ job'[i].started = job[i].started
                          /\ job'[i].retry = job[i].retry
                          /\ job'[i].status = "pending" => job[i].status = "pending"
      BY <3>1, <1>0 DEF TypeOK, JobRow
    <3>3. att' = att
      BY <2>2 DEF Cancel, GiveUp
    <3> QED BY <3>2, <3>3, <1>1 DEF NoNewWorker
  <2> QED BY <1>5, <2>1, <2>2
<1>6. ASSUME NEW j \in Jobs, SweepReservation(j) PROVE SoleAttempt'
  <2>1. NoNewWorker
    BY <1>6, ReleaseKeepsStamps DEF SweepReservation, NoNewWorker
  <2> QED BY <2>1, <1>1
<1>7. ASSUME NEW j \in Jobs, NEW a \in Attempts, RetryScrape(j, a) PROVE SoleAttempt'
  <2>1. \A i \in Jobs : /\ i = j => ~job'[i].started
                        /\ i # j => job'[i].started = job[i].started
                        /\ i # j => job'[i].retry = job[i].retry
                        /\ i # j => job'[i].status = job[i].status
    BY <1>7, <1>0 DEF RetryScrape, TypeOK, JobRow
  <2>2. \A i \in Jobs, b \in Attempts :
          att'[i][b].pc = IF i = j /\ b = a THEN "none" ELSE att[i][b].pc
    BY <1>7, GotoPc DEF RetryScrape
  <2>3. \A b \in Attempts : b # a => att[j][b].pc = "none"
    BY <1>7 DEF RetryScrape, SoleAttempt, At
  <2>4. ASSUME NEW i \in Jobs, NEW b \in Attempts, att'[i][b].pc # "none"
        PROVE  job'[i].started /\ b = job'[i].retry
    BY <2>1, <2>2, <2>3, <2>4 DEF SoleAttempt, At
  <2>5. ASSUME NEW i \in Jobs, job'[i].status = "pending" PROVE ~job'[i].started
    BY <2>1, <2>5 DEF SoleAttempt
  <2> QED BY <2>4, <2>5 DEF SoleAttempt, At
<1>8. ASSUME NEW j \in Jobs, NEW a \in Attempts, Work(j, a) \/ WorkerDies(j, a)
      PROVE  SoleAttempt'
  BY <1>8, <1>7, <1>1, WorkStartsNobody
<1> QED BY <1>2, <1>3, <1>4, <1>5, <1>6, <1>8
        DEF Next, vars, Recover, Deliver, DeliverAgain, SweepClaims, WindowEnds, RollWindow

-----------------------------------------------------------------------------
(* A worker is moved by its own steps and by the claim that starts it.     *)
LEMMA WhoMoves ==
    ASSUME TypeOK, [Next]_vars, NEW i \in Jobs, NEW b \in Attempts,
           att'[i][b] # att[i][b]
    PROVE  \/ Claim(i) /\ att'[i][b].pc = "scrape"
           \/ Work(i, b)
           \/ WorkerDies(i, b)
<1>1. ASSUME NEW j \in Jobs, NEW a \in Attempts, NEW r, att' = [att EXCEPT ![j][a] = r]
      PROVE  i = j /\ b = a /\ att'[i][b] = r
  BY <1>1 DEF TypeOK
<1>2. ASSUME NEW j \in Jobs, NEW a \in Attempts, Work(j, a) \/ WorkerDies(j, a)
      PROVE  \E r : att' = [att EXCEPT ![j][a] = r]
  <2>1. ASSUME NEW pc, Goto(j, a, pc)
        PROVE  \E r : att' = [att EXCEPT ![j][a] = r]
    BY <2>1 DEF Goto
  <2>2. CASE ClaimLeads(j, a)
    BY <2>2 DEF ClaimLeads
  <2>3. ASSUME NEW l \in Leads, TakeUnheldClaim(j, a, l) \/ TransferClaim(j, a, l) PROVE FALSE
    BY <2>3 DEF TakeUnheldClaim, TransferClaim
  <2> QED BY <1>2, <2>1, <2>2, <2>3
          DEF Work, WorkerDies, ScrapeOk, SaveRows, StartDedup, RetryScrape,
              MarkDuplicates, Export, TransferDone, ReserveAndCap, ReuseGrantAndCap,
              Finalize, ReleaseParcelless, DeliveryFails, StopOnMiss, FailJob,
              ReleaseAfterFail, ReleaseOnCleanup, ReleaseStep, DropCancelledClaims,
              FailAfterUncaught, ReleaseAfterUncaught, DropAfterUncaught
<1>3. ASSUME NEW j \in Jobs, NEW a \in Attempts, Work(j, a) \/ WorkerDies(j, a)
      PROVE  Work(i, b) \/ WorkerDies(i, b)
  <2>1. i = j /\ b = a
    BY <1>1, <1>2, <1>3
  <2> QED BY <1>3, <2>1
<1>4. ASSUME NEW j \in Jobs, Claim(j)
      PROVE  Claim(i) /\ att'[i][b].pc = "scrape"
  <2>1. job[j].retry \in Attempts
    BY DEF TypeOK, JobRow
  <2>2. i = j /\ att'[i][b].pc = "scrape"
    BY <1>4, <2>1, <1>1 DEF Claim, Goto
  <2> QED BY <1>4, <2>2
<1> QED BY <1>3, <1>4
        DEF Next, vars, Deliver, DeliverAgain, Cancel, Recover, Requeue, GiveUp, Redeliver,
            SweepReservation, SweepClaims, WindowEnds, RollWindow

(* Only the bill makes a job done, and only the bill delivers.             *)
LEMMA DoneByFinalize ==
    ASSUME TypeOK, [Next]_vars, NEW i \in Jobs,
           \/ job'[i].status = "done" /\ job[i].status # "done"
           \/ delivered'[i] # delivered[i]
    PROVE  \E a \in Attempts : Finalize(i, a)
<1>0. \A k \in Jobs : job[k] \in JobRow
  BY DEF TypeOK
<1>2. ASSUME UNCHANGED job, UNCHANGED delivered PROVE FALSE
  BY <1>2
<1>3. ASSUME NEW j \in Jobs, Release(j), UNCHANGED delivered PROVE FALSE
  BY <1>3, ReleaseKeepsStamps
<1>4. ASSUME NEW j \in Jobs, Claim(j) \/ Cancel(j) \/ Recover(j) PROVE FALSE
  <2>1. CASE Redeliver(j)
    BY <2>1, <1>2 DEF Redeliver
  <2>2. CASE Claim(j)
    BY <2>2, <1>0 DEF Claim, TypeOK, JobRow
  <2>3. CASE Cancel(j) \/ GiveUp(j)
    <3>1. PICK s \in {"cancelled", "failed"} : job' = [job EXCEPT ![j].status = s]
      BY <2>3 DEF Cancel, GiveUp
    <3>2. UNCHANGED delivered
      BY <2>3 DEF Cancel, GiveUp
    <3> QED BY <3>1, <3>2, <1>0 DEF TypeOK, JobRow
  <2>4. CASE Requeue(j)
    BY <2>4, <1>0 DEF Requeue, TypeOK, JobRow
  <2> QED BY <1>4, <2>1, <2>2, <2>3, <2>4 DEF Recover
<1>5. ASSUME NEW j \in Jobs, NEW a \in Attempts, Work(j, a), ~Finalize(j, a) PROVE FALSE
  <2>1. CASE RetryScrape(j, a)
    BY <2>1, <1>0 DEF RetryScrape, TypeOK, JobRow
  <2>2. CASE FailJob(j, a) \/ FailAfterUncaught(j, a)
    BY <2>2, <1>0 DEF FailJob, FailAfterUncaught, TypeOK, JobRow
  <2>3. CASE ReleaseAfterFail(j, a) \/ ReleaseOnCleanup(j, a) \/ ReleaseAfterUncaught(j, a)
    BY <2>3, <1>3 DEF ReleaseAfterFail, ReleaseOnCleanup, ReleaseAfterUncaught, ReleaseStep
  <2>4. CASE ReserveAndCap(j, a)
    BY <2>4, <1>0 DEF ReserveAndCap, TypeOK, JobRow
  <2> QED BY <1>5, <1>2, <2>1, <2>2, <2>3, <2>4
          DEF Work, ScrapeOk, SaveRows, StartDedup, ClaimLeads, MarkDuplicates, Export,
              TakeUnheldClaim, TransferClaim, TransferDone, ReuseGrantAndCap,
              ReleaseParcelless, DeliveryFails, StopOnMiss, DropCancelledClaims,
              DropAfterUncaught
<1>6. ASSUME NEW j \in Jobs, NEW a \in Attempts, Finalize(j, a) PROVE Finalize(i, a)
  BY <1>6, <1>0 DEF Finalize, TypeOK, JobRow
<1> QED BY <1>2, <1>3, <1>4, <1>5, <1>6
        DEF Next, vars, Deliver, DeliverAgain, SweepReservation, WorkerDies, SweepClaims,
            WindowEnds, RollWindow

-----------------------------------------------------------------------------
(* A worker that acts is not gone.                                         *)
LEMMA WorkersAct ==
    ASSUME NEW j \in Jobs, NEW a \in Attempts, Work(j, a)
    PROVE  ~At(j, a, "none")
  BY DEF Work, ScrapeOk, SaveRows, StartDedup, RetryScrape, ClaimLeads, MarkDuplicates,
         Export, TakeUnheldClaim, TransferClaim, TransferDone, ReserveAndCap,
         ReuseGrantAndCap, Finalize, ReleaseParcelless, DeliveryFails, StopOnMiss,
         FailJob, ReleaseAfterFail, ReleaseOnCleanup, ReleaseStep, DropCancelledClaims,
         FailAfterUncaught, ReleaseAfterUncaught, DropAfterUncaught, At, WorkSteps

(* While the worker of a job in flight does not move, no row of the job    *)
(* becomes a first delivery without its claim, and the cap stays.          *)
LEMMA RowsKept ==
    ASSUME TypeOK, SoleAttempt, [Next]_vars, NEW i \in Jobs, NEW b \in Attempts,
           att[i][b].pc \in {"mark", "export", "transfer", "cap", "final"},
           att'[i][b] = att[i][b]
    PROVE  /\ capped'[i] = capped[i]
           /\ \A l \in Leads : rows'[i][l] = "new" => rows[i][l] = "new" \/ claim'[l] = i
<1> DEFINE Goal == /\ capped'[i] = capped[i]
                   /\ \A l \in Leads : rows'[i][l] = "new" => rows[i][l] = "new" \/ claim'[l] = i
<1>1. ASSUME UNCHANGED rows, UNCHANGED capped PROVE Goal
  BY <1>1
<1>2. ASSUME NEW j \in Jobs, NEW a \in Attempts, Work(j, a) PROVE Goal
  <2>1. i = j => a = b
    BY <1>2, WorkersAct DEF SoleAttempt, At
  <2>2. CASE SaveRows(j, a)
    BY <2>1, <2>2 DEF SaveRows, TypeOK, At
  <2>3. CASE MarkDuplicates(j, a)
    BY <2>3 DEF MarkDuplicates, TypeOK
  <2>4. CASE ReleaseParcelless(j, a)
    BY <2>4 DEF ReleaseParcelless, TypeOK
  <2>5. ASSUME NEW k \in Leads, TakeUnheldClaim(j, a, k) PROVE Goal
    BY <2>5 DEF TakeUnheldClaim, TypeOK
  <2>6. ASSUME NEW k \in Leads, TransferClaim(j, a, k) PROVE Goal
    <3>1. claim[k] \in Jobs /\ claim[k] # j
      BY <2>6 DEF TransferClaim, TypeOK
    <3> QED BY <2>6, <3>1 DEF TransferClaim, TypeOK
  <2>7. CASE ReserveAndCap(j, a) \/ ReuseGrantAndCap(j, a)
    <3>1. At(j, a, "cap") /\ Goto(j, a, "final") /\ UNCHANGED rows
      BY <2>7 DEF ReserveAndCap, ReuseGrantAndCap
    <3>2. i # j
      BY <3>1, <2>1, GotoPc DEF At
    <3>3. \E S : capped' = [capped EXCEPT ![j] = S]
      BY <2>7 DEF ReserveAndCap, ReuseGrantAndCap, ApplyCap
    <3> QED BY <3>1, <3>2, <3>3 DEF TypeOK
  <2> QED BY <1>1, <1>2, <2>2, <2>3, <2>4, <2>5, <2>6, <2>7
          DEF Work, ScrapeOk, StartDedup, RetryScrape, ClaimLeads, Export, TransferDone,
              Finalize, DeliveryFails, StopOnMiss, FailJob, ReleaseAfterFail, ReleaseOnCleanup, ReleaseStep,
              DropCancelledClaims, FailAfterUncaught, ReleaseAfterUncaught, DropAfterUncaught
<1> QED BY <1>1, <1>2
        DEF Next, vars, Deliver, DeliverAgain, Claim, Cancel, Recover, Requeue, GiveUp,
            Redeliver, SweepReservation, WorkerDies, SweepClaims, WindowEnds, RollWindow

(* What one attempt owes at its next position in the run.                  *)
Held(j, a) ==
    /\ At(j, a, "mark") => att[j][a].mine \subseteq OwnClaims(j)
    /\ att[j][a].pc \in {"export", "transfer", "cap"} =>
         \A l \in Leads : rows[j][l] = "new" => claim[l] = j
    /\ At(j, a, "final") => Deliverable(j) \subseteq OwnClaims(j)

(* ... it still has when others move: none of them takes its claims.       *)
LEMMA HeldKept ==
    ASSUME DedupInv, [Next]_vars, NEW i \in Jobs, NEW b \in Attempts,
           job[i].status \notin Terminal, att'[i][b] = att[i][b]
    PROVE  Held(i, b)'
<1>1. CASE att[i][b].pc \in {"mark", "export", "transfer", "cap", "final"}
  <2>1. b = job[i].retry /\ job[i].started
    BY <1>1 DEF DedupInv, SoleAttempt, At
  <2>2. \A l \in Leads : claim[l] = i => claim'[l] = i
    BY <2>1, ClaimKept, ConstantsAssumption DEF DedupInv, ConstantsAssumption
  <2>3. /\ capped'[i] = capped[i]
        /\ \A l \in Leads : rows'[i][l] = "new" => rows[i][l] = "new" \/ claim'[l] = i
    BY <1>1, RowsKept DEF DedupInv, OutcomeInv
  <2>4. Held(i, b)
    BY DEF DedupInv, FlightHeld, Held
  <2> QED BY <2>2, <2>3, <2>4 DEF Held, At, OwnClaims, Deliverable, IsActionable
<1> QED BY <1>1 DEF Held, At

(* ... and has again at the next position when it moves.                   *)
LEMMA HeldMoved ==
    ASSUME DedupInv, [Next]_vars, NEW i \in Jobs, NEW b \in Attempts,
           job[i].status \notin Terminal, job'[i].status \notin Terminal,
           att'[i][b] # att[i][b]
    PROVE  Held(i, b)'
<1> USE DEF DedupInv, OutcomeInv
<1>0. Held(i, b)
  BY DEF FlightHeld, Held
<1>1. ASSUME NEW pc, Goto(i, b, pc), pc \notin {"mark", "export", "transfer", "cap", "final"}
      PROVE  Held(i, b)'
  BY <1>1, GotoPc DEF Held, At
<1>2. CASE ClaimLeads(i, b)
  BY <1>2 DEF ClaimLeads, Held, At, OwnClaims, TypeOK
<1>3. CASE MarkDuplicates(i, b)
  <2>1. att'[i][b].pc = "export" /\ UNCHANGED claim
    BY <1>3, GotoPc DEF MarkDuplicates
  <2>2. \A l \in Leads : rows'[i][l] = "new" => l \in att[i][b].mine \cup OwnClaims(i)
    BY <1>3 DEF MarkDuplicates, TypeOK
  <2>3. att[i][b].mine \subseteq OwnClaims(i)
    BY <1>0, <1>3 DEF MarkDuplicates, Held
  <2> QED BY <2>1, <2>2, <2>3 DEF Held, At, OwnClaims
<1>4. CASE Export(i, b)
  <2>1. att'[i][b].pc = "transfer" /\ UNCHANGED <<rows, claim>> /\ At(i, b, "export")
    BY <1>4, GotoPc DEF Export
  <2> QED BY <2>1, <1>0 DEF Held, At
<1>5. CASE TransferDone(i, b)
  <2>1. /\ att'[i][b].pc \in {"cap", "final"} /\ At(i, b, "transfer")
        /\ UNCHANGED <<rows, capped, claim>>
    BY <1>5, GotoPc DEF TransferDone
  <2> QED BY <2>1, <1>0 DEF Held, At, Deliverable, OwnClaims
<1>6. ASSUME NEW grant, At(i, b, "cap"), ApplyCap(i, b, grant), Goto(i, b, "final"),
             UNCHANGED rows
      PROVE  Held(i, b)'
  <2> DEFINE over == OverQuota(Rankable(i), grant)
  <2>1. att'[i][b].pc = "final"
    BY <1>6, GotoPc
  <2>2. capped'[i] = over
    BY <1>6 DEF ApplyCap, TypeOK
  <2>3. \A l \in Leads \ over : claim'[l] = claim[l]
    BY <1>6 DEF ApplyCap, Unclaimed
  <2>4. \A l \in Leads : rows[i][l] = "new" => claim[l] = i
    BY <1>0, <1>6 DEF Held, At
  <2> HIDE DEF over
  <2> QED BY <1>6, <2>1, <2>2, <2>3, <2>4 DEF Held, At, Deliverable, IsActionable, OwnClaims
<1>7. CASE ReserveAndCap(i, b)
  BY <1>7, <1>6 DEF ReserveAndCap
<1>8. CASE ReuseGrantAndCap(i, b)
  BY <1>8, <1>6 DEF ReuseGrantAndCap
<1>9. CASE Claim(i) /\ att'[i][b].pc = "scrape"
  BY <1>9 DEF Held, At
<1>10. ASSUME NEW l \in Leads, TakeUnheldClaim(i, b, l) \/ TransferClaim(i, b, l) PROVE FALSE
  BY <1>10 DEF TakeUnheldClaim, TransferClaim
<1>11. CASE Work(i, b) \/ WorkerDies(i, b)
  BY <1>11, <1>1, <1>2, <1>3, <1>4, <1>5, <1>7, <1>8, <1>10
     DEF Work, WorkerDies, ScrapeOk, SaveRows, StartDedup, RetryScrape, Finalize,
         ReleaseParcelless, DeliveryFails, StopOnMiss, FailJob, MissedExit,
         ReleaseAfterFail, ReleaseOnCleanup, ReleaseStep, DropCancelledClaims,
         FailAfterUncaught, ReleaseAfterUncaught, DropAfterUncaught
<1> QED BY <1>9, <1>11, WhoMoves

LEMMA FlightStep ==
    ASSUME DedupInv, [Next]_vars
    PROVE  FlightHeld'
<1>1. ASSUME NEW i \in Jobs, NEW b \in Attempts, job'[i].status \notin Terminal
      PROVE  Held(i, b)'
  <2>1. job[i].status \notin Terminal
    BY <1>1, OverIsOver DEF DedupInv, OutcomeInv
  <2> QED BY <1>1, <2>1, HeldKept, HeldMoved
<1> QED BY <1>1 DEF FlightHeld, Held

-----------------------------------------------------------------------------
(* The worker that billed a job goes on to tidy up, and no other is left.  *)
LEMMA QuietDone ==
    ASSUME DedupInv, [Next]_vars
    PROVE  DoneQuiet'
<1> USE DEF DedupInv, OutcomeInv
<1>1. ASSUME NEW i \in Jobs, NEW b \in Attempts, job'[i].status = "done"
      PROVE  att'[i][b].pc \in {"none", "tidy"}
  <2>1. CASE job[i].status # "done"
    <3>1. PICK a \in Attempts : Finalize(i, a)
      BY <1>1, <2>1, DoneByFinalize
    <3>2. att'[i][b].pc = IF b = a THEN "tidy" ELSE att[i][b].pc
      BY <3>1, GotoPc DEF Finalize
    <3>3. b # a => att[i][b].pc = "none"
      BY <3>1 DEF Finalize, SoleAttempt, At
    <3> QED BY <3>2, <3>3
  <2>2. CASE job[i].status = "done" /\ att'[i][b] # att[i][b]
    <3>1. att[i][b].pc \in {"none", "tidy"} /\ ~Claim(i)
      BY <2>2 DEF DoneQuiet, Claim
    <3>2. CASE WorkerDies(i, b)
      BY <3>2, GotoPc DEF WorkerDies
    <3>3. CASE Work(i, b)
      <4>1. ReleaseParcelless(i, b)
        BY <3>1, <3>3, <2>2
           DEF Work, ScrapeOk, SaveRows, StartDedup, RetryScrape, ClaimLeads,
               MarkDuplicates, Export, TakeUnheldClaim, TransferClaim, TransferDone,
               ReserveAndCap, ReuseGrantAndCap, Finalize, DeliveryFails, StopOnMiss,
               FailJob, ReleaseAfterFail, ReleaseOnCleanup, ReleaseStep,
               DropCancelledClaims, FailAfterUncaught, ReleaseAfterUncaught,
               DropAfterUncaught, At, WorkSteps
      <4> QED BY <4>1, GotoPc DEF ReleaseParcelless
    <3> QED BY <2>2, <3>1, <3>2, <3>3, WhoMoves
  <2>3. CASE job[i].status = "done" /\ att'[i][b] = att[i][b]
    BY <2>3 DEF DoneQuiet
  <2> QED BY <2>1, <2>2, <2>3
<1> QED BY <1>1 DEF DoneQuiet

(* Whatever else happens to its rows and claims, a job that is done keeps  *)
(* its list, and the claims of the leads on it.                            *)
LEMMA DoneKept ==
    ASSUME DedupInv, [Next]_vars, NEW i \in Jobs, job[i].status = "done"
    PROVE  /\ Deliverable(i)' = Deliverable(i)
           /\ \A l \in Deliverable(i) : claim'[l] = i
<1> USE DEF DedupInv, OutcomeInv
<1> DEFINE Goal == /\ Deliverable(i)' = Deliverable(i)
                   /\ \A l \in Deliverable(i) : claim'[l] = i
<1>0. \A l \in Deliverable(i) : claim[l] = i
  BY DEF DoneHeld, OwnClaims
<1>1. ASSUME rows'[i] = rows[i], capped'[i] = capped[i],
             \A l \in Deliverable(i) : claim'[l] = claim[l]
      PROVE  Goal
  BY <1>0, <1>1 DEF Deliverable, IsActionable
<1>2. ASSUME UNCHANGED <<rows, capped, claim>> PROVE Goal
  BY <1>1, <1>2
<1>3. CASE SweepClaims
  <2>1. \A l \in Deliverable(i) : l \notin Stranded
    BY <1>0 DEF Stranded
  <2>2. \A l \in Deliverable(i) : claim'[l] = claim[l]
    BY <1>3, <2>1 DEF SweepClaims, Unclaimed, Deliverable
  <2> QED BY <1>1, <1>3, <2>2 DEF SweepClaims
<1>4. ASSUME NEW a \in Attempts, ReleaseParcelless(i, a) PROVE Goal
  <2>1. \A l \in Deliverable(i) : l \notin Parcelless(i)
    BY DEF Deliverable, IsActionable, Parcelless
  <2>2. \A l \in Deliverable(i) : claim'[l] = claim[l]
    BY <1>4, <2>1 DEF ReleaseParcelless, Unclaimed, Deliverable
  <2>3. \A l \in Leads : rows'[i][l] = IF l \in Parcelless(i) THEN "superseded" ELSE rows[i][l]
    BY <1>4 DEF ReleaseParcelless, TypeOK
  <2>4. UNCHANGED capped
    BY <1>4 DEF ReleaseParcelless
  <2>5. Deliverable(i)' = Deliverable(i)
    BY <2>1, <2>3, <2>4 DEF Deliverable, IsActionable
  <2> QED BY <1>0, <2>2, <2>5
<1>5. ASSUME NEW j \in Jobs, NEW a \in Attempts, Work(j, a), j # i PROVE Goal
  <2>1. \A S : S \subseteq OwnClaims(j) =>
          \A l \in Deliverable(i) : Unclaimed(S)[l] = claim[l]
    BY <1>5, <1>0 DEF Unclaimed, OwnClaims, Deliverable
  <2>2. ASSUME NEW x, rows' = [rows EXCEPT ![j] = x]
        PROVE  rows'[i] = rows[i]
    BY <1>5, <2>2 DEF TypeOK
  <2>3. ASSUME NEW S, S \subseteq OwnClaims(j), claim' = Unclaimed(S),
               UNCHANGED capped, rows'[i] = rows[i]
        PROVE  Goal
    BY <2>3, <2>1, <1>1
  <2>4. CASE ScrapeOk(j, a) \/ SaveRows(j, a) \/ StartDedup(j, a) \/ MarkDuplicates(j, a)
    BY <2>4, <2>2, <1>1 DEF ScrapeOk, SaveRows, StartDedup, MarkDuplicates
  <2>5. CASE ClaimLeads(j, a)
    <3>1. \A l \in Deliverable(i) : claim'[l] = claim[l]
      BY <2>5, <1>0, ConstantsAssumption DEF ClaimLeads, ConstantsAssumption, Deliverable
    <3> QED BY <2>5, <3>1, <1>1 DEF ClaimLeads
  <2>6. CASE DeliveryFails(j, a)
    BY <2>6, <2>3, <1>2 DEF DeliveryFails
  <2>7. CASE DropCancelledClaims(j, a)
    BY <2>7, <2>3, <1>2 DEF DropCancelledClaims
  <2>8. CASE DropAfterUncaught(j, a)
    BY <2>8, <2>3 DEF DropAfterUncaught
  <2>9. CASE ReleaseParcelless(j, a)
    BY <2>9, <2>2, <2>3 DEF ReleaseParcelless, Parcelless
  <2>10. CASE ReserveAndCap(j, a) \/ ReuseGrantAndCap(j, a)
    <3>1. PICK grant : ApplyCap(j, a, grant)
      BY <2>10 DEF ReserveAndCap, ReuseGrantAndCap
    <3>2. capped'[i] = capped[i] /\ \A l \in Deliverable(i) : claim'[l] = claim[l]
      BY <1>5, <2>1, <3>1 DEF ApplyCap, TypeOK
    <3> QED BY <2>10, <3>2, <1>1 DEF ReserveAndCap, ReuseGrantAndCap
  <2>11. ASSUME NEW k \in Leads, TakeUnheldClaim(j, a, k) PROVE Goal
    <3>1. k \notin Deliverable(i)
      BY <2>11, <1>0, ConstantsAssumption DEF TakeUnheldClaim, ConstantsAssumption
    <3>2. rows'[i] = rows[i] /\ \A l \in Deliverable(i) : claim'[l] = claim[l]
      BY <1>5, <2>11, <3>1 DEF TakeUnheldClaim, TypeOK, Deliverable
    <3> QED BY <2>11, <3>2, <1>1 DEF TakeUnheldClaim
  <2>12. ASSUME NEW k \in Leads, TransferClaim(j, a, k) PROVE Goal
    <3>1. claim[k] = i => k \notin Deliverable(i)
      BY <2>12 DEF TransferClaim, NeverDelivered
    <3>2. \A l \in Deliverable(i) : claim'[l] = claim[l]
      BY <1>0, <2>12, <3>1 DEF TransferClaim, TypeOK, Deliverable
    <3>3. claim[k] \in Jobs
      BY <2>12 DEF TransferClaim, TypeOK
    <3>4. \A l \in Leads : rows'[i][l] = IF l = k /\ claim[k] = i THEN "superseded" ELSE rows[i][l]
      BY <1>5, <2>12, <3>3 DEF TransferClaim, TypeOK
    <3>5. UNCHANGED capped
      BY <2>12 DEF TransferClaim
    <3>6. Deliverable(i)' = Deliverable(i)
      BY <3>1, <3>4, <3>5 DEF Deliverable, IsActionable
    <3> QED BY <1>0, <3>2, <3>6
  <2> QED BY <1>2, <1>5, <2>4, <2>5, <2>6, <2>7, <2>8, <2>9, <2>10, <2>11, <2>12
          DEF Work, RetryScrape, Export, TransferDone, Finalize, StopOnMiss, FailJob,
              ReleaseAfterFail, ReleaseOnCleanup, ReleaseStep, FailAfterUncaught,
              ReleaseAfterUncaught
<1>6. ASSUME NEW a \in Attempts, Work(i, a) PROVE Goal
  <2>1. att[i][a].pc \in {"none", "tidy"}
    BY DEF DoneQuiet
  <2>2. ReleaseParcelless(i, a)
    BY <1>6, <2>1
       DEF Work, ScrapeOk, SaveRows, StartDedup, RetryScrape, ClaimLeads, MarkDuplicates,
           Export, TakeUnheldClaim, TransferClaim, TransferDone, ReserveAndCap,
           ReuseGrantAndCap, Finalize, DeliveryFails, StopOnMiss, FailJob,
           ReleaseAfterFail, ReleaseOnCleanup, ReleaseStep, DropCancelledClaims,
           FailAfterUncaught, ReleaseAfterUncaught, DropAfterUncaught, At, WorkSteps
  <2> QED BY <2>2, <1>4
<1> QED BY <1>2, <1>3, <1>5, <1>6
        DEF Next, vars, Deliver, DeliverAgain, Claim, Cancel, Recover, Requeue, GiveUp,
            Redeliver, SweepReservation, WorkerDies, WindowEnds, RollWindow

LEMMA DoneStep ==
    ASSUME DedupInv, [Next]_vars
    PROVE  DoneHeld'
<1> USE DEF DedupInv, OutcomeInv
<1>1. ASSUME NEW i \in Jobs, job[i].status = "done"
      PROVE  /\ job'[i].status = "done"
             /\ delivered'[i] = Deliverable(i)' /\ delivered'[i] \subseteq OwnClaims(i)'
  <2>1. job'[i].status = "done"
    BY <1>1, OverIsOver DEF Terminal
  <2>2. delivered'[i] = delivered[i]
    BY <1>1, DoneByFinalize DEF Finalize, Owns, Terminal
  <2>3. delivered[i] = Deliverable(i)
    BY <1>1 DEF DoneHeld
  <2>4. Deliverable(i) \subseteq Leads
    BY DEF Deliverable
  <2> QED BY <1>1, <2>1, <2>2, <2>3, <2>4, DoneKept DEF OwnClaims
<1>2. ASSUME NEW i \in Jobs, NEW a \in Attempts, Finalize(i, a)
      PROVE  delivered'[i] = Deliverable(i)' /\ delivered'[i] \subseteq OwnClaims(i)'
  <2>1. delivered'[i] = Deliverable(i) /\ UNCHANGED <<rows, capped, claim>>
    BY <1>2 DEF Finalize, TypeOK
  <2>2. Deliverable(i) \subseteq OwnClaims(i)
    BY <1>2 DEF Finalize, Owns, FlightHeld
  <2> QED BY <2>1, <2>2 DEF Deliverable, IsActionable, OwnClaims
<1>3. ASSUME NEW i \in Jobs, job[i].status # "done", job'[i].status # "done"
      PROVE  delivered'[i] = {}
  <2>1. ASSUME NEW a \in Attempts, Finalize(i, a) PROVE FALSE
    BY <2>1, <1>3 DEF Finalize, TypeOK, JobRow
  <2>2. delivered'[i] = delivered[i]
    BY <2>1, DoneByFinalize
  <2> QED BY <1>3, <2>2 DEF DoneHeld
<1>4. ASSUME NEW i \in Jobs, job[i].status # "done", job'[i].status = "done"
      PROVE  delivered'[i] = Deliverable(i)' /\ delivered'[i] \subseteq OwnClaims(i)'
  BY <1>2, <1>4, DoneByFinalize
<1> QED BY <1>1, <1>3, <1>4 DEF DoneHeld

LEMMA DedupInvariant ==
    ASSUME Silent = {}
    PROVE  Spec => []DedupInv
<1>1. Init => DedupInv
  <2>1. Init => OutcomeInv
    BY TypeInit DEF OutcomeInv, Init, BilledIffDone, ExitsMatch, At
  <2>2. Init => SoleAttempt /\ DoneQuiet /\ FlightHeld /\ DoneHeld
    BY DEF Init, SoleAttempt, DoneQuiet, FlightHeld, DoneHeld, At
  <2> QED BY <2>1, <2>2 DEF DedupInv
<1>2. DedupInv /\ [Next]_vars => DedupInv'
  <2> SUFFICES ASSUME DedupInv, [Next]_vars PROVE DedupInv'
    OBVIOUS
  <2>1. OutcomeInv'
    BY TypeStep, Outcomes DEF DedupInv, OutcomeInv
  <2>2. SoleAttempt'
    BY SoleStep DEF DedupInv, OutcomeInv
  <2> QED BY <2>1, <2>2, QuietDone, FlightStep, DoneStep DEF DedupInv
<1> QED BY <1>1, <1>2, PTL DEF Spec

(* What a run billed stays claimed by it: no sweep, release or transfer    *)
(* drops the delivered_records row of a lead that was delivered.           *)
THEOREM DeliveredStaysClaimed ==
    ASSUME Silent = {}
    PROVE  Spec => []DeliveredHoldsClaim
<1>1. DedupInv => DeliveredHoldsClaim
  BY DEF DedupInv, DoneHeld, DeliveredHoldsClaim
<1> QED BY <1>1, DedupInvariant, PTL

(* No two runs of a user bill the same lead: each holds the claim of what  *)
(* it billed, and delivered_records has one row per hash.                  *)
THEOREM NoLeadBilledTwice ==
    ASSUME Silent = {}
    PROVE  Spec => []NoDoubleDelivery
<1>1. DedupInv => NoDoubleDelivery
  BY DEF DedupInv, DoneHeld, OwnClaims, NoDoubleDelivery
<1> QED BY <1>1, DedupInvariant, PTL

(* The list of a run that is done is what it billed, whatever later runs   *)
(* do to its rows (transfer_undelivered_claims hides only rows that were   *)
(* never deliverable, release_parcelless_no_address_claims likewise).      *)
THEOREM BillStaysTheList ==
    ASSUME Silent = {}
    PROVE  Spec => []BilledIsDeliverable
<1>1. DedupInv => BilledIsDeliverable
  BY DEF DedupInv, DoneHeld, BilledIsDeliverable
<1> QED BY <1>1, DedupInvariant, PTL

-----------------------------------------------------------------------------
(* The refinement of RunContract.                                          *)

(* A step bills a job, ends one in flight without a bill, or ends none.    *)
LEMMA HowJobsEnd ==
    ASSUME TypeOK, [Next]_vars
    PROVE  \/ \E j \in Jobs, a \in Attempts : Finalize(j, a)
           \/ /\ UNCHANGED delivered
              /\ \E j \in Jobs, s \in {"failed", "cancelled"} :
                   /\ job[j].status \notin Terminal
                   /\ \A i \in Jobs : job'[i].status = IF i = j THEN s ELSE job[i].status
           \/ /\ UNCHANGED delivered
              /\ \A i \in Jobs : \/ job'[i].status = job[i].status
                                 \/ job[i].status \notin Terminal /\ job'[i].status \notin Terminal
<1> DEFINE Ends == \E j \in Jobs, s \in {"failed", "cancelled"} :
                     /\ job[j].status \notin Terminal
                     /\ \A i \in Jobs : job'[i].status = IF i = j THEN s ELSE job[i].status
           None == \A i \in Jobs : \/ job'[i].status = job[i].status
                                   \/ job[i].status \notin Terminal /\ job'[i].status \notin Terminal
           Goal == \/ \E j \in Jobs, a \in Attempts : Finalize(j, a)
                   \/ UNCHANGED delivered /\ Ends
                   \/ UNCHANGED delivered /\ None
<1>0. \A i \in Jobs : job[i] \in JobRow
  BY DEF TypeOK
<1>1. ASSUME UNCHANGED <<job, delivered>> PROVE Goal
  BY <1>1
<1>2. ASSUME NEW j \in Jobs, job[j].status \notin Terminal, NEW s \in {"failed", "cancelled"},
             job' = [job EXCEPT ![j].status = s], UNCHANGED delivered
      PROVE  Goal
  <2>1. \A i \in Jobs : job'[i].status = IF i = j THEN s ELSE job[i].status
    BY <1>2, <1>0 DEF TypeOK, JobRow
  <2> QED BY <1>2, <2>1
<1>3. ASSUME NEW j \in Jobs, job[j].status \notin Terminal,
             \/ job' = [job EXCEPT ![j].status = "active", ![j].started = TRUE]
             \/ job' = [job EXCEPT ![j].status = "pending", ![j].started = FALSE, ![j].retry = @ + 1],
             UNCHANGED delivered
      PROVE  Goal
  <2>1. None
    <3>1. CASE job' = [job EXCEPT ![j].status = "active", ![j].started = TRUE]
      BY <3>1, <1>3, <1>0 DEF TypeOK, JobRow, Terminal
    <3>2. CASE job' = [job EXCEPT ![j].status = "pending", ![j].started = FALSE, ![j].retry = @ + 1]
      BY <3>2, <1>3, <1>0 DEF TypeOK, JobRow, Terminal
    <3> QED BY <1>3, <3>1, <3>2
  <2> QED BY <1>3, <2>1
<1>4. ASSUME NEW j \in Jobs, Release(j), UNCHANGED delivered PROVE Goal
  BY <1>4, ReleaseKeepsStamps
<1>5. ASSUME NEW j \in Jobs, Claim(j) \/ Cancel(j) \/ Recover(j) PROVE Goal
  <2>1. CASE Claim(j)
    BY <2>1, <1>3 DEF Claim, Terminal
  <2>2. CASE Cancel(j)
    BY <2>2, <1>2 DEF Cancel
  <2>3. CASE Requeue(j)
    BY <2>3, <1>3 DEF Requeue, Terminal
  <2>4. CASE GiveUp(j)
    BY <2>4, <1>2 DEF GiveUp, Terminal
  <2>5. CASE Redeliver(j)
    BY <2>5, <1>1 DEF Redeliver
  <2> QED BY <1>5, <2>1, <2>2, <2>3, <2>4, <2>5 DEF Recover
<1>6. ASSUME NEW j \in Jobs, NEW a \in Attempts, Work(j, a) PROVE Goal
  <2>1. CASE RetryScrape(j, a)
    BY <2>1, <1>3 DEF RetryScrape, Owns
  <2>2. CASE FailJob(j, a)
    BY <2>2, <1>1, <1>2 DEF FailJob, Owns
  <2>3. CASE FailAfterUncaught(j, a)
    BY <2>3, <1>1, <1>2 DEF FailAfterUncaught, Owns
  <2>4. CASE ReleaseAfterFail(j, a) \/ ReleaseOnCleanup(j, a) \/ ReleaseAfterUncaught(j, a)
    BY <2>4, <1>4 DEF ReleaseAfterFail, ReleaseOnCleanup, ReleaseAfterUncaught, ReleaseStep
  <2>5. CASE ReserveAndCap(j, a)
    <3>1. None
      BY <2>5, <1>0 DEF ReserveAndCap, TypeOK, JobRow
    <3> QED BY <2>5, <3>1 DEF ReserveAndCap
  <2> QED BY <1>6, <1>1, <2>1, <2>2, <2>3, <2>4, <2>5
          DEF Work, ScrapeOk, SaveRows, StartDedup, ClaimLeads, MarkDuplicates, Export,
              TakeUnheldClaim, TransferClaim, TransferDone, ReuseGrantAndCap,
              ReleaseParcelless, DeliveryFails, StopOnMiss, DropCancelledClaims,
              DropAfterUncaught
<1> QED BY <1>1, <1>4, <1>5, <1>6
        DEF Next, vars, Deliver, DeliverAgain, SweepReservation, WorkerDies, SweepClaims,
            WindowEnds, RollWindow

(* A run keeps its contract with the customer: it ends once, and is charged *)
(* in the step that makes it done, for leads no other run was charged for. *)
THEOREM RunsKeepContract ==
    ASSUME Silent = {}
    PROVE  Spec => KeepsContract
<1>1. Init => Contract!Init
  BY DEF Init, Contract!Init, Outcome, Terminal
<1>2. DedupInv /\ [Next]_vars => [Contract!Next]_(Contract!cvars)
  <2> SUFFICES ASSUME DedupInv, [Next]_vars
               PROVE  [Contract!Next]_(Contract!cvars)
    OBVIOUS
  <2> USE DEF DedupInv, OutcomeInv
  <2>1. ASSUME NEW j \in Jobs, NEW a \in Attempts, Finalize(j, a)
        PROVE  Contract!Complete(j)
    <3>1. Outcome[j] = "open"
      BY <2>1 DEF Finalize, Owns, Outcome
    <3>2. Outcome' = [Outcome EXCEPT ![j] = "done"]
      <4>1. \A i \in Jobs : job'[i].status = IF i = j THEN "done" ELSE job[i].status
        BY <2>1 DEF Finalize, TypeOK, JobRow
      <4> QED BY <4>1 DEF Outcome, Terminal
    <3>3. Deliverable(j) \in SUBSET (Leads \ Contract!ChargedByOthers(j))
      <4>1. Deliverable(j) \subseteq OwnClaims(j)
        BY <2>1 DEF Finalize, Owns, FlightHeld
      <4>2. \A i \in Jobs : delivered[i] \subseteq OwnClaims(i)
        BY DEF DoneHeld
      <4> QED BY <4>1, <4>2 DEF Contract!ChargedByOthers, OwnClaims
    <3>4. delivered' = [delivered EXCEPT ![j] = Deliverable(j)]
      BY <2>1 DEF Finalize
    <3> QED BY <3>1, <3>2, <3>3, <3>4 DEF Contract!Complete
  <2>2. ASSUME NEW j \in Jobs, NEW s \in {"failed", "cancelled"}, UNCHANGED delivered,
               job[j].status \notin Terminal,
               \A i \in Jobs : job'[i].status = IF i = j THEN s ELSE job[i].status
        PROVE  Contract!EndUncharged(j)
    <3>1. Outcome[j] = "open"
      BY <2>2 DEF Outcome
    <3>2. Outcome' = [Outcome EXCEPT ![j] = s]
      BY <2>2 DEF Outcome, Terminal
    <3> QED BY <2>2, <3>1, <3>2 DEF Contract!EndUncharged
  <2>3. ASSUME UNCHANGED delivered,
               \A i \in Jobs : \/ job'[i].status = job[i].status
                               \/ job[i].status \notin Terminal /\ job'[i].status \notin Terminal
        PROVE  UNCHANGED Contract!cvars
    <3>1. Outcome' = Outcome
      BY <2>3 DEF Outcome
    <3> QED BY <2>3, <3>1 DEF Contract!cvars
  <2> QED BY <2>1, <2>2, <2>3, HowJobsEnd DEF Contract!Next
<1> QED BY <1>1, <1>2, DedupInvariant, PTL DEF Spec, KeepsContract, Contract!Spec
=============================================================================
