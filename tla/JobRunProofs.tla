---------------------------- MODULE JobRunProofs ----------------------------
(***************************************************************************)
(* Theorems about JobRun, for every value of its constants: the types of   *)
(* its variables, the outcome of a job, which is final and is billed       *)
(* exactly when it is done, and the claims of a job in flight, which it    *)
(* loses to nobody but its own attempt.  They hold for every set of jobs   *)
(* and leads, every retry budget, and however many live workers look dead  *)
(* to the watchdog.                                                        *)
(*                                                                         *)
(* BilledIffDone is inductive with TypeOK.  LiveClaimsReleasedByOwner needs *)
(* ExitsMatch as well: the steps that delete claims after a terminal write *)
(* do not look at the status again.                                        *)
(***************************************************************************)
EXTENDS JobRun, FiniteSetTheorems, TLAPS

USE DEF leadVars, quotaVars

(* A worker that moves on keeps the shape of att.                          *)
LEMMA GotoType ==
    ASSUME TypeOK, NEW j \in Jobs, NEW a \in Attempts, NEW pc \in Steps, Goto(j, a, pc)
    PROVE  att' \in [Jobs -> [Attempts -> [pc : Steps, mine : SUBSET Leads]]]
  BY DEF TypeOK, Goto

LEMMA LeadCounts ==
    ASSUME NEW S, S \subseteq Leads
    PROVE  Cardinality(S) \in Nat
  BY ConstantsAssumption, FS_Subset, FS_CardinalityType DEF ConstantsAssumption

(* Every write the code makes to a jobs row leaves it well-typed.          *)
LEMMA JobWrites ==
    ASSUME TypeOK, NEW j \in Jobs
    PROVE  /\ \A s \in {"pending", "active"} \cup Terminal :
                  [job EXCEPT ![j].status = s] \in [Jobs -> JobRow]
           /\ [job EXCEPT ![j].status = "active", ![j].started = TRUE] \in [Jobs -> JobRow]
           /\ \A n \in Attempts :
                  [job EXCEPT ![j].status = "pending", ![j].started = FALSE, ![j].retry = n]
                      \in [Jobs -> JobRow]
           /\ \A n \in Nat, w \in 0..Windows :
                  [job EXCEPT ![j].reserved = TRUE, ![j].count = n, ![j].window = w]
                      \in [Jobs -> JobRow]
           /\ [job EXCEPT ![j].reserved = FALSE, ![j].count = 0] \in [Jobs -> JobRow]
           /\ [job EXCEPT ![j].billed = TRUE, ![j].status = "done"] \in [Jobs -> JobRow]
<1> DEFINE S == {"pending", "active"} \cup Terminal
<1>1. job \in [Jobs -> JobRow] /\ job[j] \in JobRow
  BY DEF TypeOK
<1>2. "pending" \in S /\ "active" \in S /\ "done" \in S
  BY DEF Terminal
<1>3. JobRow = [status : S, retry : Attempts, started : BOOLEAN, reserved : BOOLEAN,
                count : Nat, window : 0..Windows, billed : BOOLEAN]
  BY DEF JobRow
<1> HIDE DEF S
<1>4. ASSUME NEW s \in {"pending", "active"} \cup Terminal
      PROVE  [job EXCEPT ![j].status = s] \in [Jobs -> JobRow]
  BY <1>1, <1>3 DEF S
<1>5. [job EXCEPT ![j].status = "active", ![j].started = TRUE] \in [Jobs -> JobRow]
  BY <1>1, <1>2, <1>3
<1>6. ASSUME NEW n \in Attempts
      PROVE  [job EXCEPT ![j].status = "pending", ![j].started = FALSE, ![j].retry = n]
                 \in [Jobs -> JobRow]
  BY <1>1, <1>2, <1>3
<1>7. ASSUME NEW n \in Nat, NEW w \in 0..Windows
      PROVE  [job EXCEPT ![j].reserved = TRUE, ![j].count = n, ![j].window = w]
                 \in [Jobs -> JobRow]
  BY <1>1, <1>3
<1>8. [job EXCEPT ![j].reserved = FALSE, ![j].count = 0] \in [Jobs -> JobRow]
  BY <1>1, <1>3
<1>9. [job EXCEPT ![j].billed = TRUE, ![j].status = "done"] \in [Jobs -> JobRow]
  BY <1>1, <1>2, <1>3
<1> QED BY <1>4, <1>5, <1>6, <1>7, <1>8, <1>9

LEMMA ReleaseType ==
    ASSUME TypeOK, NEW j \in Jobs, Release(j)
    PROVE  job' \in [Jobs -> JobRow] /\ used' \in Nat
<1>1. job' \in [Jobs -> JobRow]
  <2>1. [job EXCEPT ![j].reserved = FALSE, ![j].count = 0] \in [Jobs -> JobRow]
    BY JobWrites
  <2>2. job \in [Jobs -> JobRow]
    BY DEF TypeOK
  <2> QED BY <2>1, <2>2 DEF Release
<1>2. job[j].count \in Nat
  BY DEF TypeOK, JobRow
<1> QED BY <1>1, <1>2 DEF Release, TypeOK, AtLeast0

LEMMA UnclaimedType ==
    ASSUME TypeOK, NEW S, claim' = Unclaimed(S)
    PROVE  claim' \in [Leads -> Jobs \cup {NoJob}]
  BY DEF TypeOK, Unclaimed

(* The type invariant is inductive.                                        *)
LEMMA TypeStep ==
    ASSUME TypeOK, [Next]_vars
    PROVE  TypeOK'
<1> USE ConstantsAssumption DEF ConstantsAssumption
<1>1. CASE UNCHANGED vars
  BY <1>1 DEF vars, TypeOK
<1>2. ASSUME NEW j \in Jobs, Claim(j) PROVE TypeOK'
  <2>1. job' \in [Jobs -> JobRow]
    BY <1>2, JobWrites DEF Claim
  <2>2. att' \in [Jobs -> [Attempts -> [pc : Steps, mine : SUBSET Leads]]]
    BY <1>2 DEF Claim, Goto, TypeOK, JobRow, Steps, WorkSteps
  <2> QED BY <1>2, <2>1, <2>2 DEF Claim, TypeOK
<1>3. ASSUME NEW j \in Jobs, Cancel(j) PROVE TypeOK'
  <2>1. job' \in [Jobs -> JobRow]
    BY <1>3, JobWrites DEF Cancel, Terminal
  <2> QED BY <1>3, <2>1 DEF Cancel, TypeOK
<1>4. ASSUME NEW j \in Jobs, Recover(j) PROVE TypeOK'
  <2>1. job' \in [Jobs -> JobRow]
    <3>1. CASE Requeue(j)
      <4>1. job[j].retry + 1 \in Attempts
        BY <3>1 DEF Requeue, TypeOK, JobRow, Attempts
      <4> QED BY <3>1, <4>1, JobWrites DEF Requeue
    <3>2. CASE GiveUp(j)
      BY <3>2, JobWrites DEF GiveUp, Terminal
    <3>3. CASE Redeliver(j)
      BY <3>3 DEF Redeliver, TypeOK
    <3> QED BY <1>4, <3>1, <3>2, <3>3 DEF Recover
  <2> QED BY <1>4, <2>1 DEF Recover, Requeue, GiveUp, Redeliver, TypeOK
<1>5. ASSUME NEW j \in Jobs, SweepReservation(j) PROVE TypeOK'
  BY <1>5, ReleaseType DEF SweepReservation, TypeOK
<1>6. CASE SweepClaims
  BY <1>6, UnclaimedType DEF SweepClaims, TypeOK
<1>7. CASE WindowEnds
  BY <1>7 DEF WindowEnds, TypeOK
<1>8. CASE RollWindow
  BY <1>8 DEF RollWindow, TypeOK
<1>9. ASSUME NEW j \in Jobs, NEW a \in Attempts, WorkerDies(j, a) PROVE TypeOK'
  BY <1>9, GotoType DEF WorkerDies, TypeOK, Steps
<1>10. ASSUME NEW j \in Jobs, NEW a \in Attempts, Work(j, a) PROVE TypeOK'
  <2>1. CASE ScrapeOk(j, a) \/ SaveRows(j, a) \/ StartDedup(j, a)
    <3>1. {"save", "dedup", "claim"} \subseteq Steps
      BY DEF Steps, WorkSteps
    <3>2. rows' \in [Jobs -> [Leads -> {"absent", "new", "prior_run", "superseded"}]]
      BY <2>1 DEF ScrapeOk, SaveRows, StartDedup, TypeOK
    <3> QED BY <2>1, <3>1, <3>2, GotoType DEF ScrapeOk, SaveRows, StartDedup, TypeOK
  <2>2. CASE RetryScrape(j, a)
    <3>1. job' \in [Jobs -> JobRow]
      <4>1. job[j].retry + 1 \in Attempts
        BY <2>2 DEF RetryScrape, TypeOK, JobRow, Attempts
      <4> QED BY <2>2, <4>1, JobWrites DEF RetryScrape
    <3>2. "none" \in Steps
      BY DEF Steps
    <3> QED BY <2>2, <3>1, <3>2, GotoType DEF RetryScrape, TypeOK
  <2>3. CASE ClaimLeads(j, a)
    BY <2>3 DEF ClaimLeads, TypeOK, Steps, WorkSteps
  <2>4. CASE MarkDuplicates(j, a)
    <3>1. "export" \in Steps
      BY DEF Steps, WorkSteps
    <3> QED BY <2>4, <3>1, GotoType DEF MarkDuplicates, TypeOK
  <2>5. CASE Export(j, a)
    BY <2>5, GotoType DEF Export, TypeOK, Steps, WorkSteps
  <2>6. CASE DeliveryFails(j, a)
    BY <2>6, GotoType, UnclaimedType DEF DeliveryFails, TypeOK, Steps, ExitSteps
  <2>7. ASSUME NEW l \in Leads, TakeUnheldClaim(j, a, l) PROVE TypeOK'
    BY <2>7 DEF TakeUnheldClaim, TypeOK
  <2>8. ASSUME NEW l \in Leads, TransferClaim(j, a, l) PROVE TypeOK'
    BY <2>8 DEF TransferClaim, TypeOK
  <2>9. CASE TransferDone(j, a)
    BY <2>9, GotoType DEF TransferDone, TypeOK, Steps, WorkSteps
  <2>10. CASE ReserveAndCap(j, a)
    <3>1. Cardinality(Rankable(j)) \in Nat
      BY LeadCounts DEF Rankable
    <3>2. Base \in Nat
      BY DEF Base, TypeOK
    <3>3. PICK grant \in Granted(Cardinality(Rankable(j))) :
            /\ ApplyCap(j, a, grant)
            /\ job' = [job EXCEPT ![j].reserved = TRUE, ![j].count = grant, ![j].window = clock]
            /\ used' = Base + grant
      BY <2>10 DEF ReserveAndCap
    <3>4. grant \in Nat
      BY <3>1, <3>2 DEF Granted, Lesser, AtLeast0
    <3>5. job' \in [Jobs -> JobRow] /\ used' \in Nat
      <4>1. clock \in 0..Windows
        BY DEF TypeOK
      <4>2. [job EXCEPT ![j].reserved = TRUE, ![j].count = grant, ![j].window = clock]
               \in [Jobs -> JobRow]
        BY <3>4, <4>1, JobWrites
      <4> QED BY <3>2, <3>3, <3>4, <4>2
    <3>6. capped' \in [Jobs -> SUBSET Leads] /\ claim' \in [Leads -> Jobs \cup {NoJob}]
      BY <3>3, UnclaimedType DEF ApplyCap, OverQuota, Rankable, TypeOK
    <3>7. "final" \in Steps
      BY DEF Steps, WorkSteps
    <3> QED BY <2>10, <3>5, <3>6, <3>7, GotoType DEF ReserveAndCap, TypeOK
  <2>11. CASE ReuseGrantAndCap(j, a)
    <3>1. capped' \in [Jobs -> SUBSET Leads] /\ claim' \in [Leads -> Jobs \cup {NoJob}]
      BY <2>11, UnclaimedType DEF ReuseGrantAndCap, ApplyCap, OverQuota, Rankable, TypeOK
    <3> QED BY <2>11, <3>1, GotoType DEF ReuseGrantAndCap, TypeOK, Steps, WorkSteps
  <2>12. CASE Finalize(j, a)
    <3>1. Deliverable(j) \subseteq Leads /\ Cardinality(Deliverable(j)) \in Nat
      BY LeadCounts DEF Deliverable
    <3>2. Base \in Nat
      BY DEF Base, TypeOK
    <3>3. job[j].count \in Nat
      BY DEF TypeOK, JobRow
    <3>4. used' \in Nat
      BY <2>12, <3>1, <3>2, <3>3 DEF Finalize, AtLeast0
    <3>5. job' \in [Jobs -> JobRow]
      BY <2>12, JobWrites DEF Finalize
    <3>6. "tidy" \in Steps
      BY DEF Steps, ExitSteps
    <3> QED BY <2>12, <3>1, <3>4, <3>5, <3>6, GotoType DEF Finalize, TypeOK
  <2>13. CASE ReleaseParcelless(j, a)
    <3>1. "none" \in Steps
      BY DEF Steps
    <3> QED BY <2>13, <3>1, GotoType, UnclaimedType DEF ReleaseParcelless, TypeOK
  <2>14. CASE StopOnMiss(j, a)
    BY <2>14, GotoType DEF StopOnMiss, MissedExit, TypeOK, Steps, ExitSteps
  <2>15. CASE FailJob(j, a)
    <3>1. job' \in [Jobs -> JobRow]
      <4>1. \/ job' = [job EXCEPT ![j].status = "failed"]
            \/ job' = job
        BY <2>15 DEF FailJob
      <4>2. [job EXCEPT ![j].status = "failed"] \in [Jobs -> JobRow]
        BY JobWrites DEF Terminal
      <4>3. job \in [Jobs -> JobRow]
        BY DEF TypeOK
      <4> QED BY <4>1, <4>2, <4>3
    <3> QED BY <2>15, <3>1, GotoType DEF FailJob, MissedExit, TypeOK, Steps, ExitSteps
  <2>16. CASE ReleaseAfterFail(j, a) \/ ReleaseOnCleanup(j, a) \/ ReleaseAfterUncaught(j, a)
    <3>1. {"none", "dropping", "uncaughtDrop"} \subseteq Steps
      BY DEF Steps, ExitSteps
    <3> QED BY <2>16, <3>1, GotoType, ReleaseType
          DEF ReleaseAfterFail, ReleaseOnCleanup, ReleaseAfterUncaught, ReleaseStep, TypeOK
  <2>17. CASE DropCancelledClaims(j, a) \/ DropAfterUncaught(j, a)
    BY <2>17, GotoType, UnclaimedType DEF DropCancelledClaims, DropAfterUncaught, TypeOK,
                                          Steps
  <2>18. CASE FailAfterUncaught(j, a)
    <3>1. job' \in [Jobs -> JobRow]
      <4>1. \/ job' = [job EXCEPT ![j].status = "failed"]
            \/ job' = job
        BY <2>18 DEF FailAfterUncaught
      <4>2. [job EXCEPT ![j].status = "failed"] \in [Jobs -> JobRow]
        BY JobWrites DEF Terminal
      <4>3. job \in [Jobs -> JobRow]
        BY DEF TypeOK
      <4> QED BY <4>1, <4>2, <4>3
    <3> QED BY <2>18, <3>1, GotoType DEF FailAfterUncaught, TypeOK, Steps, ExitSteps
  <2> QED BY <1>10, <2>1, <2>2, <2>3, <2>4, <2>5, <2>6, <2>7, <2>8, <2>9, <2>10, <2>11,
             <2>12, <2>13, <2>14, <2>15, <2>16, <2>17, <2>18 DEF Work
<1> QED BY <1>1, <1>2, <1>3, <1>4, <1>5, <1>6, <1>7, <1>8, <1>9, <1>10
        DEF Next, Deliver, DeliverAgain

LEMMA TypeInit == Init => TypeOK
  BY ConstantsAssumption DEF ConstantsAssumption, Init, TypeOK, JobRow, Attempts, Steps,
                             Terminal

(* Every variable of JobRun keeps its type.                                *)
THEOREM TypeCorrect == Spec => []TypeOK
  BY TypeInit, TypeStep, PTL DEF Spec

-----------------------------------------------------------------------------
(* Where the workers are after one of them moved.                          *)
LEMMA GotoPc ==
    ASSUME TypeOK, NEW j \in Jobs, NEW a \in Attempts, NEW pc, Goto(j, a, pc),
           NEW i \in Jobs, NEW b \in Attempts
    PROVE  att'[i][b].pc = IF i = j /\ b = a THEN pc ELSE att[i][b].pc
  BY DEF TypeOK, Goto

(* The step changes no status and bills nothing.                           *)
SameOutcomes ==
    \A i \in Jobs : job'[i].status = job[i].status /\ job'[i].billed = job[i].billed

(* The inductive invariant.                                                *)
OutcomeInv == TypeOK /\ BilledIffDone /\ ExitsMatch

(* A step that leaves every outcome alone and enters no exit that stands   *)
(* for one keeps the invariant.                                            *)
LEMMA QuietStep ==
    ASSUME OutcomeInv, SameOutcomes, NEW j \in Jobs, NEW a \in Attempts, NEW pc,
           pc \notin {"tidy", "releasing", "uncaughtRelease", "uncaughtDrop"},
           Goto(j, a, pc)
    PROVE  (BilledIffDone /\ ExitsMatch)'
<1>1. BilledIffDone'
  BY DEF OutcomeInv, BilledIffDone, SameOutcomes
<1>2. ASSUME NEW i \in Jobs, NEW b \in Attempts
      PROVE  /\ At(i, b, "tidy")' => job'[i].status = "done"
             /\ att'[i][b].pc \in {"releasing", "uncaughtRelease", "uncaughtDrop"}
                  => job'[i].status = "failed"
  <2>1. att'[i][b].pc = IF i = j /\ b = a THEN pc ELSE att[i][b].pc
    BY GotoPc DEF OutcomeInv
  <2> QED BY <2>1 DEF OutcomeInv, ExitsMatch, SameOutcomes, At
<1> QED BY <1>1, <1>2 DEF ExitsMatch, At

(* The step gives job j the status s, billing it if that is "done".        *)
Settles(j, s) ==
    \A i \in Jobs : /\ job'[i].status = IF i = j THEN s ELSE job[i].status
                    /\ job'[i].billed = IF i = j THEN s = "done" ELSE job[i].billed

(* A step that writes the status of one job in flight keeps it, if every   *)
(* worker it moves works on that job and moves to an exit of that status.  *)
LEMMA StatusStep ==
    ASSUME OutcomeInv, NEW j \in Jobs, job[j].status \notin Terminal, NEW s, Settles(j, s),
           \A i \in Jobs, b \in Attempts :
               \/ att'[i][b].pc = att[i][b].pc
               \/ /\ i = j
                  /\ att'[i][b].pc = "tidy" => s = "done"
                  /\ att'[i][b].pc \in {"releasing", "uncaughtRelease", "uncaughtDrop"}
                       => s = "failed"
    PROVE  (BilledIffDone /\ ExitsMatch)'
<1>1. BilledIffDone'
  BY DEF OutcomeInv, BilledIffDone, Settles
<1>2. ASSUME NEW i \in Jobs, NEW b \in Attempts
      PROVE  /\ At(i, b, "tidy")' => job'[i].status = "done"
             /\ att'[i][b].pc \in {"releasing", "uncaughtRelease", "uncaughtDrop"}
                  => job'[i].status = "failed"
  BY DEF OutcomeInv, ExitsMatch, At, Terminal, Settles
<1> QED BY <1>1, <1>2 DEF ExitsMatch, At

(* Every step keeps a job billed exactly when done, and every worker in an *)
(* exit that matches the outcome of its job.                               *)
LEMMA Outcomes ==
    ASSUME OutcomeInv, [Next]_vars
    PROVE  (BilledIffDone /\ ExitsMatch)'
<1> USE DEF OutcomeInv
<1>0. \A i \in Jobs : job[i] \in JobRow /\ (job[i].billed <=> job[i].status = "done")
  BY DEF TypeOK, BilledIffDone
<1>1. CASE UNCHANGED vars
  BY <1>1 DEF vars, BilledIffDone, ExitsMatch, At
<1>2. ASSUME NEW j \in Jobs, Claim(j) PROVE (BilledIffDone /\ ExitsMatch)'
  <2>1. job[j].retry \in Attempts /\ job[j].status \notin Terminal
    BY <1>2, <1>0 DEF Claim, JobRow, Terminal
  <2>2. Settles(j, "active")
    BY <1>2, <1>0 DEF Claim, JobRow, TypeOK, Settles
  <2>3. \A i \in Jobs, b \in Attempts :
          att'[i][b].pc = IF i = j /\ b = job[j].retry THEN "scrape" ELSE att[i][b].pc
    BY <1>2, <2>1, GotoPc DEF Claim
  <2> QED BY <2>1, <2>2, <2>3, StatusStep
<1>3. ASSUME NEW j \in Jobs, Cancel(j) PROVE (BilledIffDone /\ ExitsMatch)'
  <2>1. Settles(j, "cancelled")
    BY <1>3, <1>0 DEF Cancel, JobRow, TypeOK, Settles, Terminal
  <2> QED BY <1>3, <2>1, StatusStep DEF Cancel
<1>4. ASSUME NEW j \in Jobs, Recover(j) PROVE (BilledIffDone /\ ExitsMatch)'
  <2>1. CASE Requeue(j)
    <3>1. Settles(j, "pending")
      BY <2>1, <1>0 DEF Requeue, JobRow, TypeOK, Settles
    <3> QED BY <2>1, <3>1, StatusStep DEF Requeue, Terminal
  <2>2. CASE GiveUp(j)
    <3>1. Settles(j, "failed")
      BY <2>2, <1>0 DEF GiveUp, JobRow, TypeOK, Settles
    <3> QED BY <2>2, <3>1, StatusStep DEF GiveUp, Terminal
  <2>3. CASE Redeliver(j)
    BY <2>3 DEF Redeliver, BilledIffDone, ExitsMatch, At
  <2> QED BY <1>4, <2>1, <2>2, <2>3 DEF Recover
<1>5. ASSUME NEW j \in Jobs, Release(j) PROVE SameOutcomes
  <2>1. \/ job' = [job EXCEPT ![j].reserved = FALSE, ![j].count = 0]
        \/ job' = job
    BY <1>5 DEF Release
  <2>2. CASE job' = [job EXCEPT ![j].reserved = FALSE, ![j].count = 0]
    BY <2>2, <1>0 DEF SameOutcomes, TypeOK, JobRow
  <2> QED BY <2>1, <2>2 DEF SameOutcomes
<1>6. ASSUME NEW j \in Jobs, SweepReservation(j) PROVE (BilledIffDone /\ ExitsMatch)'
  BY <1>6, <1>5 DEF SweepReservation, SameOutcomes, BilledIffDone, ExitsMatch, At
<1>7. CASE SweepClaims \/ WindowEnds \/ RollWindow
  BY <1>7 DEF SweepClaims, WindowEnds, RollWindow, BilledIffDone, ExitsMatch, At
<1>8. ASSUME NEW j \in Jobs, NEW a \in Attempts, Work(j, a) \/ WorkerDies(j, a)
      PROVE  (BilledIffDone /\ ExitsMatch)'
  <2>1. CASE RetryScrape(j, a)
    <3>1. Settles(j, "pending")
      BY <2>1, <1>0 DEF RetryScrape, Owns, JobRow, TypeOK, Settles
    <3>2. \A i \in Jobs, b \in Attempts :
            att'[i][b].pc = IF i = j /\ b = a THEN "none" ELSE att[i][b].pc
      BY <2>1, GotoPc DEF RetryScrape
    <3> QED BY <2>1, <3>1, <3>2, StatusStep DEF RetryScrape, Owns
  <2>2. CASE Finalize(j, a)
    <3>1. Settles(j, "done")
      BY <2>2, <1>0 DEF Finalize, JobRow, TypeOK, Settles
    <3>2. \A i \in Jobs, b \in Attempts :
            att'[i][b].pc = IF i = j /\ b = a THEN "tidy" ELSE att[i][b].pc
      BY <2>2, GotoPc DEF Finalize
    <3> QED BY <2>2, <3>1, <3>2, StatusStep DEF Finalize, Owns
  <2>3. ASSUME Owns(j, a), job' = [job EXCEPT ![j].status = "failed"],
               NEW pc \in {"releasing", "uncaughtRelease"}, Goto(j, a, pc)
        PROVE  (BilledIffDone /\ ExitsMatch)'
    <3>1. Settles(j, "failed")
      BY <2>3, <1>0 DEF Owns, Terminal, JobRow, TypeOK, Settles
    <3>2. \A i \in Jobs, b \in Attempts :
            att'[i][b].pc = IF i = j /\ b = a THEN pc ELSE att[i][b].pc
      BY <2>3, GotoPc
    <3> QED BY <2>3, <3>1, <3>2, StatusStep DEF Owns
  <2>4. ASSUME UNCHANGED job, NEW pc \in {"none", "cleanup"}, Goto(j, a, pc)
        PROVE  (BilledIffDone /\ ExitsMatch)'
    BY <2>4, QuietStep DEF SameOutcomes
  <2>5. CASE FailJob(j, a)
    BY <2>5, <2>3, <2>4 DEF FailJob, MissedExit
  <2>6. CASE FailAfterUncaught(j, a)
    BY <2>6, <2>3, <2>4 DEF FailAfterUncaught
  <2>7. CASE StopOnMiss(j, a)
    BY <2>7, <2>4 DEF StopOnMiss, MissedExit
  <2>8. CASE \/ DropCancelledClaims(j, a) \/ DropAfterUncaught(j, a)
             \/ ReleaseParcelless(j, a) \/ WorkerDies(j, a)
    BY <2>8, <2>4 DEF DropCancelledClaims, DropAfterUncaught, ReleaseParcelless, WorkerDies
  <2>9. CASE \/ ScrapeOk(j, a) \/ SaveRows(j, a) \/ StartDedup(j, a)
             \/ MarkDuplicates(j, a) \/ Export(j, a) \/ DeliveryFails(j, a)
    BY <2>9, QuietStep DEF ScrapeOk, SaveRows, StartDedup, MarkDuplicates, Export,
                           DeliveryFails, SameOutcomes
  <2>10. CASE ReuseGrantAndCap(j, a) \/ TransferDone(j, a)
    BY <2>10, QuietStep DEF ReuseGrantAndCap, TransferDone, SameOutcomes
  <2>11. CASE ReserveAndCap(j, a)
    <3>1. SameOutcomes
      BY <2>11, <1>0 DEF ReserveAndCap, SameOutcomes, TypeOK, JobRow
    <3> QED BY <2>11, <3>1, QuietStep DEF ReserveAndCap
  <2>12. CASE ReleaseAfterFail(j, a) \/ ReleaseOnCleanup(j, a)
    BY <2>12, <1>5, QuietStep DEF ReleaseAfterFail, ReleaseOnCleanup, ReleaseStep
  <2>13. CASE ReleaseAfterUncaught(j, a)
    <3>1. SameOutcomes /\ At(j, a, "uncaughtRelease")
      BY <2>13, <1>5 DEF ReleaseAfterUncaught, ReleaseStep
    <3>2. \A i \in Jobs, b \in Attempts :
            att'[i][b].pc = IF i = j /\ b = a THEN "uncaughtDrop" ELSE att[i][b].pc
      BY <2>13, GotoPc DEF ReleaseAfterUncaught, ReleaseStep
    <3> QED BY <3>1, <3>2 DEF SameOutcomes, BilledIffDone, ExitsMatch, At
  <2>14. CASE ClaimLeads(j, a)
    <3>1. \A i \in Jobs, b \in Attempts :
            att'[i][b].pc = IF i = j /\ b = a THEN "mark" ELSE att[i][b].pc
      BY <2>14 DEF ClaimLeads, TypeOK
    <3> QED BY <2>14, <3>1 DEF ClaimLeads, BilledIffDone, ExitsMatch, At
  <2>15. ASSUME NEW l \in Leads, TakeUnheldClaim(j, a, l) \/ TransferClaim(j, a, l)
         PROVE  (BilledIffDone /\ ExitsMatch)'
    BY <2>15 DEF TakeUnheldClaim, TransferClaim, BilledIffDone, ExitsMatch, At
  <2> QED BY <1>8, <2>1, <2>2, <2>5, <2>6, <2>7, <2>8, <2>9, <2>10, <2>11, <2>12,
             <2>13, <2>14, <2>15 DEF Work
<1> QED BY <1>1, <1>2, <1>3, <1>4, <1>6, <1>7, <1>8 DEF Next, Deliver, DeliverAgain

(* A job is billed exactly when it is done, and whoever tidies up after an *)
(* outcome works on a job that still has it: the billing CAS and the       *)
(* done-CAS commit together, and cancel_job, _fail_job, _retry_scrape_job  *)
(* and the watchdog all leave a terminal row alone.                        *)
THEOREM OutcomesCorrect == Spec => [](BilledIffDone /\ ExitsMatch)
<1>1. Init => OutcomeInv
  BY TypeInit DEF OutcomeInv, Init, BilledIffDone, ExitsMatch, At
<1>2. OutcomeInv /\ [Next]_vars => OutcomeInv'
  BY TypeStep, Outcomes DEF OutcomeInv
<1>3. OutcomeInv => BilledIffDone /\ ExitsMatch
  BY DEF OutcomeInv
<1> QED BY <1>1, <1>2, <1>3, PTL DEF Spec

(* The inductive invariant, for the action properties below.               *)
LEMMA OutcomeInvariant == Spec => []OutcomeInv
  BY TypeCorrect, OutcomesCorrect, PTL DEF OutcomeInv

(* No step writes the status of a job that is over.                        *)
LEMMA OverIsOver ==
    ASSUME TypeOK, [Next]_vars, NEW i \in Jobs, job[i].status \in Terminal
    PROVE  job'[i].status = job[i].status
<1>0. \A k \in Jobs : job[k] \in JobRow
  BY DEF TypeOK
<1>2. CASE UNCHANGED job
  BY <1>2
<1>3. ASSUME NEW j \in Jobs, Release(j)
      PROVE  job'[i].status = job[i].status
  <2>1. \/ job' = [job EXCEPT ![j].reserved = FALSE, ![j].count = 0]
        \/ job' = job
    BY <1>3 DEF Release
  <2>2. CASE job' = [job EXCEPT ![j].reserved = FALSE, ![j].count = 0]
    BY <2>2, <1>0 DEF TypeOK, JobRow
  <2> QED BY <2>1, <2>2
<1>4. ASSUME NEW j \in Jobs, Claim(j) \/ Cancel(j) \/ Recover(j)
      PROVE  job'[i].status = job[i].status
  <2>1. CASE Redeliver(j)
    BY <2>1, <1>2 DEF Redeliver
  <2>2. CASE Claim(j) \/ Cancel(j) \/ Requeue(j) \/ GiveUp(j)
    BY <2>2 DEF Claim, Cancel, Requeue, GiveUp, Terminal, TypeOK
  <2> QED BY <1>4, <2>1, <2>2 DEF Recover
<1>5. ASSUME NEW j \in Jobs, NEW a \in Attempts, Work(j, a)
      PROVE  job'[i].status = job[i].status
  <2>1. CASE RetryScrape(j, a) \/ Finalize(j, a)
    BY <2>1 DEF RetryScrape, Finalize, Owns, TypeOK
  <2>2. CASE FailJob(j, a) \/ FailAfterUncaught(j, a)
    BY <2>2 DEF FailJob, FailAfterUncaught, Owns, TypeOK
  <2>3. CASE ReleaseAfterFail(j, a) \/ ReleaseOnCleanup(j, a) \/ ReleaseAfterUncaught(j, a)
    BY <2>3, <1>3 DEF ReleaseAfterFail, ReleaseOnCleanup, ReleaseAfterUncaught, ReleaseStep
  <2>4. CASE ReserveAndCap(j, a)
    BY <2>4, <1>0 DEF ReserveAndCap, TypeOK, JobRow
  <2> QED BY <1>5, <1>2, <2>1, <2>2, <2>3, <2>4
          DEF Work, ScrapeOk, SaveRows, StartDedup, ClaimLeads, MarkDuplicates, Export,
              TakeUnheldClaim, TransferClaim, TransferDone, ReuseGrantAndCap,
              ReleaseParcelless, DeliveryFails, StopOnMiss, DropCancelledClaims,
              DropAfterUncaught
<1> QED BY <1>2, <1>3, <1>4, <1>5
        DEF Next, vars, Deliver, DeliverAgain, SweepReservation, WorkerDies, SweepClaims,
            WindowEnds, RollWindow

(* No message, worker, watchdog or cancel moves a job out of the terminal  *)
(* status it reached: every write to jobs.status is a compare-and-set.     *)
THEOREM TerminalStaysFinal == Spec => TerminalIsFinal
<1>1. TypeOK /\ [Next]_vars =>
        [\A j \in Jobs : job[j].status \in Terminal => job'[j].status = job[j].status]_vars
  BY OverIsOver
<1> QED BY <1>1, TypeCorrect, PTL DEF Spec, TerminalIsFinal

(* A claim that a job in flight gives up is given up by its owner's step.  *)
LEMMA ClaimKept ==
    ASSUME OutcomeInv, [Next]_vars, NEW l \in Leads,
           claim[l] # NoJob, claim'[l] # claim[l], job[claim[l]].status \notin Terminal
    PROVE  /\ Owns(claim[l], job[claim[l]].retry)
           /\ att'[claim[l]][job[claim[l]].retry] # att[claim[l]][job[claim[l]].retry]
<1> DEFINE h == claim[l]
           Goal == Owns(h, job[h].retry) /\ att'[h][job[h].retry] # att[h][job[h].retry]
<1> USE DEF OutcomeInv
<1>0. h \in Jobs /\ job[h] \in JobRow
  BY DEF TypeOK
<1>1. CASE UNCHANGED claim
  BY <1>1
<1>2. CASE SweepClaims
  BY <1>2 DEF SweepClaims, Stranded, Unclaimed, Terminal
<1>3. ASSUME NEW j \in Jobs, NEW a \in Attempts, NEW pc, Goto(j, a, pc), ~At(j, a, pc),
             Owns(j, a), h = j
      PROVE  Goal
  <2>1. a = job[h].retry
    BY <1>3 DEF Owns
  <2>2. att'[j][a].pc = pc
    BY <1>3, GotoPc
  <2> QED BY <1>3, <2>1, <2>2 DEF At
<1>4. ASSUME NEW j \in Jobs, NEW a \in Attempts, Work(j, a)
      PROVE  Goal
  <2>1. CASE ClaimLeads(j, a)
    BY <2>1 DEF ClaimLeads
  <2>2. CASE DeliveryFails(j, a)
    <3>1. Owns(j, a) /\ h = j
      BY <2>2 DEF DeliveryFails, Unclaimed, OwnClaims
    <3> QED BY <2>2, <3>1, <1>3 DEF DeliveryFails, At
  <2>3. ASSUME NEW k \in Leads, TakeUnheldClaim(j, a, k) PROVE Goal
    BY <2>3 DEF TakeUnheldClaim, TypeOK
  <2>4. ASSUME NEW k \in Leads, TransferClaim(j, a, k) PROVE Goal
    BY <2>4 DEF TransferClaim, NeverDelivered, Terminal, TypeOK
  <2>5. ASSUME NEW grant, ApplyCap(j, a, grant), At(j, a, "cap"), Goto(j, a, "final")
        PROVE  Goal
    <3>1. Owns(j, a) /\ h = j
      BY <2>5 DEF ApplyCap, Unclaimed, OwnClaims
    <3> QED BY <2>5, <3>1, <1>3 DEF At
  <2>6. CASE ReserveAndCap(j, a)
    BY <2>6, <2>5 DEF ReserveAndCap
  <2>7. CASE ReuseGrantAndCap(j, a)
    BY <2>7, <2>5 DEF ReuseGrantAndCap
  <2>8. CASE ReleaseParcelless(j, a)
    <3>1. h = j
      <4>1. claim' = Unclaimed(Parcelless(j))
        BY <2>8 DEF ReleaseParcelless
      <4>2. l \in Parcelless(j)
        BY <4>1 DEF Unclaimed
      <4> QED BY <4>2 DEF Parcelless, OwnClaims
    <3> QED BY <2>8, <3>1 DEF ReleaseParcelless, ExitsMatch, Terminal
  <2>9. CASE DropCancelledClaims(j, a)
    BY <2>9 DEF DropCancelledClaims, Unclaimed, OwnClaims, Terminal
  <2>10. CASE DropAfterUncaught(j, a)
    <3>1. h = j
      BY <2>10 DEF DropAfterUncaught, Unclaimed, OwnClaims
    <3> QED BY <2>10, <3>1 DEF DropAfterUncaught, ExitsMatch, At, Terminal
  <2> QED BY <1>1, <1>4, <2>1, <2>2, <2>3, <2>4, <2>6, <2>7, <2>8, <2>9, <2>10
          DEF Work, ScrapeOk, SaveRows, StartDedup, RetryScrape, MarkDuplicates, Export,
              TransferDone, Finalize, StopOnMiss, FailJob, ReleaseAfterFail,
              ReleaseOnCleanup, ReleaseStep, FailAfterUncaught, ReleaseAfterUncaught
<1> QED BY <1>1, <1>2, <1>4
        DEF Next, vars, Deliver, DeliverAgain, Claim, Cancel, Recover, Requeue, GiveUp,
            Redeliver, SweepReservation, WorkerDies, WindowEnds, RollWindow

(* While a job is in flight, only a step of the attempt that owns it gives *)
(* up a claim it holds: no superseded attempt, rival run or sweep does     *)
(* (release_run_claims_if_owned, the plan cap's ownership check,           *)
(* _transfer_one_claim).                                                   *)
THEOREM LiveClaimsStay == Spec => LiveClaimsReleasedByOwner
<1>1. OutcomeInv /\ [Next]_vars =>
        [\A l \in Leads :
           LET h == claim[l] IN
             h # NoJob /\ claim'[l] # h /\ job[h].status \notin Terminal
               => Owns(h, job[h].retry) /\ att'[h][job[h].retry] # att[h][job[h].retry]]_vars
  BY ClaimKept
<1> QED BY <1>1, OutcomeInvariant, PTL DEF Spec, LiveClaimsReleasedByOwner
=============================================================================
