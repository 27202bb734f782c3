--------------------------- MODULE BatchRunProofs ---------------------------
(* Theorems about BatchRun, for any number of scrapers, jobs, runs of the  *)
(* batch and sweeps.  RunSlotProofs says what its steps do to the jobs.    *)
EXTENDS BatchRun, RunSlotProofs

Unstarted == {"none", "pending"}
Final == {"done", "partial", "failed"}
Ends == {"done", "failed", "cancelled"}

(* What a run's row says of its children, given the jobs.                  *)
RowGood(row, jobs) ==
    /\ row.status \in Unstarted => row.children = {} /\ row.export = {}
    /\ \A j \in row.children : jobs[j].status # "none"
    /\ row.mails <= 1 /\ (~row.sent => row.mails = 0)
    /\ row.status \in Final =>
         /\ \A j \in row.children : jobs[j].status \in Ends
         /\ row.children \subseteq row.export \cup row.failed
         /\ \A j \in row.export : jobs[j].status = "done"
         /\ row.status = "done" => row.blocked = {} /\ row.export = row.children

(* What a sweep that is finalizing read stays true until it writes: each   *)
(* child it did not list as failed is done, and unless it forces the run,  *)
(* every child is over.                                                    *)
ReadGood(place, row, jobs) ==
    place.at = "read" =>
        /\ row.status \notin Unstarted
        /\ \A j \in row.children : j \in place.failed \/ jobs[j].status = "done"
        /\ ~place.forced => \A j \in row.children : jobs[j].status \in Ends

FanInv == DOMAIN fan = Runs /\ \A b \in Runs : GoodLook(fan[b])

RunsInv ==
    /\ run \in [Runs -> RunRow] /\ dispatches \subseteq Runs /\ fin \in [Finalizers -> FinRow]
    /\ \A b \in Runs : /\ RowGood(run[b], job)
                       /\ b \in dispatches \/ Locked(b) => Pending(b)
    /\ \A f \in Finalizers : ReadGood(fin[f], run[fin[f].run], job)

BatchInv == SlotInv /\ FanInv /\ RunsInv

-----------------------------------------------------------------------------
(* Finite sets of jobs.                                                    *)

LEMMA JobsFinite == IsFiniteSet(Configs) /\ IsFiniteSet(Jobs)
<1> DEFINE f == [c \in Configs |-> JobsOf(c)]
           T == {JobsOf(c) : c \in Configs}
<1>1. IsFiniteSet(Configs)
  BY SlotConstants DEF SlotConstants
<1>2. f \in Surjection(Configs, T)
  BY DEF Surjection
<1>3. IsFiniteSet(T)
  BY <1>1, <1>2, FS_Surjection
<1>4. ASSUME NEW c \in Configs PROVE IsFiniteSet(JobsOf(c))
  <2>1. MaxRuns[c] \in Nat
    BY JobFacts
  <2> QED BY <2>1, Counted DEF JobsOf
<1>5. IsFiniteSet(UNION T)
  BY <1>3, <1>4, FS_UNION
<1> QED BY <1>1, <1>5 DEF Jobs

(* 'done' is written only if nothing was blocked and nothing failed.       *)
LEMMA DoneMeansAll ==
    ASSUME NEW B \in SUBSET Configs, NEW F \in SUBSET Jobs, NEW total,
           Verdict(Cardinality(B) + Cardinality(F), total) = "done"
    PROVE  B = {} /\ F = {}
<1>1. IsFiniteSet(B) /\ IsFiniteSet(F)
  BY JobsFinite, FS_Subset
<1>2. Cardinality(B) \in Nat /\ Cardinality(F) \in Nat
  BY <1>1, FS_CardinalityType
<1>3. Cardinality(B) + Cardinality(F) = 0
  BY DEF Verdict
<1>4. Cardinality(B) = 0 /\ Cardinality(F) = 0
  BY <1>2, <1>3
<1> QED BY <1>1, <1>4, FS_EmptySet

-----------------------------------------------------------------------------
(* What every step keeps.                                                  *)

LEMMA RowStays ==
    ASSUME StatusStays, NEW row \in RunRow, RowGood(row, job)
    PROVE  RowGood(row, job')
<1>1. row.children \subseteq Jobs /\ row.export \subseteq Jobs
  BY DEF RunRow
<1>2. \A j \in Jobs : /\ job[j].status # "none" => job'[j].status # "none"
                      /\ job[j].status \in Ends => job'[j].status = job[j].status
  BY DEF StatusStays, Over, Ends
<1>3. "done" \in Ends
  BY DEF Ends
<1> QED BY <1>1, <1>2, <1>3 DEF RowGood

LEMMA ReadStays ==
    ASSUME StatusStays, NEW place, NEW row \in RunRow, NEW new,
           ReadGood(place, row, job),
           row.status \notin Unstarted =>
               new.status \notin Unstarted /\ new.children = row.children
    PROVE  ReadGood(place, new, job')
<1>1. row.children \subseteq Jobs
  BY DEF RunRow
<1>2. \A j \in Jobs : job[j].status \in Ends => job'[j].status = job[j].status
  BY DEF StatusStays, Over, Ends
<1>3. "done" \in Ends
  BY DEF Ends
<1> QED BY <1>1, <1>2, <1>3 DEF ReadGood

(* A step of one run's row.                                                *)
LEMMA RunMoves ==
    ASSUME RunsInv, StatusStays, NEW b \in Runs, NEW row \in RunRow,
           run' = [run EXCEPT ![b] = row], RowGood(row, job'),
           ~(run[b].status \in Unstarted) =>
               row.status \notin Unstarted /\ row.children = run[b].children,
           dispatches' \subseteq Runs, fin' \in [Finalizers -> FinRow],
           \A a \in Runs : a \in dispatches' \/ Locked(a)' =>
               IF a = b THEN row.status = "pending" ELSE Pending(a),
           \A f \in Finalizers : \/ fin'[f] = fin[f] \/ fin'[f].at # "read"
                                 \/ ReadGood(fin'[f], run'[fin'[f].run], job')
    PROVE  RunsInv'
<1>1. /\ run \in [Runs -> RunRow] /\ run' \in [Runs -> RunRow] /\ run'[b] = row
      /\ \A a \in Runs : a # b => run'[a] = run[a]
  BY DEF RunsInv
<1>2. ASSUME NEW a \in Runs
      PROVE  RowGood(run'[a], job') /\ (a \in dispatches' \/ Locked(a)' => Pending(a)')
  <2>1. RowGood(run'[a], job')
    BY <1>1, RowStays DEF RunsInv
  <2> QED BY <1>1, <2>1 DEF Pending
<1>3. ASSUME NEW f \in Finalizers PROVE ReadGood(fin'[f], run'[fin'[f].run], job')
  <2>1. CASE fin'[f] = fin[f]
    <3>1. fin[f].run \in Runs /\ ReadGood(fin[f], run[fin[f].run], job)
      BY DEF RunsInv, FinRow
    <3>2. run[fin[f].run].status \notin Unstarted =>
              /\ run'[fin[f].run].status \notin Unstarted
              /\ run'[fin[f].run].children = run[fin[f].run].children
      BY <1>1, <3>1
    <3> QED BY <1>1, <2>1, <3>1, <3>2, ReadStays
  <2>2. CASE fin'[f].at # "read"
    BY <2>2 DEF ReadGood
  <2> QED BY <2>1, <2>2
<1> QED BY <1>1, <1>2, <1>3 DEF RunsInv

(* A step that leaves the runs alone.                                      *)
LEMMA RunsStay ==
    ASSUME RunsInv, StatusStays, UNCHANGED run,
           dispatches' \subseteq Runs, fin' \in [Finalizers -> FinRow],
           \A a \in Runs : a \in dispatches' \/ Locked(a)' => Pending(a),
           \A f \in Finalizers : fin'[f] = fin[f] \/ fin'[f].at # "read"
    PROVE  RunsInv'
<1>1. 1 \in Runs
  BY BatchConstants DEF BatchConstants, Runs
<1>2. /\ run[1] \in RunRow /\ RowGood(run[1], job)
      /\ run' = [run EXCEPT ![1] = run[1]]
  BY <1>1 DEF RunsInv
<1>3. RowGood(run[1], job')
  BY <1>2, RowStays
<1> QED BY <1>1, <1>2, <1>3, RunMoves DEF Pending

LEMMA FanStays ==
    ASSUME FanInv, QuietStays, NEW b \in Runs,
           UNCHANGED fan \/ fan' = [fan EXCEPT ![b] = NoLook]
    PROVE  FanInv'
<1>1. DOMAIN fan' = Runs
  BY DEF FanInv
<1>2. ASSUME NEW a \in Runs PROVE GoodLook(fan[a])'
  <2>1. GoodLook(fan'[a])
    BY NoLookIsGood DEF FanInv
  <2>2. /\ IsLook(fan'[a])
        /\ \A c \in DOMAIN fan'[a] : \A n \in 1..MaxRuns[c] :
               n <= fan'[a][c] => Quiet(<<c, n>>)'
    BY <2>1, LooksStay
  <2> QED BY <2>2 DEF GoodLook, IsLook
<1> QED BY <1>1, <1>2 DEF FanInv

-----------------------------------------------------------------------------
(* The steps, by the actor that takes them.                                *)

LEMMA QuietSlot ==
    ASSUME SlotInv, UNCHANGED slotVars
    PROVE  SlotInv' /\ QuietStays /\ StatusStays
  BY SlotSteps

(* The row of a run that starts, fails or is stamped.                      *)
LEMMA RowFacts ==
    ASSUME RunsInv, NEW b \in Runs
    PROVE  /\ run \in [Runs -> RunRow] /\ run[b] \in RunRow /\ RowGood(run[b], job)
           /\ run = [run EXCEPT ![b] = run[b]]
           /\ b \in dispatches \/ Locked(b) => Pending(b)
           /\ \A a \in Runs : a \in dispatches \/ Locked(a) => Pending(a)
           /\ dispatches \subseteq Runs /\ fin \in [Finalizers -> FinRow]
  BY DEF RunsInv

LEMMA CreateStep ==
    ASSUME BatchInv, NEW b \in Runs, Create(b)
    PROVE  BatchInv'
<1>1. SlotInv' /\ FanInv' /\ StatusStays
  BY QuietSlot, FanStays DEF BatchInv, Create
<1>2. RunsInv /\ run[b].status = "none"
  BY DEF BatchInv, Create
<1> DEFINE row == [run[b] EXCEPT !.status = "pending"]
<1>3. /\ row \in RunRow /\ row.status = "pending" /\ row.children = run[b].children
      /\ row.mails = run[b].mails /\ row.sent = run[b].sent /\ row.export = run[b].export
      /\ run' = [run EXCEPT ![b] = row]
  BY <1>2, RowFacts DEF Create, RunRow
<1> HIDE DEF row
<1>4. RowGood(row, job')
  BY <1>1, <1>2, <1>3, RowFacts DEF RowGood, Unstarted, Final, Create, slotVars
<1>5. /\ dispatches' \subseteq Runs /\ fin' = fin
      /\ \A a \in Runs : a \in dispatches' \/ Locked(a)' =>
             IF a = b THEN row.status = "pending" ELSE Pending(a)
  BY <1>2, <1>3, RowFacts DEF Create, Locked
<1>6. RunsInv'
  BY <1>1, <1>2, <1>3, <1>4, <1>5, RowFacts, RunMoves DEF Unstarted
<1> QED BY <1>1, <1>6 DEF BatchInv

(* A pending run fails: refused, or given up by the recovery sweep.        *)
LEMMA FailStep ==
    ASSUME BatchInv, NEW b \in Runs, DispatchRefused(b) \/ GiveUpPending(b)
    PROVE  BatchInv'
<1>1. SlotInv' /\ FanInv' /\ StatusStays
  BY QuietSlot, FanStays DEF BatchInv, DispatchRefused, GiveUpPending
<1>2. RunsInv /\ run[b].status = "pending" /\ ~Locked(b) /\ dispatches' = dispatches \ {b}
      /\ UNCHANGED <<slotVars, fan, fin>>
  BY RowFacts DEF BatchInv, DispatchRefused, GiveUpPending, Pending
<1>3. ASSUME NEW row \in RunRow, run' = [run EXCEPT ![b] = row], row.status = "failed",
             row.children = run[b].children, row.export = run[b].export,
             row.mails = run[b].mails, row.sent = run[b].sent
      PROVE  BatchInv'
  <2>1. row.children = {} /\ row.export = {} /\ RowGood(run[b], job)
    BY <1>2, <1>3, RowFacts DEF RowGood, Unstarted
  <2>2. RowGood(row, job')
    BY <1>3, <2>1 DEF RowGood, Unstarted, Final
  <2>3. /\ dispatches' \subseteq Runs /\ fin' = fin
        /\ \A a \in Runs : a \in dispatches' \/ Locked(a)' =>
               IF a = b THEN row.status = "pending" ELSE Pending(a)
    BY <1>2, RowFacts DEF Locked
  <2>4. RunsInv'
    BY <1>1, <1>2, <1>3, <2>2, <2>3, RowFacts, RunMoves DEF Unstarted
  <2> QED BY <1>1, <2>4 DEF BatchInv
<1>4. CASE DispatchRefused(b)
  <2> DEFINE row == [run[b] EXCEPT !.status = "failed", !.blocked = Configs]
  <2>1. run' = [run EXCEPT ![b] = row]
    BY <1>2, <1>4, RowFacts DEF DispatchRefused
  <2>2. /\ row \in RunRow /\ row.status = "failed" /\ row.children = run[b].children
        /\ row.mails = run[b].mails /\ row.sent = run[b].sent /\ row.export = run[b].export
    BY <1>2, RowFacts DEF RunRow
  <2> QED BY <1>3, <2>1, <2>2
<1>5. CASE GiveUpPending(b)
  <2> DEFINE row == [run[b] EXCEPT !.status = "failed"]
  <2>1. run' = [run EXCEPT ![b] = row]
    BY <1>2, <1>5, RowFacts DEF GiveUpPending
  <2>2. /\ row \in RunRow /\ row.status = "failed" /\ row.children = run[b].children
        /\ row.mails = run[b].mails /\ row.sent = run[b].sent /\ row.export = run[b].export
    BY <1>2, RowFacts DEF RunRow
  <2> QED BY <1>3, <2>1, <2>2
<1> QED BY <1>4, <1>5

(* The dispatch looks.                                                     *)
LEMMA LookStepOfBatch ==
    ASSUME BatchInv, NEW b \in Runs, DispatchLook(b)
    PROVE  BatchInv'
<1>1. SlotInv' /\ QuietStays /\ StatusStays
  BY QuietSlot DEF BatchInv, DispatchLook
<1>2. PICK S \in SUBSET Configs :
          /\ \A c \in S : ~Stopping(c)
          /\ fan' = [fan EXCEPT ![b] = [c \in S |-> Settled(c)]]
  BY DEF DispatchLook
<1>3. GoodLook([c \in S |-> Settled(c)])
  BY <1>2, LookIsGood DEF Stopping, BatchInv, SlotInv
<1>4. FanInv'
  <2>1. DOMAIN fan' = Runs
    BY <1>2 DEF FanInv, BatchInv
  <2>2. ASSUME NEW a \in Runs PROVE GoodLook(fan[a])'
    <3>1. GoodLook(fan'[a])
      BY <1>2, <1>3 DEF FanInv, BatchInv
    <3>2. /\ IsLook(fan'[a])
          /\ \A c \in DOMAIN fan'[a] : \A n \in 1..MaxRuns[c] :
                 n <= fan'[a][c] => Quiet(<<c, n>>)'
      BY <1>1, <3>1, LooksStay
    <3> QED BY <3>2 DEF GoodLook, IsLook
  <2> QED BY <2>1, <2>2 DEF FanInv
<1>5. \A a \in Runs : a \in dispatches' \/ Locked(a)' => Pending(a)
  BY <1>2, RowFacts DEF BatchInv, DispatchLook, Locked, FanInv
<1>6. RunsInv'
  BY <1>1, <1>5, RowFacts, RunsStay DEF BatchInv, DispatchLook
<1> QED BY <1>1, <1>4, <1>6 DEF BatchInv

(* The message of a dispatch comes and goes, a locked row is unlocked.     *)
LEMMA MessageStep ==
    ASSUME BatchInv, NEW b \in Runs, DispatchDies(b) \/ Redispatch(b)
    PROVE  BatchInv'
<1>1. SlotInv' /\ FanInv' /\ StatusStays
  BY QuietSlot, FanStays DEF BatchInv, DispatchDies, Redispatch
<1>2. /\ dispatches' \subseteq Runs
      /\ \A a \in Runs : a \in dispatches' \/ Locked(a)' => Pending(a)
  BY RowFacts DEF BatchInv, DispatchDies, Redispatch, Locked, FanInv
<1>3. RunsInv'
  BY <1>1, <1>2, RowFacts, RunsStay DEF BatchInv, DispatchDies, Redispatch
<1> QED BY <1>1, <1>3 DEF BatchInv

(* The dispatch commits: jobs, children and status in one transaction.     *)
LEMMA CommitStep ==
    ASSUME BatchInv, NEW b \in Runs, DispatchCommit(b)
    PROVE  BatchInv'
<1> DEFINE started == Insertable(fan[b])
           kids == NewJobs(started)
           row == [run[b] EXCEPT !.status = IF kids = {} THEN "failed" ELSE "running",
                                 !.children = kids, !.blocked = Configs \ started,
                                 !.late = FALSE]
<1>1. /\ JobInv' /\ QuietStays /\ StatusStays /\ kids \subseteq Jobs
      /\ \A j \in kids : job'[j].status = "pending"
  BY Inserted DEF BatchInv, SlotInv, FanInv, DispatchCommit
<1>2. LookInv'
  BY <1>1, LookInvStays DEF BatchInv, SlotInv, DispatchCommit
<1>3. FanInv'
  BY <1>1, FanStays DEF BatchInv, DispatchCommit
<1> HIDE DEF kids, started
<1>4. Pending(b) /\ RunsInv
  BY RowFacts DEF BatchInv, DispatchCommit
<1>5. run' = [run EXCEPT ![b] = row]
  BY <1>4, RowFacts DEF DispatchCommit, started, kids
<1>6. /\ row \in RunRow /\ row.children = kids
      /\ row.status = IF kids = {} THEN "failed" ELSE "running"
      /\ row.mails = run[b].mails /\ row.sent = run[b].sent /\ row.export = run[b].export
  BY <1>1, <1>4, RowFacts DEF RunRow
<1> HIDE DEF row
<1>7. RowGood(row, job')
  <2>1. run[b].export = {} /\ RowGood(run[b], job)
    BY <1>4, RowFacts DEF RowGood, Unstarted, Pending
  <2> QED BY <1>1, <1>6, <2>1 DEF RowGood, Unstarted, Final
<1>8. /\ dispatches' \subseteq Runs /\ fin' = fin
      /\ \A a \in Runs : a \in dispatches' \/ Locked(a)' =>
             IF a = b THEN row.status = "pending" ELSE Pending(a)
  BY <1>4, RowFacts DEF DispatchCommit, Locked, BatchInv, FanInv
<1>9. RunsInv'
  BY <1>1, <1>4, <1>5, <1>6, <1>7, <1>8, RowFacts, RunMoves DEF Unstarted, Pending
<1> QED BY <1>1, <1>2, <1>3, <1>9 DEF BatchInv, SlotInv

(* A row's lease, expiry, lateness or stamp changes, and its sweep's place *)
(* with it.                                                                *)
LEMMA StampStep ==
    ASSUME BatchInv, NEW b \in Runs, NEW row \in RunRow, run' = [run EXCEPT ![b] = row],
           row.status = run[b].status, row.children = run[b].children,
           row.blocked = run[b].blocked, row.failed = run[b].failed,
           row.export = run[b].export,
           row.mails <= 1, ~row.sent => row.mails = 0,
           UNCHANGED <<slotVars, fan, dispatches>>, fin' \in [Finalizers -> FinRow],
           \A f \in Finalizers : \/ fin'[f] = fin[f] \/ fin'[f].at # "read"
                                 \/ ReadGood(fin'[f], run'[fin'[f].run], job')
    PROVE  BatchInv'
<1>1. SlotInv' /\ FanInv' /\ StatusStays
  BY QuietSlot, FanStays DEF BatchInv
<1>2. RowGood(row, job')
  BY RowFacts DEF BatchInv, RowGood, slotVars
<1>3. /\ dispatches' \subseteq Runs
      /\ \A a \in Runs : a \in dispatches' \/ Locked(a)' =>
             IF a = b THEN row.status = "pending" ELSE Pending(a)
  BY RowFacts DEF BatchInv, Locked, Pending
<1>4. RunsInv'
  BY <1>1, <1>2, <1>3, RunMoves DEF BatchInv
<1> QED BY <1>1, <1>4 DEF BatchInv

LEMMA ClockStep ==
    ASSUME BatchInv, NEW b \in Runs, Clock(b)
    PROVE  BatchInv'
<1>1. RunsInv /\ fin' = fin /\ UNCHANGED <<slotVars, fan, dispatches>>
  BY DEF BatchInv, Clock, Late, LeaseExpires
<1>2. run[b].mails <= 1 /\ (~run[b].sent => run[b].mails = 0)
  BY <1>1, RowFacts DEF RowGood
<1>3. CASE Late(b)
  <2> DEFINE row == [run[b] EXCEPT !.late = TRUE]
  <2>1. row \in RunRow /\ run' = [run EXCEPT ![b] = row]
    BY <1>1, <1>3, RowFacts DEF Late, RunRow
  <2> QED BY <1>1, <1>2, <2>1, RowFacts, StampStep DEF RunRow
<1>4. CASE LeaseExpires(b)
  <2> DEFINE row == [run[b] EXCEPT !.expired = TRUE]
  <2>1. row \in RunRow /\ run' = [run EXCEPT ![b] = row]
    BY <1>1, <1>4, RowFacts DEF LeaseExpires, RunRow
  <2> QED BY <1>1, <1>2, <2>1, RowFacts, StampStep DEF RunRow
<1> QED BY <1>3, <1>4 DEF Clock

(* A sweep claims a run, and what it reads is good.                        *)
LEMMA ClaimStep ==
    ASSUME BatchInv, NEW b \in Runs, NEW f \in Finalizers, SweepClaim(f, b)
    PROVE  BatchInv'
<1> DEFINE row == [run[b] EXCEPT !.lease = f, !.expired = FALSE]
           place == [at |-> "read", run |-> b, forced |-> run[b].late,
                     failed |-> ReadFailed(b, run[b].late)]
<1>1. /\ RunsInv /\ UNCHANGED <<slotVars, fan, dispatches>>
      /\ fin' = [fin EXCEPT ![f] = place] /\ run[b].status = "running"
      /\ run[b].late \/ \A j \in run[b].children : Over(j)
  BY DEF BatchInv, SweepClaim, Running
<1>2. run[b].mails <= 1 /\ (~run[b].sent => run[b].mails = 0)
  BY <1>1, RowFacts DEF RowGood
<1>3. row \in RunRow /\ run' = [run EXCEPT ![b] = row]
  BY <1>1, RowFacts DEF SweepClaim, RunRow
<1>4. run[b].children \subseteq Jobs /\ run[b].late \in BOOLEAN
  BY <1>1, RowFacts DEF RunRow
<1>5. place \in FinRow
  BY <1>4 DEF FinRow, ReadFailed
<1>6. ReadGood(place, run'[b], job')
  <2>1. run'[b] = row /\ row.status = "running" /\ row.children = run[b].children
    BY <1>1, <1>3, RowFacts DEF RunRow
  <2>2. job' = job
    BY <1>1 DEF slotVars
  <2>3. \A j \in run[b].children : j \in place.failed \/ job[j].status = "done"
    BY <1>1 DEF ReadFailed, Over
  <2>4. ~place.forced => \A j \in run[b].children : job[j].status \in Ends
    BY <1>1 DEF Over, Ends
  <2> HIDE DEF row, place
  <2> QED BY <2>1, <2>2, <2>3, <2>4 DEF ReadGood, Unstarted
<1>7. fin' \in [Finalizers -> FinRow] /\ fin'[f] = place /\ place.run = b
      /\ \A g \in Finalizers : g # f => fin'[g] = fin[g]
  BY <1>1, <1>5, RowFacts
<1>8. /\ row.status = run[b].status /\ row.children = run[b].children
      /\ row.blocked = run[b].blocked /\ row.failed = run[b].failed
      /\ row.export = run[b].export /\ row.mails = run[b].mails /\ row.sent = run[b].sent
  BY <1>1, RowFacts DEF RunRow
<1> HIDE DEF row, place
<1> QED BY <1>1, <1>2, <1>3, <1>6, <1>7, <1>8, StampStep

(* A sweep gives up, dies or delivers.                                     *)
LEMMA LeaveStep ==
    ASSUME BatchInv, NEW f \in Finalizers,
           FinalizeFails(f) \/ Deliver(f) \/ FinalizerDies(f)
    PROVE  BatchInv'
<1>1. /\ RunsInv /\ UNCHANGED <<slotVars, fan, dispatches>> /\ fin' = [fin EXCEPT ![f] = Idle]
      /\ fin[f].run \in Runs
  BY RowFacts DEF BatchInv, RunsInv, FinRow, FinalizeFails, Deliver, FinalizerDies
<1>2. PICK b \in Runs : b = fin[f].run
  BY <1>1
<1>3. /\ run[b].mails <= 1 /\ (~run[b].sent => run[b].mails = 0)
      /\ run[b] \in RunRow /\ run \in [Runs -> RunRow] /\ run = [run EXCEPT ![b] = run[b]]
  BY <1>1, RowFacts DEF RowGood
<1>4. Idle \in FinRow /\ Idle.at = "idle"
  BY BatchConstants DEF BatchConstants, Runs, Idle, FinRow
<1>5. fin' \in [Finalizers -> FinRow]
      /\ \A g \in Finalizers : fin'[g] = fin[g] \/ fin'[g].at # "read"
  BY <1>1, <1>4, RowFacts
<1>6. CASE UNCHANGED run
  BY <1>1, <1>3, <1>5, <1>6, StampStep
<1>7. CASE FinalizeFails(f) /\ run[b].lease = f
  <2> DEFINE row == [run[b] EXCEPT !.lease = NoOne, !.expired = FALSE]
  <2>1. run' = [run EXCEPT ![b] = row]
    BY <1>2, <1>3, <1>7 DEF FinalizeFails
  <2>2. row \in RunRow
    BY <1>3 DEF RunRow
  <2>3. /\ row.status = run[b].status /\ row.children = run[b].children
        /\ row.blocked = run[b].blocked /\ row.failed = run[b].failed
        /\ row.export = run[b].export /\ row.mails = run[b].mails /\ row.sent = run[b].sent
    BY <1>3 DEF RunRow
  <2> HIDE DEF row
  <2> QED BY <1>1, <1>3, <1>5, <2>1, <2>2, <2>3, StampStep
<1>8. CASE Deliver(f) /\ ~run[b].sent /\ run' # run
  <2> DEFINE row == [run[b] EXCEPT !.sent = TRUE, !.mails = @ + 1]
  <2>1. run' = [run EXCEPT ![b] = row]
    BY <1>2, <1>3, <1>8 DEF Deliver
  <2>2. row \in RunRow /\ row.mails = run[b].mails + 1 /\ row.sent = TRUE
    <3>1. run[b].mails + 1 \in Nat
      BY <1>3 DEF RunRow
    <3> QED BY <1>3, <3>1, Zenon DEF RunRow
  <2>3. /\ row.status = run[b].status /\ row.children = run[b].children
        /\ row.blocked = run[b].blocked /\ row.failed = run[b].failed
        /\ row.export = run[b].export
    BY <1>3 DEF RunRow
  <2> HIDE DEF row
  <2>4. run[b].mails = 0
    BY <1>3, <1>8
  <2>5. row.mails <= 1 /\ (~row.sent => row.mails = 0)
    BY <2>2, <2>4
  <2> QED BY <1>1, <1>5, <2>1, <2>2, <2>3, <2>5, StampStep
<1> QED BY <1>2, <1>6, <1>7, <1>8 DEF FinalizeFails, Deliver, FinalizerDies

(* The final write, with the forced cancel of what is not over.            *)
LEMMA FinalizeStep ==
    ASSUME BatchInv, NEW f \in Finalizers, Finalize(f)
    PROVE  BatchInv'
<1>1. PICK b \in Runs : b = fin[f].run
  BY RowFacts DEF BatchInv, RunsInv, FinRow
<1> DEFINE T == {j \in run[b].children : fin[f].forced /\ ~Over(j)}
           out == {j \in run[b].children : job[j].status = "done"}
           refused == Cardinality(run[b].blocked)
           total == refused + Cardinality(run[b].children)
           verdict == Verdict(refused + Cardinality(fin[f].failed), total)
           row == [run[b] EXCEPT !.failed = fin[f].failed, !.export = out, !.status = verdict]
           place == [fin[f] EXCEPT !.at = "written", !.failed = {}]
<1>2. /\ RunsInv /\ UNCHANGED <<live, look, fan, dispatches>> /\ fin[f].at = "read"
      /\ job' = [j \in Jobs |-> IF j \in T THEN [job[j] EXCEPT !.status = "cancelled"]
                                           ELSE job[j]]
  BY <1>1 DEF BatchInv, Finalize, TimedOut
<1>3. /\ run[b] \in RunRow /\ run \in [Runs -> RunRow] /\ RowGood(run[b], job)
      /\ fin[f] \in FinRow /\ fin \in [Finalizers -> FinRow]
      /\ ReadGood(fin[f], run[b], job)
  BY <1>1, <1>2, RowFacts DEF RunsInv
<1>4. /\ run[b].children \subseteq Jobs /\ run[b].blocked \subseteq Configs
      /\ fin[f].failed \subseteq Jobs /\ fin[f].forced \in BOOLEAN
      /\ (~run[b].sent => run[b].mails = 0) /\ run[b].mails <= 1
  BY <1>3 DEF RunRow, FinRow, RowGood
<1>5. /\ \A j \in run[b].children : job[j].status # "none" /\ job[j].status \in Statuses
      /\ \A j \in run[b].children : j \in fin[f].failed \/ job[j].status = "done"
      /\ ~fin[f].forced => \A j \in run[b].children : job[j].status \in Ends
  BY <1>2, <1>3, <1>4 DEF RowGood, ReadGood, BatchInv, SlotInv, JobInv, JobType, JobRow
<1>6. T \subseteq Jobs /\ \A j \in T : Active(j)
  BY <1>4, <1>5 DEF Active, Over, Statuses
<1>7. JobInv' /\ QuietStays /\ StatusStays
  BY <1>2, <1>6, ManyCancelled DEF BatchInv, SlotInv
<1>8. SlotInv' /\ FanInv'
  BY <1>1, <1>2, <1>7, LookInvStays, FanStays DEF BatchInv, SlotInv
<1>9. \A j \in run[b].children : job'[j].status \in Ends
  <2> SUFFICES ASSUME NEW j \in run[b].children PROVE job'[j].status \in Ends
    OBVIOUS
  <2>1. j \in Jobs /\ job[j] \in JobRow
    BY <1>4 DEF BatchInv, SlotInv, JobInv, JobType
  <2>2. CASE j \in T
    BY <1>2, <2>1, <2>2 DEF Ends, JobRow
  <2>3. CASE j \notin T
    BY <1>2, <1>4, <1>5, <2>1, <2>3 DEF Ends, Over
  <2> QED BY <2>2, <2>3
<1>10. \A j \in out : job'[j].status = "done"
  BY <1>4, <1>7 DEF StatusStays, Over
<1>11. \A a \in Runs : a \in dispatches' \/ Locked(a)' => Pending(a)
  BY <1>2, RowFacts DEF Locked
<1> HIDE DEF T
<1>12. CASE ~MayWrite(f)
  <2>1. run' = run /\ fin' = [fin EXCEPT ![f] = Idle]
    BY <1>12 DEF Finalize
  <2>2. Idle \in FinRow /\ Idle.at = "idle"
    BY BatchConstants DEF BatchConstants, Runs, Idle, FinRow
  <2>3. fin' \in [Finalizers -> FinRow]
        /\ \A g \in Finalizers : fin'[g] = fin[g] \/ fin'[g].at # "read"
    BY <1>3, <2>1, <2>2
  <2>4. RunsInv'
    BY <1>2, <1>7, <1>11, <2>1, <2>3, RowFacts, RunsStay
  <2> QED BY <1>8, <2>4 DEF BatchInv
<1>13. CASE MayWrite(f)
  <2>1. /\ run[b].status = "running" /\ fin' = [fin EXCEPT ![f] = place]
        /\ run' = [run EXCEPT ![b] = row]
    BY <1>1, <1>3, <1>13 DEF Finalize, MayWrite, Running
  <2>2. verdict \in Final
    BY DEF Verdict, Final
  <2>3. verdict = "done" => run[b].blocked = {} /\ fin[f].failed = {}
    BY <1>4, DoneMeansAll
  <2> HIDE DEF verdict, out
  <2>4. out \subseteq run[b].children /\ run[b].children \subseteq out \cup fin[f].failed
    BY <1>5 DEF out
  <2>5. /\ row \in RunRow /\ row.status = verdict /\ row.children = run[b].children
        /\ row.failed = fin[f].failed /\ row.export = out /\ row.blocked = run[b].blocked
        /\ row.mails = run[b].mails /\ row.sent = run[b].sent
    BY <1>3, <1>4, <2>2, <2>4 DEF RunRow, Final
  <2>6. place \in FinRow /\ place.at = "written"
    BY <1>3 DEF FinRow
  <2> HIDE DEF row, place
  <2>7. RowGood(row, job')
    <3>1. \A j \in run[b].children : job'[j].status # "none"
      BY <1>9 DEF Ends
    <3>2. verdict \notin Unstarted
      BY <2>2 DEF Final, Unstarted
    <3>3. verdict = "done" => row.blocked = {} /\ row.export = row.children
      BY <2>3, <2>4, <2>5
    <3> QED BY <1>4, <1>9, <1>10, <2>4, <2>5, <3>1, <3>2, <3>3 DEF RowGood
  <2>8. /\ fin' \in [Finalizers -> FinRow]
        /\ \A g \in Finalizers : fin'[g] = fin[g] \/ fin'[g].at # "read"
    BY <1>3, <2>1, <2>6
  <2>9. row.status \notin Unstarted
    BY <2>2, <2>5 DEF Final, Unstarted
  <2>10. /\ dispatches' \subseteq Runs
         /\ \A a \in Runs : a \in dispatches' \/ Locked(a)' =>
                IF a = b THEN row.status = "pending" ELSE Pending(a)
    BY <1>2, <1>11, <2>1, RowFacts DEF Pending
  <2>11. RunsInv'
    BY <1>2, <1>7, <2>1, <2>5, <2>7, <2>8, <2>9, <2>10, RunMoves
  <2> QED BY <1>8, <2>11 DEF BatchInv
<1> QED BY <1>12, <1>13

-----------------------------------------------------------------------------
LEMMA BatchInitInv == Init => BatchInv
<1> SUFFICES ASSUME Init PROVE BatchInv
  OBVIOUS
<1>1. SlotInv
  BY SlotInitInv DEF Init
<1>2. FanInv
  BY NoLookIsGood DEF Init, FanInv
<1>3. NoRun \in RunRow /\ RowGood(NoRun, job) /\ Idle \in FinRow /\ Idle.at = "idle"
  BY BatchConstants DEF BatchConstants, Runs, NoRun, RunRow, RowGood, Unstarted, Final,
                        Idle, FinRow
<1>4. \A b \in Runs : ~(b \in dispatches) /\ ~Locked(b)
  BY DEF Init, Locked
<1>5. RunsInv
  BY <1>3, <1>4 DEF Init, RunsInv, ReadGood
<1> QED BY <1>1, <1>2, <1>5 DEF BatchInv

LEMMA BatchSteps == BatchInv /\ [Next]_vars => BatchInv'
<1> SUFFICES ASSUME BatchInv, [Next]_vars PROVE BatchInv'
  OBVIOUS
<1>1. ASSUME [SlotNext]_slotVars, UNCHANGED batchVars PROVE BatchInv'
  <2>1. SlotInv' /\ QuietStays /\ StatusStays
    BY <1>1, SlotSteps DEF BatchInv
  <2>2. 1 \in Runs
    BY BatchConstants DEF BatchConstants, Runs
  <2>3. FanInv'
    BY <1>1, <2>1, <2>2, FanStays DEF BatchInv, batchVars
  <2>4. RunsInv'
    BY <1>1, <2>1, <2>2, RunsStay, RowFacts DEF BatchInv, batchVars, Locked
  <2> QED BY <2>1, <2>3, <2>4 DEF BatchInv
<1>2. ASSUME NEW b \in Runs,
             Create(b) \/ Dispatch(b) \/ RecoverySweep(b) \/ Clock(b)
                 \/ \E f \in Finalizers : SweepClaim(f, b)
      PROVE  BatchInv'
  BY <1>2, CreateStep, FailStep, LookStepOfBatch, MessageStep, CommitStep, ClockStep,
     ClaimStep DEF Dispatch, RecoverySweep
<1>3. ASSUME NEW f \in Finalizers, Finalizing(f) PROVE BatchInv'
  BY <1>3, FinalizeStep, LeaveStep DEF Finalizing
<1>4. ASSUME UNCHANGED vars PROVE BatchInv'
  BY <1>1, <1>4 DEF vars
<1> QED BY <1>1, <1>2, <1>3, <1>4 DEF Next

LEMMA BatchInvariant == Spec => []BatchInv
  BY BatchInitInv, BatchSteps, PTL DEF Spec

(* What the invariant says of the runs' properties.                        *)
LEMMA InvSaysRuns == BatchInv => TypeOK /\ NoChildOutlivesRun /\ OutcomeHonest
<1> SUFFICES ASSUME BatchInv PROVE TypeOK /\ NoChildOutlivesRun /\ OutcomeHonest
  OBVIOUS
<1>1. TypeOK
  BY InvIsTyped DEF BatchInv, FanInv, RunsInv, GoodLook, TypeOK
<1>2. ASSUME NEW b \in Runs, Ended(b)
      PROVE  /\ \A j \in run[b].children : Over(j)
             /\ run[b].children \subseteq run[b].export \cup run[b].failed
             /\ \A j \in run[b].export : job[j].status = "done"
             /\ run[b].status = "done" => run[b].blocked = {} /\ run[b].export = run[b].children
  BY <1>2 DEF BatchInv, RunsInv, RowGood, Ended, Final, Over, Ends
<1> QED BY <1>1, <1>2 DEF NoChildOutlivesRun, OutcomeHonest

LEMMA FinalSteps ==
    ASSUME BatchInv, BatchInv', [Next]_vars, NEW b \in Runs
    PROVE  (Ended(b) => Outcome(b)' = Outcome(b)) /\ run'[b].mails <= 1
<1>1. run'[b].mails <= 1
  BY DEF BatchInv, RunsInv, RowGood
<1>2. ASSUME Ended(b) PROVE Outcome(b)' = Outcome(b)
  <2>1. /\ ~Pending(b) /\ ~Running(b) /\ run[b].status # "none"
        /\ b \notin dispatches /\ ~Locked(b) /\ run \in [Runs -> RunRow]
    BY <1>2 DEF Ended, Pending, Running, BatchInv, RunsInv
  <2>2. CASE run'[b] = run[b]
    BY <2>2 DEF Outcome
  <2>3. ASSUME NEW a \in Runs,
               Create(a) \/ Dispatch(a) \/ RecoverySweep(a) \/ Clock(a)
                   \/ \E f \in Finalizers : SweepClaim(f, a)
        PROVE  run'[b] = run[b]
    <3>1. CASE a = b
      BY <2>1, <2>3, <3>1 DEF Create, Dispatch, RecoverySweep, Clock, SweepClaim,
         DispatchRefused, DispatchLook, DispatchCommit, DispatchDies, Redispatch,
         GiveUpPending, Late, LeaseExpires
    <3>2. CASE a # b
      BY <2>1, <2>3, <3>2 DEF Create, Dispatch, RecoverySweep, Clock, SweepClaim,
         DispatchRefused, DispatchLook, DispatchCommit, DispatchDies, Redispatch,
         GiveUpPending, Late, LeaseExpires
    <3> QED BY <3>1, <3>2
  <2>4. ASSUME NEW f \in Finalizers, Finalizing(f) PROVE Outcome(b)' = Outcome(b)
    <3>1. run[b] \in RunRow /\ fin[f].run \in Runs
      BY <2>1 DEF BatchInv, RunsInv, FinRow
    <3>2. CASE Finalize(f)
      BY <2>1, <3>1, <3>2 DEF Finalize, MayWrite, Outcome
    <3>3. CASE FinalizeFails(f)
      BY <2>1, <3>1, <3>3 DEF FinalizeFails, Outcome, RunRow
    <3>4. CASE Deliver(f)
      BY <2>1, <3>1, <3>4 DEF Deliver, Outcome, RunRow
    <3>5. CASE FinalizerDies(f)
      BY <3>5 DEF FinalizerDies, Outcome
    <3> QED BY <2>4, <3>2, <3>3, <3>4, <3>5 DEF Finalizing
  <2> QED BY <2>2, <2>3, <2>4 DEF Next, vars, batchVars
<1> QED BY <1>1, <1>2

-----------------------------------------------------------------------------
(* The types of the jobs, the runs and the sweeps, for any number of each. *)
THEOREM BatchTypes == Spec => []TypeOK
  BY BatchInvariant, InvSaysRuns, PTL

(* No child of a run outlives it: a forced finalize cancels what is not    *)
(* over in the transaction of its final write (finalize_batch_run).        *)
THEOREM ChildrenEnd == Spec => []NoChildOutlivesRun
  BY BatchInvariant, InvSaysRuns, PTL

(* A final run says what it delivers, though children end between the read *)
(* of their statuses and the write.                                        *)
THEOREM OutcomesHonest == Spec => []OutcomeHonest
  BY BatchInvariant, InvSaysRuns, PTL

(* A final outcome stands and is mailed at most once, whatever sweeps lose *)
(* their lease meanwhile.                                                  *)
THEOREM FinalStays == Spec => FinalIsFinal
<1>1. BatchInv /\ BatchInv' /\ [Next]_vars
          => [\A b \in Runs : (Ended(b) => Outcome(b)' = Outcome(b)) /\ run'[b].mails <= 1]_vars
  BY FinalSteps
<1> QED BY <1>1, BatchInvariant, PTL DEF Spec, FinalIsFinal

(* The slot's properties hold with the batch's dispatches and forced       *)
(* cancels among its starters and users.                                   *)
THEOREM BatchKeepsSlot == Spec => []SlotSafe
<1>1. BatchInv => SlotSafe
  BY InvHoldsSlot, InvExclusive DEF BatchInv, SlotSafe
<1> QED BY <1>1, BatchInvariant, PTL
=============================================================================
