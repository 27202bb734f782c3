-------------------------- MODULE JobRunQuotaProofs --------------------------
(***************************************************************************)
(* Theorems about the quota of JobRun: the counter of the user is exactly  *)
(* the units that were billed or are reserved, a run bills no more than it *)
(* was granted, and the grants of a window fit the limit.                  *)
(*                                                                         *)
(* The argument.  The counter is the size of a set of units, one per job   *)
(* and number up to the job's share; a step that charges, reserves or      *)
(* releases moves the share of one job (SharesMove), and one that rolls    *)
(* the window leaves every other share at zero, because no job has a grant *)
(* or a bill of a window to come (QuotaBounds).  A grant cannot be lost    *)
(* before the bill that settles it: only a job that is over is released    *)
(* (CleanupOver, ExitsMatch), so an attempt about to bill still has one    *)
(* (GrantKept).  Conservation holds whatever the watchdog takes for dead;  *)
(* the other two need that a job has one live attempt (SoleAttempt).       *)
(***************************************************************************)
EXTENDS JobRunDedupProofs

USE DEF leadVars, quotaVars

NLeads == Cardinality(Leads)

-----------------------------------------------------------------------------
(* Counting units.                                                         *)

(* The units of the shares f gives to the jobs.                            *)
UnitSet(f) == {u \in Jobs \X (1..NLeads) : u[2] <= f[u[1]]}

Shares == [Jobs -> 0..NLeads]

LEMMA NLeadsNat == NLeads \in Nat
  BY LeadCounts DEF NLeads

LEMMA UnitSetFinite ==
    ASSUME NEW f
    PROVE  IsFiniteSet(UnitSet(f)) /\ Cardinality(UnitSet(f)) \in Nat
<1>1. IsFiniteSet(1..NLeads)
  BY NLeadsNat, FS_Interval
<1>2. IsFiniteSet(Jobs \X (1..NLeads))
  BY <1>1, ConstantsAssumption, FS_Product DEF ConstantsAssumption
<1>3. UnitSet(f) \in SUBSET (Jobs \X (1..NLeads))
  BY DEF UnitSet
<1> QED BY <1>2, <1>3, FS_Subset, FS_CardinalityType

(* The units of one job are as many as its share.                          *)
LEMMA OneShare ==
    ASSUME NEW f \in Shares, NEW j \in Jobs
    PROVE  LET One == {u \in UnitSet(f) : u[1] = j}
           IN  IsFiniteSet(One) /\ Cardinality(One) = f[j]
<1> DEFINE One == {u \in UnitSet(f) : u[1] = j}
           N == {j} \X (1..f[j])
<1>1. f[j] \in 0..NLeads
  BY DEF Shares
<1>2. One = N
  BY <1>1, NLeadsNat DEF UnitSet
<1>3. IsFiniteSet({j}) /\ Cardinality({j}) = 1
  BY FS_Singleton
<1>4. IsFiniteSet(1..f[j]) /\ Cardinality(1..f[j]) = f[j]
  <2>1. f[j] \in Nat
    BY <1>1, NLeadsNat
  <2>2. \A n \in Nat : IsFiniteSet(1..n) /\ Cardinality(1..n) = n
    BY FS_Interval
  <2> QED BY <2>1, <2>2
<1>5. IsFiniteSet(N) /\ Cardinality(N) = Cardinality({j}) * Cardinality(1..f[j])
  BY <1>3, <1>4, FS_Product
<1>6. Cardinality(N) = f[j]
  BY <1>1, <1>3, <1>4, <1>5, NLeadsNat
<1> QED BY <1>2, <1>5, <1>6

(* When the share of one job moves, the units move by as much.             *)
LEMMA SharesMove ==
    ASSUME NEW f \in Shares, NEW g \in Shares, NEW j \in Jobs,
           \A i \in Jobs \ {j} : g[i] = f[i]
    PROVE  Cardinality(UnitSet(g)) = Cardinality(UnitSet(f)) - f[j] + g[j]
<1> DEFINE Rest(h) == {u \in UnitSet(h) : u[1] # j}
           One(h) == {u \in UnitSet(h) : u[1] = j}
<1>0. \A h \in Shares : h[j] \in Nat
  BY NLeadsNat DEF Shares
<1>1. ASSUME NEW h \in Shares
      PROVE  /\ Cardinality(UnitSet(h)) = Cardinality(Rest(h)) + h[j]
             /\ Cardinality(Rest(h)) \in Nat
  <2>1. UnitSet(h) = Rest(h) \cup One(h) /\ Rest(h) \cap One(h) = {}
    OBVIOUS
  <2>2. IsFiniteSet(One(h)) /\ Cardinality(One(h)) = h[j]
    BY OneShare
  <2>3. IsFiniteSet(Rest(h)) /\ Cardinality(Rest(h)) \in Nat
    BY UnitSetFinite, FS_Subset, FS_CardinalityType
  <2>4. Cardinality(Rest(h) \cup One(h))
          = Cardinality(Rest(h)) + Cardinality(One(h)) - Cardinality(Rest(h) \cap One(h))
    BY <2>2, <2>3, FS_Union
  <2>5. Cardinality(Rest(h) \cap One(h)) = 0
    BY <2>1, FS_EmptySet
  <2> HIDE DEF Rest, One
  <2> QED BY <1>0, <2>1, <2>2, <2>3, <2>4, <2>5
<1>2. Rest(f) = Rest(g)
  BY DEF UnitSet
<1> HIDE DEF Rest
<1> QED BY <1>0, <1>1, <1>2

(* Without shares there is no unit.                                        *)
LEMMA NoShares ==
    ASSUME NEW f, \A i \in Jobs : f[i] = 0
    PROVE  Cardinality(UnitSet(f)) = 0
<1>1. UnitSet(f) = {}
  BY NLeadsNat DEF UnitSet
<1> QED BY <1>1, FS_EmptySet

(* The plan cap leaves at most the grant on the list: a row is kept only   *)
(* when its rank is, and no two rows share a rank.                         *)
LEMMA CapFits ==
    ASSUME NEW S, S \subseteq Leads, NEW grant \in Nat
    PROVE  Cardinality(S \ OverQuota(S, grant)) <= grant
<1> DEFINE Below(l) == {k \in S : k <= l}
           Kept == {l \in S : Cardinality(Below(l)) <= grant}
           rank == [l \in Kept |-> Cardinality(Below(l))]
<1>1. S \subseteq Int /\ IsFiniteSet(S)
  BY ConstantsAssumption, FS_Subset DEF ConstantsAssumption
<1>2. \A l \in S : IsFiniteSet(Below(l)) /\ Cardinality(Below(l)) \in Nat
  BY <1>1, FS_Subset, FS_CardinalityType
<1>3. \A l \in S : Cardinality(Below(l)) >= 1
  <2>1. ASSUME NEW l \in S PROVE Cardinality(Below(l)) # 0
    <3>1. l \in Below(l)
      BY <1>1
    <3> QED BY <1>2, <3>1, FS_EmptySet
  <2> QED BY <1>2, <2>1
<1>4. ASSUME NEW l \in S, NEW m \in S, l < m
      PROVE  Cardinality(Below(l)) # Cardinality(Below(m))
  <2>0. \A k \in S : k \in Int
    BY <1>1
  <2>1. Below(l) \subseteq Below(m)
    BY <2>0, <1>4
  <2>2. m \in Below(m) /\ m \notin Below(l)
    BY <2>0, <1>4
  <2> QED BY <1>2, <2>1, <2>2, FS_Subset
<1>5. rank \in Injection(Kept, 1..grant)
  <2>1. rank \in [Kept -> 1..grant]
    BY <1>2, <1>3
  <2>2. ASSUME NEW l \in Kept, NEW m \in Kept, rank[l] = rank[m] PROVE l = m
    <3>1. l \in Int /\ m \in Int
      BY <1>1
    <3>2. Cardinality(Below(l)) = Cardinality(Below(m))
      BY <2>2
    <3> QED BY <3>1, <3>2, <1>4
  <2> QED BY <2>1, <2>2 DEF Injection, IsInjective
<1>6. Cardinality(Kept) <= grant
  <2>1. IsFiniteSet(1..grant) /\ Cardinality(1..grant) = grant
    BY FS_Interval
  <2> QED BY <1>5, <2>1, FS_Injection
<1>7. S \ OverQuota(S, grant) = Kept
  BY <1>2 DEF OverQuota
<1> QED BY <1>6, <1>7

-----------------------------------------------------------------------------
(* The inductive invariant of the counter.                                 *)

(* No grant is larger than the job's list, and none is of a window to come. *)
QuotaBounds ==
    /\ window <= clock
    /\ \A j \in Jobs : /\ job[j].count <= NLeads
                       /\ job[j].window <= window /\ chargedIn[j] <= window

(* Only the cleanup of a job that is over runs _terminal_cleanup.          *)
CleanupOver ==
    \A j \in Jobs, a \in Attempts : At(j, a, "cleanup") => job[j].status \in Terminal

(* A metered job that is about to bill, or has billed, has its grant; an   *)
(* unlimited plan is granted nothing.                                      *)
GrantKept ==
    IF Metered
    THEN \A j \in Jobs :
           /\ job[j].billed => job[j].reserved
           /\ job[j].status \notin Terminal =>
                \A a \in Attempts : At(j, a, "final") => job[j].reserved
    ELSE \A j \in Jobs : job[j].count = 0

QuotaInv == OutcomeInv /\ QuotaBounds /\ CleanupOver /\ GrantKept /\ Conservation

-----------------------------------------------------------------------------
(* What a step does to the quota.                                          *)

(* Nothing, but that the clock may have crossed into the next window.      *)
QuotaIdle ==
    /\ \A i \in Jobs : /\ job'[i].reserved = job[i].reserved
                       /\ job'[i].count = job[i].count
                       /\ job'[i].window = job[i].window
                       /\ job'[i].billed = job[i].billed
    /\ UNCHANGED <<used, window, delivered, chargedIn>>
    /\ clock' >= clock

(* A job that is over gives back the grant it did not bill.                *)
Releases(j) ==
    /\ job[j].status \in Terminal
    /\ job[j].reserved /\ ~job[j].billed
    /\ job' = [job EXCEPT ![j].reserved = FALSE, ![j].count = 0]
    /\ used' = IF job[j].window = window THEN AtLeast0(used - job[j].count) ELSE used
    /\ UNCHANGED <<window, clock, delivered, chargedIn>>

(* A job without a grant is given one.                                     *)
Reserves(j, grant) ==
    /\ ~job[j].reserved
    /\ grant \in Granted(Cardinality(Rankable(j)))
    /\ job' = [job EXCEPT ![j].reserved = TRUE, ![j].count = grant, ![j].window = clock]
    /\ used' = Base + grant
    /\ window' = clock
    /\ UNCHANGED <<clock, delivered, chargedIn>>

LEMMA StatusWritesIdle ==
    ASSUME TypeOK, NEW j \in Jobs, UNCHANGED <<used, window, clock, delivered, chargedIn>>,
           \/ UNCHANGED job
           \/ job' = [job EXCEPT ![j].status = "active", ![j].started = TRUE]
           \/ job' = [job EXCEPT ![j].status = "pending", ![j].started = FALSE, ![j].retry = @ + 1]
           \/ \E s : job' = [job EXCEPT ![j].status = s]
    PROVE  QuotaIdle
<1>0. \A i \in Jobs : job[i] \in JobRow
  BY DEF TypeOK
<1>1. clock' >= clock
  BY DEF TypeOK
<1>2. CASE UNCHANGED job
  BY <1>1, <1>2 DEF QuotaIdle
<1>3. CASE job' = [job EXCEPT ![j].status = "active", ![j].started = TRUE]
  BY <1>0, <1>1, <1>3 DEF QuotaIdle, TypeOK, JobRow
<1>4. CASE job' = [job EXCEPT ![j].status = "pending", ![j].started = FALSE, ![j].retry = @ + 1]
  BY <1>0, <1>1, <1>4 DEF QuotaIdle, TypeOK, JobRow
<1>5. CASE \E s : job' = [job EXCEPT ![j].status = s]
  BY <1>0, <1>1, <1>5 DEF QuotaIdle, TypeOK, JobRow
<1> QED BY <1>2, <1>3, <1>4, <1>5

LEMMA QuotaMoves ==
    ASSUME TypeOK, CleanupOver, ExitsMatch, [Next]_vars
    PROVE  \/ QuotaIdle
           \/ RollWindow /\ UNCHANGED job
           \/ \E j \in Jobs : Releases(j)
           \/ \E j \in Jobs : \E grant \in Granted(Cardinality(Rankable(j))) : Reserves(j, grant)
           \/ \E j \in Jobs, a \in Attempts : Finalize(j, a)
<1> DEFINE Goal == \/ QuotaIdle
                   \/ RollWindow /\ UNCHANGED job
                   \/ \E j \in Jobs : Releases(j)
                   \/ \E j \in Jobs : \E grant \in Granted(Cardinality(Rankable(j))) :
                        Reserves(j, grant)
                   \/ \E j \in Jobs, a \in Attempts : Finalize(j, a)
<1>1. CASE UNCHANGED <<job, used, window, clock, delivered, chargedIn>>
  BY <1>1 DEF QuotaIdle, TypeOK
<1>2. ASSUME NEW j \in Jobs, Release(j), job[j].status \in Terminal,
             UNCHANGED <<window, clock, delivered, chargedIn>>
      PROVE  Goal
  <2>1. CASE UNCHANGED <<job, used>>
    BY <1>1, <1>2, <2>1
  <2>2. CASE ~UNCHANGED <<job, used>>
    BY <1>2, <2>2 DEF Release, Releases
  <2> QED BY <2>1, <2>2
<1>3. ASSUME NEW j \in Jobs, Claim(j) \/ Cancel(j) \/ Recover(j) PROVE Goal
  BY <1>3, StatusWritesIdle DEF Claim, Cancel, Recover, Requeue, GiveUp, Redeliver
<1>4. ASSUME NEW j \in Jobs, SweepReservation(j) PROVE Goal
  BY <1>2, <1>4 DEF SweepReservation
<1>5. CASE WindowEnds
  BY <1>5 DEF WindowEnds, QuotaIdle, TypeOK
<1>6. CASE RollWindow
  BY <1>6 DEF RollWindow
<1>7. ASSUME NEW j \in Jobs, NEW a \in Attempts, Work(j, a) PROVE Goal
  <2>1. CASE RetryScrape(j, a) \/ FailJob(j, a) \/ FailAfterUncaught(j, a)
    BY <2>1, StatusWritesIdle DEF RetryScrape, FailJob, FailAfterUncaught
  <2>2. CASE ReleaseAfterFail(j, a) \/ ReleaseOnCleanup(j, a) \/ ReleaseAfterUncaught(j, a)
    BY <1>2, <2>2 DEF ReleaseAfterFail, ReleaseOnCleanup, ReleaseAfterUncaught,
                      ReleaseStep, CleanupOver, ExitsMatch, At, Terminal
  <2>3. CASE ReserveAndCap(j, a)
    BY <2>3 DEF ReserveAndCap, Reserves
  <2>4. CASE Finalize(j, a)
    BY <2>4
  <2> QED BY <1>1, <1>7, <2>1, <2>2, <2>3, <2>4
          DEF Work, ScrapeOk, SaveRows, StartDedup, ClaimLeads, MarkDuplicates, Export,
              TakeUnheldClaim, TransferClaim, TransferDone, ReuseGrantAndCap,
              ReleaseParcelless, DeliveryFails, StopOnMiss, DropCancelledClaims,
              DropAfterUncaught
<1> QED BY <1>1, <1>3, <1>4, <1>5, <1>6, <1>7
        DEF Next, vars, Deliver, DeliverAgain, SweepClaims, WorkerDies

-----------------------------------------------------------------------------
(* The supporting parts.                                                   *)

(* A grant is a number, and no more than was asked for or is left.         *)
LEMMA GrantBounds ==
    ASSUME TypeOK, NEW j \in Jobs, NEW grant \in Granted(Cardinality(Rankable(j)))
    PROVE  /\ grant \in Nat /\ grant <= NLeads /\ Base \in Nat
           /\ ~Metered => grant = 0
           /\ grant = 0 \/ grant <= Limit - Base
<1>1. Rankable(j) \subseteq Leads
  BY DEF Rankable
<1>2. Cardinality(Rankable(j)) \in Nat /\ Cardinality(Rankable(j)) <= NLeads
  BY <1>1, ConstantsAssumption, LeadCounts, FS_Subset DEF NLeads, ConstantsAssumption
<1>3. Base \in Nat /\ Limit \in Nat
  BY ConstantsAssumption DEF ConstantsAssumption, Base, TypeOK
<1> QED BY <1>2, <1>3, NLeadsNat DEF Granted, Lesser, AtLeast0

(* What each kind of step leaves in the quota columns.                     *)
LEMMA ReserveColumns ==
    ASSUME TypeOK, NEW j \in Jobs, NEW grant, Reserves(j, grant)
    PROVE  /\ \A i \in Jobs \ {j} : job'[i] = job[i]
           /\ job'[j].reserved /\ job'[j].count = grant /\ job'[j].window = clock
           /\ job'[j].billed = job[j].billed
  BY DEF Reserves, TypeOK, JobRow

LEMMA ReleaseColumns ==
    ASSUME TypeOK, NEW j \in Jobs, Releases(j)
    PROVE  /\ \A i \in Jobs \ {j} : job'[i] = job[i]
           /\ ~job'[j].reserved /\ job'[j].count = 0 /\ ~job'[j].billed
           /\ job'[j].window = job[j].window
  BY DEF Releases, TypeOK, JobRow

LEMMA FinalizeColumns ==
    ASSUME TypeOK, NEW j \in Jobs, NEW a \in Attempts, Finalize(j, a)
    PROVE  /\ \A i \in Jobs \ {j} : /\ job'[i] = job[i]
                                    /\ delivered'[i] = delivered[i]
                                    /\ chargedIn'[i] = chargedIn[i]
           /\ job'[j].reserved = job[j].reserved /\ job'[j].count = job[j].count
           /\ job'[j].window = job[j].window /\ job'[j].billed
           /\ delivered'[j] = Deliverable(j) /\ chargedIn'[j] = clock
  BY DEF Finalize, TypeOK, JobRow

LEMMA BoundsStep ==
    ASSUME QuotaInv, [Next]_vars
    PROVE  QuotaBounds'
<1> USE DEF QuotaInv, OutcomeInv
<1>0. /\ NLeads \in Nat /\ window \in Nat /\ clock \in Nat /\ window <= clock
      /\ \A i \in Jobs : /\ job[i].count \in Nat /\ job[i].count <= NLeads
                         /\ job[i].window \in Nat /\ job[i].window <= window
                         /\ chargedIn[i] \in Nat /\ chargedIn[i] <= window
  BY NLeadsNat DEF QuotaBounds, TypeOK, JobRow
<1>00. NLeads' = NLeads
  BY DEF NLeads
<1>1. CASE QuotaIdle
  <2>1. clock' \in Nat
    BY TypeStep DEF TypeOK
  <2> QED BY <1>0, <1>00, <1>1, <2>1 DEF QuotaIdle, QuotaBounds
<1>2. CASE RollWindow /\ UNCHANGED job
  BY <1>0, <1>00, <1>2 DEF RollWindow, Rolling, QuotaBounds
<1>3. ASSUME NEW j \in Jobs, Releases(j) PROVE QuotaBounds'
  <2>1. UNCHANGED <<window, clock, chargedIn>>
    BY <1>3 DEF Releases
  <2> QED BY <1>0, <1>00, <1>3, <2>1, ReleaseColumns DEF QuotaBounds
<1>4. ASSUME NEW j \in Jobs, NEW grant \in Granted(Cardinality(Rankable(j))),
             Reserves(j, grant)
      PROVE  QuotaBounds'
  <2>1. window' = clock /\ UNCHANGED <<clock, chargedIn>>
    BY <1>4 DEF Reserves
  <2>2. grant <= NLeads
    BY GrantBounds
  <2> QED BY <1>0, <1>00, <1>4, <2>1, <2>2, ReserveColumns DEF QuotaBounds
<1>5. ASSUME NEW j \in Jobs, NEW a \in Attempts, Finalize(j, a) PROVE QuotaBounds'
  <2>1. window' = clock /\ UNCHANGED clock
    BY <1>5 DEF Finalize
  <2> QED BY <1>0, <1>00, <1>5, <2>1, FinalizeColumns DEF QuotaBounds
<1> QED BY <1>1, <1>2, <1>3, <1>4, <1>5, QuotaMoves

(* Only a miss on a job that is over sends an attempt to its cleanup.      *)
LEMMA CleanupStep ==
    ASSUME QuotaInv, [Next]_vars
    PROVE  CleanupOver'
<1> USE DEF QuotaInv, OutcomeInv
<1>1. ASSUME NEW i \in Jobs, NEW b \in Attempts, att'[i][b].pc = "cleanup"
      PROVE  job'[i].status \in Terminal
  <2>1. CASE att'[i][b] = att[i][b]
    BY <1>1, <2>1, OverIsOver DEF CleanupOver, At
  <2>2. CASE att'[i][b] # att[i][b]
    <3>1. ASSUME NEW pc, Goto(i, b, pc) PROVE pc = "cleanup"
      BY <1>1, <3>1, GotoPc
    <3>2. Work(i, b)
      <4>1. ~WorkerDies(i, b)
        BY <3>1 DEF WorkerDies
      <4> QED BY <1>1, <2>2, <4>1, WhoMoves
    <3>3. CASE ClaimLeads(i, b)
      BY <1>1, <3>3 DEF ClaimLeads, TypeOK
    <3>4. ASSUME NEW l \in Leads, TakeUnheldClaim(i, b, l) \/ TransferClaim(i, b, l)
          PROVE  FALSE
      BY <2>2, <3>4 DEF TakeUnheldClaim, TransferClaim
    <3>5. CASE StopOnMiss(i, b)
      BY <3>1, <3>5 DEF StopOnMiss, MissedExit
    <3>6. CASE FailJob(i, b)
      BY <3>1, <3>6 DEF FailJob, MissedExit
    <3> QED BY <3>1, <3>2, <3>3, <3>4, <3>5, <3>6
            DEF Work, ScrapeOk, SaveRows, StartDedup, RetryScrape, MarkDuplicates, Export,
                TransferDone, ReserveAndCap, ReuseGrantAndCap, Finalize, ReleaseParcelless,
                DeliveryFails, ReleaseAfterFail, ReleaseOnCleanup, ReleaseStep,
                DropCancelledClaims, FailAfterUncaught, ReleaseAfterUncaught,
                DropAfterUncaught
  <2> QED BY <2>1, <2>2
<1> QED BY <1>1 DEF CleanupOver, At

(* An attempt comes to the bill through the plan cap, and through it alone *)
(* when the plan is metered.                                               *)
LEMMA ToTheBill ==
    ASSUME TypeOK, [Next]_vars, NEW i \in Jobs, NEW b \in Attempts,
           att'[i][b] # att[i][b], att'[i][b].pc = "final"
    PROVE  \/ ReserveAndCap(i, b) \/ ReuseGrantAndCap(i, b)
           \/ TransferDone(i, b) /\ ~Metered
<1>1. ASSUME NEW pc, Goto(i, b, pc) PROVE pc = "final"
  BY <1>1, GotoPc
<1>2. Work(i, b)
  <2>1. ~WorkerDies(i, b)
    BY <1>1 DEF WorkerDies
  <2> QED BY <2>1, WhoMoves
<1>3. ~ClaimLeads(i, b)
  BY DEF ClaimLeads, TypeOK
<1>4. ASSUME NEW l \in Leads, TakeUnheldClaim(i, b, l) \/ TransferClaim(i, b, l)
      PROVE  FALSE
  BY <1>4 DEF TakeUnheldClaim, TransferClaim
<1>5. CASE TransferDone(i, b)
  BY <1>1, <1>5 DEF TransferDone
<1>6. ~StopOnMiss(i, b) /\ ~FailJob(i, b)
  BY <1>1 DEF StopOnMiss, FailJob, MissedExit
<1> QED BY <1>1, <1>2, <1>3, <1>4, <1>5, <1>6
        DEF Work, ScrapeOk, SaveRows, StartDedup, RetryScrape, MarkDuplicates, Export,
            Finalize, ReleaseParcelless, DeliveryFails, ReleaseAfterFail,
            ReleaseOnCleanup, ReleaseStep, DropCancelledClaims, FailAfterUncaught,
            ReleaseAfterUncaught, DropAfterUncaught

LEMMA GrantStep ==
    ASSUME QuotaInv, [Next]_vars
    PROVE  GrantKept'
<1> USE DEF QuotaInv, OutcomeInv
<1>1. CASE ~Metered
  <2>1. \A i \in Jobs : job[i].count = 0
    BY <1>1 DEF GrantKept
  <2>2. ASSUME NEW j \in Jobs, NEW grant \in Granted(Cardinality(Rankable(j))),
               Reserves(j, grant)
        PROVE  GrantKept'
    BY <1>1, <2>1, <2>2, GrantBounds, ReserveColumns DEF GrantKept
  <2>3. ASSUME NEW j \in Jobs, Releases(j) PROVE GrantKept'
    BY <1>1, <2>1, <2>3, ReleaseColumns DEF GrantKept
  <2>4. ASSUME NEW j \in Jobs, NEW a \in Attempts, Finalize(j, a) PROVE GrantKept'
    BY <1>1, <2>1, <2>4, FinalizeColumns DEF GrantKept
  <2>5. CASE QuotaIdle \/ (RollWindow /\ UNCHANGED job)
    BY <1>1, <2>1, <2>5 DEF GrantKept, QuotaIdle
  <2> QED BY <2>2, <2>3, <2>4, <2>5, QuotaMoves
<1>2. CASE Metered
  <2>1. ASSUME NEW i \in Jobs, job[i].reserved, job[i].billed \/ job[i].status \notin Terminal
        PROVE  job'[i].reserved
    <3>1. ~Releases(i)
      BY <2>1 DEF Releases
    <3>2. ASSUME NEW j \in Jobs, NEW grant, Reserves(j, grant) PROVE job'[i].reserved
      BY <2>1, <3>2, ReserveColumns
    <3>3. ASSUME NEW j \in Jobs, Releases(j) PROVE job'[i].reserved
      BY <2>1, <3>1, <3>3, ReleaseColumns
    <3>4. ASSUME NEW j \in Jobs, NEW a \in Attempts, Finalize(j, a) PROVE job'[i].reserved
      BY <2>1, <3>4, FinalizeColumns
    <3>5. CASE QuotaIdle \/ (RollWindow /\ UNCHANGED job)
      BY <2>1, <3>5 DEF QuotaIdle
    <3> QED BY <3>2, <3>3, <3>4, <3>5, QuotaMoves
  <2>2. ASSUME NEW i \in Jobs, job'[i].billed PROVE job'[i].reserved
    <3>1. CASE job[i].billed
      BY <1>2, <2>1, <3>1 DEF GrantKept
    <3>2. CASE ~job[i].billed
      <4>1. job'[i].status = "done" /\ job[i].status # "done"
        BY <2>2, <3>2, Outcomes DEF BilledIffDone
      <4>2. PICK a \in Attempts : Finalize(i, a)
        BY <4>1, DoneByFinalize
      <4>3. job[i].reserved
        BY <1>2, <4>2 DEF GrantKept, Finalize, Owns
      <4> QED BY <4>2, <4>3, FinalizeColumns
    <3> QED BY <3>1, <3>2
  <2>3. ASSUME NEW i \in Jobs, NEW b \in Attempts, job'[i].status \notin Terminal,
               att'[i][b].pc = "final"
        PROVE  job'[i].reserved
    <3>1. job[i].status \notin Terminal
      BY <2>3, OverIsOver
    <3>2. CASE att'[i][b] = att[i][b]
      BY <1>2, <2>1, <2>3, <3>1, <3>2 DEF GrantKept, At
    <3>3. CASE ReserveAndCap(i, b)
      BY <3>3 DEF ReserveAndCap, TypeOK, JobRow
    <3>4. CASE ReuseGrantAndCap(i, b)
      BY <3>4 DEF ReuseGrantAndCap
    <3> QED BY <1>2, <2>3, <3>2, <3>3, <3>4, ToTheBill
  <2> QED BY <1>2, <2>2, <2>3 DEF GrantKept, At
<1> QED BY <1>1, <1>2

-----------------------------------------------------------------------------
(* Conservation.                                                           *)

(* The share of each job in the counter.                                   *)
ShareOf == [i \in Jobs |-> UnitsOf(i)]

LEMMA UnitsAreShares ==
    /\ Units = UnitSet(ShareOf)
    /\ Units' = UnitSet(ShareOf')
  BY DEF Units, UnitSet, ShareOf, NLeads

LEMMA BillSize ==
    ASSUME NEW S, S \subseteq Leads
    PROVE  Cardinality(S) \in 0..NLeads
<1>1. Cardinality(S) \in Nat
  BY LeadCounts
<1>2. Cardinality(S) <= NLeads
  BY ConstantsAssumption, FS_Subset DEF ConstantsAssumption, NLeads
<1> QED BY <1>1, <1>2, NLeadsNat

LEMMA ShareRange ==
    ASSUME QuotaInv, [Next]_vars
    PROVE  ShareOf \in Shares /\ ShareOf' \in Shares
<1>1. TypeOK /\ QuotaBounds /\ TypeOK' /\ QuotaBounds' /\ NLeads' = NLeads
  BY TypeStep, BoundsStep DEF QuotaInv, OutcomeInv, NLeads
<1>2. ASSUME NEW i \in Jobs PROVE UnitsOf(i) \in 0..NLeads /\ UnitsOf(i)' \in 0..NLeads
  <2>1. job[i].count \in 0..NLeads /\ job'[i].count \in 0..NLeads
    BY <1>1, NLeadsNat DEF TypeOK, JobRow, QuotaBounds
  <2>2. Cardinality(delivered[i]) \in 0..NLeads /\ Cardinality(delivered'[i]) \in 0..NLeads
    BY <1>1, BillSize DEF TypeOK
  <2> QED BY <2>1, <2>2, NLeadsNat DEF UnitsOf
<1> QED BY <1>2 DEF ShareOf, Shares

LEMMA ConservationStep ==
    ASSUME QuotaInv, [Next]_vars
    PROVE  Conservation'
<1> USE DEF QuotaInv, OutcomeInv
<1>h. PICK h \in Shares : h = ShareOf
  BY ShareRange
<1>g. PICK g \in Shares : g = ShareOf'
  BY ShareRange
<1>1. /\ \A i \in Jobs : h[i] = UnitsOf(i) /\ g[i] = UnitsOf(i)'
      /\ Units = UnitSet(h) /\ Units' = UnitSet(g)
  BY <1>h, <1>g, UnitsAreShares DEF ShareOf
<1>2. /\ used = Cardinality(UnitSet(h)) /\ used \in Nat
      /\ Conservation' <=> used' = Cardinality(UnitSet(g))
  BY <1>1 DEF Conservation, TypeOK
<1>3. \A i \in Jobs : h[i] \in Nat /\ g[i] \in Nat
  BY NLeadsNat DEF Shares
<1>4. /\ window \in Nat /\ clock \in Nat /\ window <= clock
      /\ \A i \in Jobs : /\ job[i].window \in Nat /\ job[i].window <= window
                         /\ chargedIn[i] \in Nat /\ chargedIn[i] <= window
                         /\ job[i].count \in Nat
  BY DEF QuotaBounds, TypeOK, JobRow
<1>5. Cardinality(UnitSet(g)) \in Nat /\ Cardinality(UnitSet(h)) \in Nat
  BY UnitSetFinite
<1> DEFINE z == [i \in Jobs |-> 0]
<1>6. z \in Shares /\ Cardinality(UnitSet(z)) = 0 /\ \A i \in Jobs : z[i] = 0
  BY NLeadsNat, NoShares DEF Shares
<1> HIDE DEF z
<1>7. ASSUME NEW j \in Jobs, \A i \in Jobs \ {j} : g[i] = h[i],
             used' = used - h[j] + g[j]
      PROVE  Conservation'
  BY <1>2, <1>7, SharesMove
<1>8. ASSUME NEW j \in Jobs, \A i \in Jobs \ {j} : g[i] = 0, used' = g[j]
      PROVE  Conservation'
  <2>1. Cardinality(UnitSet(g)) = 0 - 0 + g[j]
    BY <1>6, <1>8, SharesMove
  <2> QED BY <1>2, <1>3, <1>8, <2>1
<1>9. CASE QuotaIdle
  <2>1. g = h
    BY <1>h, <1>g, <1>9 DEF QuotaIdle, ShareOf, UnitsOf
  <2> QED BY <1>2, <1>9, <2>1 DEF QuotaIdle
<1>10. CASE RollWindow /\ UNCHANGED job
  <2>1. \A i \in Jobs : g[i] = 0
    BY <1>1, <1>4, <1>10 DEF RollWindow, Rolling, UnitsOf
  <2> QED BY <1>2, <1>10, <2>1, NoShares DEF RollWindow
<1>11. ASSUME NEW j \in Jobs, Releases(j) PROVE Conservation'
  <2>1. UNCHANGED <<window, delivered, chargedIn>> /\ job[j].reserved /\ ~job[j].billed
    BY <1>11 DEF Releases
  <2>2. \A i \in Jobs \ {j} : g[i] = h[i]
    BY <1>1, <1>11, <2>1, ReleaseColumns DEF UnitsOf
  <2>3. g[j] = 0 /\ h[j] = IF job[j].window = window THEN job[j].count ELSE 0
    BY <1>1, <1>11, <2>1, ReleaseColumns DEF UnitsOf
  <2>4. used - h[j] >= 0
    BY <1>2, <1>3, <1>5, <2>2, <2>3, SharesMove
  <2>5. used' = used - h[j] + g[j]
    BY <1>2, <1>3, <1>11, <2>3, <2>4 DEF Releases, AtLeast0
  <2> QED BY <1>7, <2>2, <2>5
<1>12. ASSUME NEW j \in Jobs, NEW grant \in Granted(Cardinality(Rankable(j))),
              Reserves(j, grant)
       PROVE  Conservation'
  <2>1. /\ ~job[j].reserved /\ used' = Base + grant /\ window' = clock
        /\ UNCHANGED <<clock, delivered, chargedIn>>
    BY <1>12 DEF Reserves
  <2>2. grant \in Nat /\ (grant # 0 => ~job[j].billed)
    BY <2>1, GrantBounds DEF GrantKept
  <2>3. CASE Rolling
    <3>1. \A i \in Jobs \ {j} : g[i] = 0
      BY <1>1, <1>4, <1>12, <2>1, <2>3, ReserveColumns DEF UnitsOf, Rolling
    <3>2. g[j] = grant
      <4>1. window < clock /\ chargedIn'[j] # window'
        BY <1>4, <2>1, <2>3 DEF Rolling
      <4> QED BY <1>1, <1>12, <2>1, <2>2, <4>1, ReserveColumns DEF UnitsOf
    <3> QED BY <1>8, <2>1, <2>2, <2>3, <3>1, <3>2 DEF Base
  <2>4. CASE ~Rolling
    <3>1. window' = window
      BY <1>4, <2>1, <2>4 DEF Rolling
    <3>2. \A i \in Jobs \ {j} : g[i] = h[i]
      BY <1>1, <1>12, <2>1, <3>1, ReserveColumns DEF UnitsOf
    <3>3. g[j] = h[j] + grant
      <4>1. CASE job[j].billed
        <5>1. grant = 0 /\ g[j] = h[j]
          BY <1>1, <1>12, <2>1, <2>2, <3>1, <4>1, ReserveColumns DEF UnitsOf
        <5> QED BY <1>3, <5>1
      <4>2. CASE ~job[j].billed
        <5>1. h[j] = 0 /\ g[j] = grant
          BY <1>1, <1>12, <2>1, <4>2, ReserveColumns DEF UnitsOf
        <5> QED BY <2>2, <5>1
      <4> QED BY <4>1, <4>2
    <3>4. used' = used - h[j] + g[j]
      BY <1>2, <1>3, <2>1, <2>2, <2>4, <3>3 DEF Base
    <3> QED BY <1>7, <3>2, <3>4
  <2> QED BY <2>3, <2>4
<1>13. ASSUME NEW j \in Jobs, NEW a \in Attempts, Finalize(j, a) PROVE Conservation'
  <2>1. ~job[j].billed /\ window' = clock
    BY <1>13 DEF Finalize
  <2>2. g[j] = Cardinality(Deliverable(j))
    BY <1>1, <1>13, <2>1, FinalizeColumns DEF UnitsOf
  <2>3. CASE Rolling
    <3>1. \A i \in Jobs \ {j} : g[i] = 0
      BY <1>1, <1>4, <1>13, <2>1, <2>3, FinalizeColumns DEF UnitsOf, Rolling
    <3>2. used' = g[j]
      BY <1>3, <1>13, <2>2, <2>3 DEF Finalize, Base, AtLeast0
    <3> QED BY <1>8, <3>1, <3>2
  <2>4. CASE ~Rolling
    <3>1. window' = window
      BY <1>4, <2>1, <2>4 DEF Rolling
    <3>2. \A i \in Jobs \ {j} : g[i] = h[i]
      BY <1>1, <1>13, <3>1, FinalizeColumns DEF UnitsOf
    <3>3. h[j] = IF job[j].reserved /\ job[j].window = window /\ ~Rolling THEN job[j].count ELSE 0
      BY <1>1, <2>1, <2>4 DEF UnitsOf
    <3>4. used - h[j] + g[j] \in Nat
      BY <1>2, <1>5, <3>2, SharesMove
    <3>5. used' = AtLeast0(used + g[j] - h[j])
      BY <1>13, <2>2, <2>4, <3>3 DEF Finalize, Base
    <3>6. used' = used - h[j] + g[j]
      BY <1>2, <1>3, <3>4, <3>5 DEF AtLeast0
    <3> QED BY <1>7, <3>2, <3>6
  <2> QED BY <2>3, <2>4
<1> QED BY <1>9, <1>10, <1>11, <1>12, <1>13, QuotaMoves

LEMMA QuotaInvariant == Spec => []QuotaInv
<1>1. Init => QuotaInv
  <2> SUFFICES ASSUME Init PROVE QuotaInv
    OBVIOUS
  <2>1. OutcomeInv
    BY TypeInit DEF OutcomeInv, Init, BilledIffDone, ExitsMatch, At
  <2>2. QuotaBounds /\ CleanupOver /\ GrantKept
    BY NLeadsNat DEF Init, QuotaBounds, CleanupOver, GrantKept, At, Terminal
  <2>3. Conservation
    <3>1. \A i \in Jobs : ShareOf[i] = 0
      BY DEF ShareOf, UnitsOf, Init
    <3>2. Cardinality(Units) = 0
      BY <3>1, NoShares, UnitsAreShares
    <3> QED BY <3>2 DEF Conservation, Init
  <2> QED BY <2>1, <2>2, <2>3 DEF QuotaInv
<1>2. QuotaInv /\ [Next]_vars => QuotaInv'
  <2> SUFFICES ASSUME QuotaInv, [Next]_vars PROVE QuotaInv'
    OBVIOUS
  <2>1. OutcomeInv'
    BY TypeStep, Outcomes DEF QuotaInv, OutcomeInv
  <2> QED BY <2>1, BoundsStep, CleanupStep, GrantStep, ConservationStep DEF QuotaInv
<1> QED BY <1>1, <1>2, PTL DEF Spec

(* The counter of the user is exactly the units billed to its window and   *)
(* reserved in it, however reservations, settlements, releases, sweeps and *)
(* window rolls interleave, and whichever live workers the watchdog takes  *)
(* for dead (reserve_job_quota, _settle_user_charge,                       *)
(* release_quota_reservation, reconcile_quota_periods).                    *)
THEOREM QuotaConserved == Spec => []Conservation
<1>1. QuotaInv => Conservation
  BY DEF QuotaInv
<1> QED BY <1>1, QuotaInvariant, PTL

-----------------------------------------------------------------------------
(* What is billed fits the grant.                                          *)

(* The list an attempt is about to bill fits the grant of its job.         *)
ListFits ==
    Metered => \A j \in Jobs, a \in Attempts :
        job[j].status \notin Terminal /\ At(j, a, "final")
            => Cardinality(Deliverable(j)) <= job[j].count

FitInv == QuotaInv /\ DedupInv /\ ListFits /\ BilledWithinGrant

(* While the one live attempt of a job is at the bill, its list only       *)
(* shrinks: a lead is given back to the list by that attempt's transfer    *)
(* loop alone, and excluded from it by its plan cap alone.                 *)
LEMMA ListShrinks ==
    ASSUME TypeOK, SoleAttempt, [Next]_vars, NEW i \in Jobs, NEW b \in Attempts,
           At(i, b, "final"), att'[i][b] = att[i][b]
    PROVE  /\ capped'[i] = capped[i]
           /\ \A l \in Leads : rows'[i][l] = "new" => rows[i][l] = "new"
<1> DEFINE Goal == /\ capped'[i] = capped[i]
                   /\ \A l \in Leads : rows'[i][l] = "new" => rows[i][l] = "new"
<1>1. capped'[i] = capped[i]
  BY RowsKept DEF At
<1>2. ASSUME UNCHANGED rows PROVE Goal
  BY <1>1, <1>2
<1>3. ASSUME NEW j \in Jobs, NEW a \in Attempts, Work(j, a) PROVE Goal
  <2>1. i = j => a = b
    BY <1>3, WorkersAct DEF SoleAttempt, At
  <2>2. CASE SaveRows(j, a)
    BY <1>1, <2>1, <2>2 DEF SaveRows, TypeOK, At
  <2>3. CASE MarkDuplicates(j, a)
    BY <1>1, <2>3 DEF MarkDuplicates, TypeOK
  <2>4. CASE ReleaseParcelless(j, a)
    BY <1>1, <2>4 DEF ReleaseParcelless, TypeOK
  <2>5. ASSUME NEW k \in Leads, TakeUnheldClaim(j, a, k) PROVE Goal
    BY <1>1, <2>1, <2>5 DEF TakeUnheldClaim, TypeOK, At
  <2>6. ASSUME NEW k \in Leads, TransferClaim(j, a, k) PROVE Goal
    <3>1. claim[k] \in Jobs /\ claim[k] # j /\ i # j
      BY <2>1, <2>6 DEF TransferClaim, TypeOK, At
    <3> QED BY <1>1, <2>6, <3>1 DEF TransferClaim, TypeOK
  <2> QED BY <1>2, <1>3, <2>2, <2>3, <2>4, <2>5, <2>6
          DEF Work, ScrapeOk, StartDedup, RetryScrape, ClaimLeads, Export, TransferDone,
              ReserveAndCap, ReuseGrantAndCap, Finalize, DeliveryFails, StopOnMiss,
              FailJob, ReleaseAfterFail, ReleaseOnCleanup, ReleaseStep,
              DropCancelledClaims, FailAfterUncaught, ReleaseAfterUncaught,
              DropAfterUncaught
<1> QED BY <1>2, <1>3
        DEF Next, vars, Deliver, DeliverAgain, Claim, Cancel, Recover, Requeue, GiveUp,
            Redeliver, SweepReservation, WorkerDies, SweepClaims, WindowEnds, RollWindow

(* A grant that is about to be billed, or was, keeps its size.             *)
LEMMA GrantStays ==
    ASSUME QuotaInv, [Next]_vars, NEW i \in Jobs, job[i].reserved,
           job[i].billed \/ job[i].status \notin Terminal
    PROVE  job'[i].count = job[i].count
<1> USE DEF QuotaInv, OutcomeInv
<1>1. ASSUME NEW j \in Jobs, NEW grant, Reserves(j, grant)
      PROVE  job'[i].count = job[i].count
  <2>1. i # j
    BY <1>1 DEF Reserves
  <2> QED BY <1>1, <2>1, ReserveColumns
<1>2. ASSUME NEW j \in Jobs, Releases(j) PROVE job'[i].count = job[i].count
  <2>1. i # j
    BY <1>2 DEF Releases
  <2> QED BY <1>2, <2>1, ReleaseColumns
<1>3. ASSUME NEW j \in Jobs, NEW a \in Attempts, Finalize(j, a)
      PROVE  job'[i].count = job[i].count
  BY <1>3, FinalizeColumns
<1>4. CASE QuotaIdle \/ (RollWindow /\ UNCHANGED job)
  BY <1>4 DEF QuotaIdle
<1> QED BY <1>1, <1>2, <1>3, <1>4, QuotaMoves

LEMMA ListStep ==
    ASSUME FitInv, [Next]_vars
    PROVE  ListFits'
<1> USE DEF FitInv, QuotaInv, OutcomeInv
<1>1. ASSUME Metered, NEW i \in Jobs, NEW b \in Attempts, job'[i].status \notin Terminal,
             att'[i][b].pc = "final"
      PROVE  Cardinality(Deliverable(i)') <= job'[i].count
  <2>1. job[i].status \notin Terminal
    BY <1>1, OverIsOver
  <2>2. CASE att'[i][b] = att[i][b]
    <3>1. At(i, b, "final")
      BY <1>1, <2>2 DEF At
    <3>2. Deliverable(i)' \subseteq Deliverable(i)
      BY <2>2, <3>1, ListShrinks DEF DedupInv, Deliverable, IsActionable
    <3>3. Cardinality(Deliverable(i)) <= job[i].count
      BY <1>1, <2>1, <3>1 DEF ListFits
    <3>4. job[i].reserved
      BY <1>1, <2>1, <3>1 DEF GrantKept
    <3>5. job'[i].count = job[i].count
      BY <2>1, <3>4, GrantStays
    <3>6. IsFiniteSet(Deliverable(i)) /\ Cardinality(Deliverable(i)) \in Nat
      BY ConstantsAssumption, LeadCounts, FS_Subset DEF ConstantsAssumption, Deliverable
    <3>7. Cardinality(Deliverable(i)') <= Cardinality(Deliverable(i))
      BY <3>2, <3>6, FS_Subset
    <3>8. Cardinality(Deliverable(i)') \in Nat /\ job[i].count \in Nat
      BY <3>2, <3>6, FS_Subset, FS_CardinalityType DEF TypeOK, JobRow
    <3> QED BY <3>3, <3>5, <3>6, <3>7, <3>8
  <2>3. ASSUME NEW grant \in Nat, ApplyCap(i, b, grant), UNCHANGED rows, job'[i].count = grant
        PROVE  Cardinality(Deliverable(i)') <= job'[i].count
    <3>1. capped'[i] = OverQuota(Rankable(i), grant)
      BY <2>3 DEF ApplyCap, TypeOK
    <3>2. Deliverable(i)' = Rankable(i) \ OverQuota(Rankable(i), grant)
      BY <2>3, <3>1 DEF Deliverable, IsActionable, Rankable
    <3>3. Rankable(i) \subseteq Leads
      BY DEF Rankable
    <3> QED BY <2>3, <3>2, <3>3, CapFits
  <2>4. CASE ReserveAndCap(i, b)
    <3>1. PICK grant \in Granted(Cardinality(Rankable(i))) :
            /\ ApplyCap(i, b, grant)
            /\ job' = [job EXCEPT ![i].reserved = TRUE, ![i].count = grant, ![i].window = clock]
      BY <2>4 DEF ReserveAndCap
    <3>2. job'[i].count = grant
      BY <3>1 DEF TypeOK, JobRow
    <3>3. grant \in Nat /\ UNCHANGED rows
      BY <2>4, GrantBounds DEF ReserveAndCap
    <3> QED BY <2>3, <3>1, <3>2, <3>3
  <2>5. CASE ReuseGrantAndCap(i, b)
    <3>1. job[i].count \in Nat
      BY DEF TypeOK, JobRow
    <3> QED BY <2>3, <2>5, <3>1 DEF ReuseGrantAndCap
  <2> QED BY <1>1, <2>2, <2>4, <2>5, ToTheBill
<1> QED BY <1>1 DEF ListFits, At

LEMMA BillStep ==
    ASSUME FitInv, [Next]_vars
    PROVE  BilledWithinGrant'
<1> USE DEF FitInv, QuotaInv, OutcomeInv
<1>1. ASSUME Metered, NEW i \in Jobs
      PROVE  Cardinality(delivered'[i]) <= job'[i].count
  <2>1. CASE delivered'[i] # delivered[i]
    <3>1. PICK a \in Attempts : Finalize(i, a)
      BY <2>1, DoneByFinalize
    <3>2. Cardinality(Deliverable(i)) <= job[i].count
      BY <1>1, <3>1 DEF ListFits, Finalize, Owns
    <3> QED BY <3>1, <3>2, FinalizeColumns
  <2>2. CASE delivered'[i] = delivered[i] /\ delivered[i] = {}
    <3>1. job'[i].count \in Nat
      BY TypeStep DEF TypeOK, JobRow
    <3> QED BY <2>2, <3>1, FS_EmptySet
  <2>3. CASE delivered'[i] = delivered[i] /\ delivered[i] # {}
    <3>1. job[i].billed /\ job[i].reserved
      BY <1>1, <2>3 DEF DedupInv, DoneHeld, BilledIffDone, GrantKept
    <3>2. job'[i].count = job[i].count
      BY <3>1, GrantStays
    <3> QED BY <1>1, <2>3, <3>2 DEF BilledWithinGrant
  <2> QED BY <2>1, <2>2, <2>3
<1> QED BY <1>1 DEF BilledWithinGrant

LEMMA FitInvariant ==
    ASSUME Silent = {}
    PROVE  Spec => []FitInv
<1>1. Init => ListFits /\ BilledWithinGrant
  BY FS_EmptySet DEF Init, ListFits, BilledWithinGrant, At
<1>2. QuotaInv /\ DedupInv /\ ListFits /\ BilledWithinGrant /\ [Next]_vars
        => ListFits' /\ BilledWithinGrant'
  BY ListStep, BillStep DEF FitInv
<1> QED BY <1>1, <1>2, QuotaInvariant, DedupInvariant, PTL DEF Spec, FitInv

(* If no live worker looks dead to the watchdog (see the run overbilled),  *)
(* a metered run bills no more leads than the plan cap granted it: nothing *)
(* puts a lead back on the list between mark_over_quota_rows and           *)
(* finalize_billing_and_done, a later attempt ranks under the same grant,  *)
(* and the grant of a bill is never released.                              *)
THEOREM BillsFitGrants ==
    ASSUME Silent = {}
    PROVE  Spec => []BilledWithinGrant
<1>1. FitInv => BilledWithinGrant
  BY DEF FitInv
<1> QED BY <1>1, FitInvariant, PTL

-----------------------------------------------------------------------------
(* The grants of a window fit the limit.                                   *)

(* What each job has of the stored window's grants.                        *)
GrantOf == [i \in Jobs |-> IF job[i].window = window THEN UnitsOf(i) ELSE 0]

LEMMA GrantedUnits ==
    /\ {u \in Units : job[u[1]].window = window} = UnitSet(GrantOf)
    /\ {u \in Units : job[u[1]].window = window}' = UnitSet(GrantOf')
  BY NLeadsNat DEF Units, UnitSet, GrantOf, NLeads

LEMMA SharesShrink ==
    ASSUME NEW f \in Shares, NEW g \in Shares, \A i \in Jobs : g[i] <= f[i]
    PROVE  Cardinality(UnitSet(g)) <= Cardinality(UnitSet(f))
<1>1. \A i \in Jobs : f[i] \in Nat /\ g[i] \in Nat
  BY NLeadsNat DEF Shares
<1>2. UnitSet(g) \subseteq UnitSet(f)
  BY <1>1, NLeadsNat DEF UnitSet
<1> QED BY <1>2, UnitSetFinite, FS_Subset

LEMMA GrantsStep ==
    ASSUME FitInv, WithinQuota, [Next]_vars
    PROVE  WithinQuota'
<1> SUFFICES ASSUME Metered PROVE WithinQuota'
  BY DEF WithinQuota
<1> USE DEF FitInv, QuotaInv, OutcomeInv
<1>s. PICK s \in Shares : s = ShareOf
  BY ShareRange
<1>0. PICK s1 \in Shares : s1 = ShareOf'
  BY ShareRange
<1>u. \A i \in Jobs : UnitsOf(i) \in 0..NLeads /\ UnitsOf(i)' \in 0..NLeads
  <2>1. \A i \in Jobs : s[i] \in 0..NLeads /\ s1[i] \in 0..NLeads
    BY DEF Shares
  <2> QED BY <1>s, <1>0, <2>1 DEF ShareOf
<1>z. 0 \in 0..NLeads
  BY NLeadsNat
<1>h. PICK h \in Shares : h = GrantOf
  BY <1>u, <1>z DEF GrantOf, Shares
<1>g. PICK g \in Shares : g = GrantOf'
  BY <1>u, <1>z DEF GrantOf, Shares
<1>1. /\ \A i \in Jobs : h[i] = IF job[i].window = window THEN UnitsOf(i) ELSE 0
      /\ \A i \in Jobs : g[i] = IF job'[i].window = window' THEN UnitsOf(i)' ELSE 0
      /\ \A i \in Jobs : h[i] \in Nat /\ g[i] \in Nat
  BY <1>h, <1>g, NLeadsNat DEF GrantOf, Shares
<1>2. /\ Cardinality(UnitSet(h)) <= Limit
      /\ WithinQuota' <=> Cardinality(UnitSet(g)) <= Limit
      /\ Cardinality(UnitSet(h)) \in Nat /\ Cardinality(UnitSet(g)) \in Nat
  BY <1>h, <1>g, GrantedUnits, UnitSetFinite DEF WithinQuota
<1>3. /\ window \in Nat /\ clock \in Nat /\ window <= clock /\ used \in Nat /\ Limit \in Nat
      /\ \A i \in Jobs : /\ job[i].window \in Nat /\ job[i].window <= window
                         /\ job[i].count \in Nat
  BY ConstantsAssumption DEF ConstantsAssumption, QuotaBounds, TypeOK, JobRow
<1>4. ASSUME \A i \in Jobs : g[i] <= h[i] PROVE WithinQuota'
  BY <1>2, <1>3, <1>4, SharesShrink
<1>5. CASE QuotaIdle
  <2>1. g = h
    BY <1>h, <1>g, <1>5 DEF QuotaIdle, GrantOf, UnitsOf
  <2> QED BY <1>2, <2>1
<1>6. CASE RollWindow /\ UNCHANGED job
  <2>1. \A i \in Jobs : g[i] = 0
    BY <1>1, <1>3, <1>6 DEF RollWindow, Rolling
  <2> QED BY <1>1, <1>4, <2>1
<1>7. ASSUME NEW j \in Jobs, Releases(j) PROVE WithinQuota'
  <2>1. UNCHANGED <<window, delivered, chargedIn>>
    BY <1>7 DEF Releases
  <2>2. g[j] = 0 /\ \A i \in Jobs \ {j} : g[i] = h[i]
    BY <1>1, <1>7, <2>1, ReleaseColumns DEF UnitsOf
  <2> QED BY <1>1, <1>4, <2>2
<1>8. ASSUME NEW j \in Jobs, NEW a \in Attempts, Finalize(j, a) PROVE WithinQuota'
  <2>1. /\ ~job[j].billed /\ window' = clock
        /\ job[j].reserved /\ Cardinality(Deliverable(j)) <= job[j].count
    BY <1>8 DEF Finalize, Owns, GrantKept, ListFits
  <2>2. CASE Rolling
    <3>1. \A i \in Jobs : job'[i].window = job[i].window
      BY <1>8, FinalizeColumns
    <3>2. \A i \in Jobs : g[i] = 0
      BY <1>1, <1>3, <2>1, <2>2, <3>1 DEF Rolling
    <3> QED BY <1>1, <1>4, <3>2
  <2>3. CASE ~Rolling
    <3>1. window' = window
      BY <1>3, <2>1, <2>3 DEF Rolling
    <3>2. \A i \in Jobs \ {j} : g[i] = h[i]
      BY <1>1, <1>8, <3>1, FinalizeColumns DEF UnitsOf
    <3>3. CASE job[j].window = window
      <4>1. h[j] = job[j].count
        BY <1>1, <2>1, <3>3 DEF UnitsOf
      <4>2. g[j] \in {0, Cardinality(Deliverable(j))}
        BY <1>1, <1>8, FinalizeColumns DEF UnitsOf
      <4>3. g[j] <= h[j]
        BY <1>1, <2>1, <4>1, <4>2
      <4> QED BY <1>1, <1>4, <3>2, <4>3
    <3>4. CASE job[j].window # window
      <4>1. g[j] = 0
        BY <1>1, <1>8, <3>1, <3>4, FinalizeColumns
      <4> QED BY <1>1, <1>4, <3>2, <4>1
    <3> QED BY <3>3, <3>4
  <2> QED BY <2>2, <2>3
<1>9. ASSUME NEW j \in Jobs, NEW grant \in Granted(Cardinality(Rankable(j))),
             Reserves(j, grant)
      PROVE  WithinQuota'
  <2>1. /\ ~job[j].reserved /\ ~job[j].billed /\ window' = clock
        /\ UNCHANGED <<clock, delivered, chargedIn>>
    BY <1>9 DEF Reserves, GrantKept
  <2>2. grant \in Nat /\ (grant = 0 \/ grant <= Limit - Base)
    BY GrantBounds
  <2>3. g[j] = grant
    BY <1>1, <1>9, <2>1, ReserveColumns DEF UnitsOf
  <2>4. CASE Rolling
    <3> DEFINE z == [i \in Jobs |-> 0]
    <3>1. z \in Shares /\ Cardinality(UnitSet(z)) = 0 /\ \A i \in Jobs : z[i] = 0
      BY NLeadsNat, NoShares DEF Shares
    <3> HIDE DEF z
    <3>2. \A i \in Jobs \ {j} : g[i] = 0
      BY <1>1, <1>3, <1>9, <2>1, <2>4, ReserveColumns DEF Rolling
    <3>3. Cardinality(UnitSet(g)) = 0 - 0 + grant
      BY <2>3, <3>1, <3>2, SharesMove
    <3>4. grant <= Limit
      BY <1>3, <2>2, <2>4 DEF Base
    <3> QED BY <1>2, <2>2, <3>3, <3>4
  <2>5. CASE ~Rolling
    <3>1. window' = window
      BY <1>3, <2>1, <2>5 DEF Rolling
    <3>2. \A i \in Jobs \ {j} : g[i] = h[i]
      BY <1>1, <1>9, <2>1, <3>1, ReserveColumns DEF UnitsOf
    <3>3. h[j] = 0
      BY <1>1, <2>1 DEF UnitsOf
    <3>4. Cardinality(UnitSet(g)) = Cardinality(UnitSet(h)) - 0 + grant
      BY <2>3, <3>2, <3>3, SharesMove
    <3>5. Cardinality(UnitSet(h)) <= used
      <4>1. \A i \in Jobs : s[i] \in Nat /\ s[i] = UnitsOf(i)
        BY <1>s, NLeadsNat DEF Shares, ShareOf
      <4>2. \A i \in Jobs : h[i] <= s[i]
        BY <1>1, <4>1
      <4>3. used = Cardinality(UnitSet(s))
        BY <1>s, UnitsAreShares DEF Conservation
      <4> QED BY <4>2, <4>3, SharesShrink
    <3>6. CASE grant = 0
      BY <1>2, <3>4, <3>6
    <3>7. CASE grant <= Limit - used
      BY <1>2, <1>3, <2>2, <3>4, <3>5, <3>7
    <3> QED BY <2>2, <2>5, <3>6, <3>7 DEF Base
  <2> QED BY <2>4, <2>5
<1> QED BY <1>5, <1>6, <1>7, <1>8, <1>9, QuotaMoves

(* If no live worker looks dead to the watchdog, concurrent reservations   *)
(* never share the same allowance: what the jobs were granted in the       *)
(* stored window, billed or not, fits the limit (reserve_job_quota).       *)
THEOREM GrantsFitLimit ==
    ASSUME Silent = {}
    PROVE  Spec => []WithinQuota
<1>1. Init => WithinQuota
  <2> SUFFICES ASSUME Init, Metered PROVE WithinQuota
    BY DEF WithinQuota
  <2>1. \A i \in Jobs : GrantOf[i] = 0
    BY DEF GrantOf, UnitsOf, Init
  <2>2. Cardinality({u \in Units : job[u[1]].window = window}) = 0
    BY <2>1, NoShares, GrantedUnits
  <2>3. Limit \in Nat
    BY ConstantsAssumption DEF ConstantsAssumption
  <2> QED BY <2>2, <2>3 DEF WithinQuota
<1>2. FitInv /\ WithinQuota /\ [Next]_vars => WithinQuota'
  BY GrantsStep
<1> QED BY <1>1, <1>2, FitInvariant, PTL DEF Spec
=============================================================================
