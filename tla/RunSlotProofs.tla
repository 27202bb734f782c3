---------------------------- MODULE RunSlotProofs ----------------------------
(* Theorems about RunSlot, for any number of scrapers, jobs, attempts and  *)
(* starters.  The lemmas about a job that moves, jobs that are inserted    *)
(* and jobs that are cancelled together serve BatchRun too.                *)
EXTENDS RunSlot, FiniteSetTheorems, TLAPS

USE DEF JobsOf

LEMMA JobFacts ==
    /\ \A c \in Configs : MaxRuns[c] \in Nat
    /\ \A c \in Configs : \A n \in 1..MaxRuns[c] : <<c, n>> \in Jobs /\ <<c, n>> \in JobsOf(c)
    /\ \A c \in Configs : \A j \in JobsOf(c) : j \in Jobs
    /\ \A j \in Jobs : /\ j[1] \in Configs /\ j[2] \in 1..MaxRuns[j[1]]
                       /\ j = <<j[1], j[2]>> /\ j \in JobsOf(j[1])
<1>1. \A c \in Configs : MaxRuns[c] \in Nat
  BY SlotConstants DEF SlotConstants
<1>2. \A c \in Configs : JobsOf(c) \subseteq Jobs
  BY DEF Jobs
<1>3. ASSUME NEW j \in Jobs
      PROVE  /\ j[1] \in Configs /\ j[2] \in 1..MaxRuns[j[1]]
             /\ j = <<j[1], j[2]>> /\ j \in JobsOf(j[1])
  <2>1. PICK c \in Configs : j \in {c} \X (1..MaxRuns[c])
    BY DEF Jobs
  <2> QED BY <2>1
<1> QED BY <1>1, <1>2, <1>3

LEMMA RetryFacts ==
    /\ Attempts \subseteq Nat
    /\ \A j \in Jobs : MaxRetries[j] \in Nat
    /\ \A j \in Jobs : 0..MaxRetries[j] \subseteq Attempts
  BY SlotConstants DEF SlotConstants, Attempts

(* The jobs up to the n-th, counted.                                       *)
LEMMA Counted ==
    ASSUME NEW c, NEW n \in Nat
    PROVE  IsFiniteSet({c} \X (1..n)) /\ Cardinality({c} \X (1..n)) = n
<1>1. IsFiniteSet({c}) /\ Cardinality({c}) = 1
  BY FS_Singleton
<1>2. IsFiniteSet(1..n) /\ Cardinality(1..n) = n
  BY FS_Interval
<1>3. Cardinality({c} \X (1..n)) = 1 * n
  BY <1>1, <1>2, FS_Product
<1> QED BY <1>1, <1>2, <1>3, FS_Product

-----------------------------------------------------------------------------
(* The invariant, of one job's row and its live attempts.                  *)

Holds(j, row, attempts) ==
    /\ \A a \in attempts : a <= row.retry
    /\ row.status = "none" => attempts = {}
    /\ row.status = "active" => row.beat
    /\ row.old => row.status = "cancelled" /\ attempts = {}
    /\ row.retry \in attempts =>
           \/ row.status = "active"
           \/ row.status = "cancelled" /\ row.beat
           \/ row.status = "failed" /\ j \in Silent

(* A job that is over and whose worker, if it lives, is a superseded one:  *)
(* it will stay so.                                                        *)
Quiet(j) == Over(j) /\ ~Working(j)
QuietStays == \A j \in Jobs : Quiet(j) => Quiet(j)'

(* A job that was made is not unmade, and one that is over stays as it is. *)
StatusStays ==
    \A j \in Jobs : /\ job[j].status # "none" => job'[j].status # "none"
                    /\ Over(j) => job'[j].status = job[j].status


(* The jobs of a scraper are made in order, each when the last was over.   *)
InOrder(c) ==
    \E m \in 0..MaxRuns[c] : \A n \in 1..MaxRuns[c] :
        /\ job[<<c, n>>].status # "none" <=> n <= m
        /\ n < m => Over(<<c, n>>)

(* What a starter found, or stamped on its job, were quiet jobs.           *)
GoodLook(found) ==
    /\ IsLook(found)
    /\ \A c \in DOMAIN found : \A n \in 1..MaxRuns[c] : n <= found[c] => Quiet(<<c, n>>)
SeenQuiet(j) == \A n \in 1..MaxRuns[j[1]] : n <= job[j].seen => Quiet(<<j[1], n>>)

JobType == job \in [Jobs -> JobRow] /\ live \in [Jobs -> SUBSET Attempts]

JobInv ==
    /\ JobType
    /\ \A j \in Jobs : Holds(j, job[j], live[j]) /\ SeenQuiet(j)
    /\ \A c \in Configs : InOrder(c)

LookInv == DOMAIN look = Starters /\ \A s \in Starters : GoodLook(look[s])

-----------------------------------------------------------------------------
(* One job moves.                                                          *)
LEMMA OneMoves ==
    ASSUME JobInv, NEW j \in Jobs, NEW row \in JobRow, NEW attempts \in SUBSET Attempts,
           job' = [job EXCEPT ![j] = row], live' = [live EXCEPT ![j] = attempts],
           job[j].status # "none", row.status # "none", row.seen = job[j].seen,
           Over(j) => /\ row.status = job[j].status /\ row.retry = job[j].retry
                      /\ attempts \subseteq live[j],
           Holds(j, row, attempts)
    PROVE  JobInv' /\ QuietStays /\ StatusStays
<1>1. /\ JobType' /\ job'[j] = row /\ live'[j] = attempts
      /\ \A k \in Jobs : k # j => job'[k] = job[k] /\ live'[k] = live[k]
  BY DEF JobInv, JobType
<1>2. \A k \in Jobs : Over(k) => /\ job'[k].status = job[k].status
                                 /\ job'[k].retry = job[k].retry /\ live'[k] \subseteq live[k]
  BY <1>1
<1>3. QuietStays /\ StatusStays
  BY <1>1, <1>2 DEF QuietStays, StatusStays, Quiet, Working, Over
<1>4. \A k \in Jobs : Holds(k, job'[k], live'[k])
  BY <1>1 DEF JobInv
<1>5. ASSUME NEW k \in Jobs PROVE SeenQuiet(k)'
  <2>1. job'[k].seen = job[k].seen
    BY <1>1
  <2>2. \A n \in 1..MaxRuns[k[1]] : <<k[1], n>> \in Jobs
    BY JobFacts
  <2> QED BY <1>3, <2>1, <2>2 DEF JobInv, SeenQuiet, QuietStays
<1>6. ASSUME NEW c \in Configs PROVE InOrder(c)'
  <2>1. PICK m \in 0..MaxRuns[c] : \A n \in 1..MaxRuns[c] :
            (job[<<c, n>>].status # "none" <=> n <= m) /\ (n < m => Over(<<c, n>>))
    BY DEF JobInv, InOrder
  <2>2. \A n \in 1..MaxRuns[c] : <<c, n>> \in Jobs
    BY JobFacts
  <2>3. \A n \in 1..MaxRuns[c] : /\ job'[<<c, n>>].status # "none" <=> n <= m
                                 /\ n < m => Over(<<c, n>>)'
    <3> SUFFICES ASSUME NEW n \in 1..MaxRuns[c]
                 PROVE  /\ job'[<<c, n>>].status # "none" <=> n <= m
                        /\ n < m => Over(<<c, n>>)'
      OBVIOUS
    <3> DEFINE k == <<c, n>>
    <3>1. k \in Jobs /\ (job[k].status # "none" <=> n <= m) /\ (n < m => Over(k))
      BY <2>1, <2>2
    <3> HIDE DEF k
    <3>2. job'[k].status # "none" <=> job[k].status # "none"
      BY <1>1, <3>1
    <3>3. Over(k) => Over(k)'
      BY <1>2, <3>1 DEF Over
    <3> QED BY <3>1, <3>2, <3>3 DEF k
  <2> QED BY <2>3 DEF InOrder
<1> QED BY <1>1, <1>3, <1>4, <1>5, <1>6 DEF JobInv

(* Jobs that are active are cancelled together.                            *)
LEMMA ManyCancelled ==
    ASSUME JobInv, NEW T \in SUBSET Jobs, \A j \in T : Active(j),
           job' = [j \in Jobs |-> IF j \in T THEN [job[j] EXCEPT !.status = "cancelled"]
                                             ELSE job[j]],
           UNCHANGED live
    PROVE  JobInv' /\ QuietStays /\ StatusStays
<1>1. /\ \A j \in Jobs : job[j] \in JobRow
      /\ \A j \in T : job'[j] = [job[j] EXCEPT !.status = "cancelled"]
      /\ \A j \in Jobs : j \notin T => job'[j] = job[j]
  BY DEF JobInv, JobType
<1>2. /\ \A j \in Jobs : job'[j] \in JobRow /\ job'[j].seen = job[j].seen
                         /\ job'[j].retry = job[j].retry /\ job'[j].beat = job[j].beat
                         /\ job'[j].old = job[j].old
      /\ \A j \in T : job'[j].status = "cancelled"
  BY <1>1 DEF JobRow, Statuses
<1>3. JobType'
  BY <1>2 DEF JobInv, JobType
<1>4. \A j \in Jobs : (Over(j) => Over(j)') /\ (job'[j].status # "none" <=> job[j].status # "none")
  BY <1>1, <1>2 DEF Over, Active
<1>5. \A j \in Jobs : Over(j) => j \notin T
  BY DEF Over, Active
<1>6. QuietStays /\ StatusStays
  BY <1>1, <1>4, <1>5 DEF QuietStays, StatusStays, Quiet, Working, Over
<1>7. ASSUME NEW j \in Jobs PROVE Holds(j, job'[j], live'[j])
  <2>1. CASE j \notin T
    BY <1>1, <2>1 DEF JobInv
  <2>2. CASE j \in T
    <3>1. Holds(j, job[j], live[j]) /\ job[j].status \in {"pending", "active"}
      BY <2>2 DEF JobInv, Active
    <3> QED BY <1>2, <2>2, <3>1 DEF Holds
  <2> QED BY <2>1, <2>2
<1>8. ASSUME NEW j \in Jobs PROVE SeenQuiet(j)'
  <2>1. \A n \in 1..MaxRuns[j[1]] : <<j[1], n>> \in Jobs
    BY JobFacts
  <2> QED BY <1>2, <1>6, <2>1 DEF JobInv, SeenQuiet, QuietStays
<1>9. ASSUME NEW c \in Configs PROVE InOrder(c)'
  <2>1. PICK m \in 0..MaxRuns[c] : \A n \in 1..MaxRuns[c] :
            (job[<<c, n>>].status # "none" <=> n <= m) /\ (n < m => Over(<<c, n>>))
    BY DEF JobInv, InOrder
  <2>2. \A n \in 1..MaxRuns[c] : <<c, n>> \in Jobs
    BY JobFacts
  <2>3. \A n \in 1..MaxRuns[c] : /\ job'[<<c, n>>].status # "none" <=> n <= m
                                 /\ n < m => Over(<<c, n>>)'
    BY <1>4, <2>1, <2>2
  <2> QED BY <2>3 DEF InOrder
<1> QED BY <1>3, <1>6, <1>7, <1>8, <1>9 DEF JobInv

-----------------------------------------------------------------------------
(* What the counts say, and jobs are inserted.                             *)

LEMMA MadeCounts ==
    ASSUME NEW c \in Configs, NEW m \in 0..MaxRuns[c],
           \A n \in 1..MaxRuns[c] : job[<<c, n>>].status # "none" <=> n <= m
    PROVE  Made(c) = m
<1>1. {j \in JobsOf(c) : job[j].status # "none"} = {c} \X (1..m)
  BY JobFacts
<1>2. m \in Nat
  BY JobFacts
<1>3. Cardinality({c} \X (1..m)) = m
  BY <1>2, Counted
<1> QED BY <1>1, <1>3 DEF Made

LEMMA SettledCounts ==
    ASSUME JobInv, NEW c \in Configs
    PROVE  /\ Settled(c) \in Nat
           /\ \A n \in 1..MaxRuns[c] : n <= Settled(c) => Over(<<c, n>>)
<1>1. PICK m \in 0..MaxRuns[c] : \A n \in 1..MaxRuns[c] :
          (job[<<c, n>>].status # "none" <=> n <= m) /\ (n < m => Over(<<c, n>>))
  BY DEF JobInv, InOrder
<1>2. m \in Nat /\ MaxRuns[c] \in Nat /\ m <= MaxRuns[c]
  BY JobFacts
<1>3. \A n \in 1..MaxRuns[c] : Over(<<c, n>>) => n <= m
  BY <1>1 DEF Over
<1>4. ASSUME NEW k \in 0..m, \A n \in 1..MaxRuns[c] : Over(<<c, n>>) <=> n <= k
      PROVE  /\ Settled(c) \in Nat
             /\ \A n \in 1..MaxRuns[c] : n <= Settled(c) => Over(<<c, n>>)
  <2>1. {j \in JobsOf(c) : Over(j)} = {c} \X (1..k)
    BY <1>2, <1>4
  <2>2. k \in Nat
    BY <1>2
  <2>3. Settled(c) = k
    BY <2>1, <2>2, Counted DEF Settled
  <2> QED BY <1>2, <1>4, <2>2, <2>3
<1>5. CASE m = 0
  BY <1>2, <1>3, <1>4, <1>5
<1>6. CASE m # 0 /\ Over(<<c, m>>)
  <2>1. \A n \in 1..MaxRuns[c] : Over(<<c, n>>) <=> n <= m
    BY <1>1, <1>2, <1>3, <1>6
  <2> QED BY <1>2, <1>4, <2>1
<1>7. CASE m # 0 /\ ~Over(<<c, m>>)
  <2>1. \A n \in 1..MaxRuns[c] : Over(<<c, n>>) <=> n <= m - 1
    BY <1>1, <1>2, <1>3, <1>7
  <2>2. m - 1 \in 0..m
    BY <1>2, <1>7
  <2> QED BY <1>4, <2>1, <2>2
<1> QED BY <1>5, <1>6, <1>7

(* Every job of a scraper that may get one more is over.                   *)
LEMMA Inserted ==
    ASSUME JobInv, NEW found, GoodLook(found), Insert(found), UNCHANGED live
    PROVE  /\ JobInv' /\ QuietStays /\ StatusStays
           /\ NewJobs(Insertable(found)) \subseteq Jobs
           /\ \A j \in NewJobs(Insertable(found)) : job'[j].status = "pending"
<1> DEFINE new == NewJobs(Insertable(found))
           row(c) == [NoJob EXCEPT !.status = "pending", !.seen = found[c]]
<1>1. ASSUME NEW c \in Insertable(found)
      PROVE  /\ c \in Configs /\ found[c] \in Nat
             /\ Made(c) + 1 \in 1..MaxRuns[c]
             /\ \A n \in 1..MaxRuns[c] :
                   /\ job[<<c, n>>].status # "none" <=> n <= Made(c)
                   /\ n <= Made(c) => Over(<<c, n>>)
  <2>1. c \in Configs /\ found[c] \in Nat /\ Made(c) < MaxRuns[c]
        /\ \A j \in JobsOf(c) : ~Active(j)
    BY DEF Insertable, GoodLook, IsLook
  <2>2. PICK m \in 0..MaxRuns[c] : \A n \in 1..MaxRuns[c] :
            (job[<<c, n>>].status # "none" <=> n <= m) /\ (n < m => Over(<<c, n>>))
    BY <2>1 DEF JobInv, InOrder
  <2>3. Made(c) = m
    BY <2>1, <2>2, MadeCounts
  <2>4. ASSUME NEW n \in 1..MaxRuns[c], n <= m PROVE Over(<<c, n>>)
    <3> DEFINE j == <<c, n>>
    <3>1. j \in Jobs /\ ~Active(j) /\ job[j].status # "none"
      BY <2>1, <2>2, <2>4, JobFacts
    <3>2. job[j].status \in Statuses
      BY <3>1 DEF JobInv, JobType, JobRow
    <3> QED BY <3>1, <3>2 DEF Active, Over, Statuses
  <2> QED BY <2>1, <2>2, <2>3, <2>4, JobFacts
<1>2. \A j \in Jobs : job'[j] = IF j \in new THEN row(j[1]) ELSE job[j]
  BY DEF Insert
<1>3. /\ new \subseteq Jobs
      /\ \A j \in new : /\ j[1] \in Insertable(found) /\ j = <<j[1], Made(j[1]) + 1>>
                        /\ job[j].status = "none"
  <2>1. new = {<<c, Made(c) + 1>> : c \in Insertable(found)}
    BY DEF NewJobs
  <2>2. ASSUME NEW c \in Insertable(found)
        PROVE  <<c, Made(c) + 1>> \in Jobs /\ job[<<c, Made(c) + 1>>].status = "none"
    <3> DEFINE p == Made(c) + 1
    <3>1. c \in Configs /\ MaxRuns[c] \in Nat /\ p \in 1..MaxRuns[c]
      BY <1>1, JobFacts
    <3>2. Made(c) \in Int => ~(p <= Made(c))
      OBVIOUS
    <3>3. Made(c) \in Nat
      <4>1. PICK m \in 0..MaxRuns[c] : \A n \in 1..MaxRuns[c] :
                (job[<<c, n>>].status # "none" <=> n <= m) /\ (n < m => Over(<<c, n>>))
        BY <3>1 DEF JobInv, InOrder
      <4> QED BY <3>1, <4>1, MadeCounts
    <3>4. job[<<c, p>>].status = "none"
      BY <1>1, <3>1, <3>2, <3>3
    <3> QED BY <3>1, <3>4, JobFacts
  <2> QED BY <2>1, <2>2
<1>4. ASSUME NEW j \in new
      PROVE  /\ row(j[1]) \in JobRow /\ row(j[1]).status = "pending" /\ row(j[1]).retry = 0
             /\ ~row(j[1]).old /\ row(j[1]).seen = found[j[1]]
  <2>1. 0 \in Attempts
    BY <1>3, RetryFacts
  <2>2. found[j[1]] \in Nat
    BY <1>1, <1>3
  <2> QED BY <2>1, <2>2 DEF NoJob, JobRow, Statuses
<1> HIDE DEF new, row
<1>5. /\ JobType' /\ \A j \in Jobs : live'[j] = live[j]
      /\ \A j \in Jobs : j \notin new => job'[j] = job[j]
      /\ \A j \in new : job'[j] = row(j[1]) /\ job'[j].status = "pending"
  <2>1. \A j \in Jobs : job'[j] \in JobRow
    BY <1>2, <1>4 DEF JobInv, JobType
  <2>2. job' = [j \in Jobs |-> job'[j]]
    BY DEF Insert
  <2>3. job' \in [Jobs -> JobRow]
    BY <2>1, <2>2
  <2> QED BY <1>2, <1>3, <1>4, <2>3 DEF JobInv, JobType
<1>6. \A j \in Jobs : Over(j) => job'[j] = job[j]
  BY <1>3, <1>5 DEF Over
<1>7. QuietStays /\ StatusStays
  BY <1>3, <1>5, <1>6 DEF QuietStays, StatusStays, Quiet, Working, Over
<1>8. ASSUME NEW j \in Jobs PROVE Holds(j, job'[j], live'[j])
  <2>1. CASE j \notin new
    BY <1>5, <2>1 DEF JobInv
  <2>2. CASE j \in new
    <3>1. live[j] = {}
      BY <1>3, <2>2 DEF JobInv, Holds
    <3>2. job'[j].status = "pending" /\ ~job'[j].old
      BY <1>4, <1>5, <2>2
    <3> QED BY <1>5, <3>1, <3>2 DEF Holds
  <2> QED BY <2>1, <2>2
<1>9. ASSUME NEW j \in Jobs PROVE SeenQuiet(j)'
  <2>1. \A n \in 1..MaxRuns[j[1]] : <<j[1], n>> \in Jobs
    BY JobFacts
  <2>2. CASE j \notin new
    BY <1>5, <1>7, <2>1, <2>2 DEF JobInv, SeenQuiet, QuietStays
  <2>3. CASE j \in new
    <3>1. job'[j].seen = found[j[1]] /\ j[1] \in DOMAIN found
      BY <1>3, <1>4, <1>5, <2>3 DEF Insertable
    <3>2. \A n \in 1..MaxRuns[j[1]] : n <= found[j[1]] => Quiet(<<j[1], n>>)
      BY <3>1 DEF GoodLook
    <3> QED BY <1>7, <2>1, <3>1, <3>2 DEF SeenQuiet, QuietStays
  <2> QED BY <2>2, <2>3
<1>10. ASSUME NEW c \in Configs PROVE InOrder(c)'
  <2>1. PICK m \in 0..MaxRuns[c] : \A n \in 1..MaxRuns[c] :
            (job[<<c, n>>].status # "none" <=> n <= m) /\ (n < m => Over(<<c, n>>))
    BY DEF JobInv, InOrder
  <2>2. \A n \in 1..MaxRuns[c] : <<c, n>> \in Jobs
    BY JobFacts
  <2>3. \A n \in 1..MaxRuns[c] : n < m => Over(<<c, n>>)'
    BY <1>6, <2>1, <2>2 DEF Over
  <2>4. CASE c \notin Insertable(found)
    <3>1. \A n \in 1..MaxRuns[c] : <<c, n>> \notin new
      BY <1>3, <2>4
    <3>2. \A n \in 1..MaxRuns[c] : job'[<<c, n>>] = job[<<c, n>>]
      BY <1>5, <2>2, <3>1
    <3> QED BY <2>1, <2>3, <3>2 DEF InOrder
  <2>5. CASE c \in Insertable(found)
    <3> DEFINE p == Made(c) + 1
    <3>1. /\ p \in 1..MaxRuns[c] /\ MaxRuns[c] \in Nat
          /\ \A n \in 1..MaxRuns[c] : (job[<<c, n>>].status # "none" <=> n < p)
                                      /\ (n < p => Over(<<c, n>>))
      <4>1. Made(c) = m
        BY <2>1, MadeCounts
      <4> QED BY <1>1, <2>5, <4>1, JobFacts
    <3>2. \A n \in 1..MaxRuns[c] : <<c, n>> \in new <=> n = p
      BY <2>5 DEF new, NewJobs
    <3> HIDE DEF p
    <3>3. ASSUME NEW n \in 1..MaxRuns[c]
          PROVE  (job'[<<c, n>>].status # "none" <=> n <= p) /\ (n < p => Over(<<c, n>>)')
      <4>1. CASE n = p
        BY <1>5, <3>1, <3>2, <4>1
      <4>2. CASE n # p
        <5>1. job'[<<c, n>>] = job[<<c, n>>]
          BY <1>5, <2>2, <3>2, <4>2
        <5> QED BY <3>1, <4>2, <5>1 DEF Over
      <4> QED BY <4>1, <4>2
    <3>4. p \in 0..MaxRuns[c]
      BY <3>1
    <3> QED BY <3>3, <3>4 DEF InOrder
  <2> QED BY <2>4, <2>5
<1> QED BY <1>3, <1>5, <1>7, <1>8, <1>9, <1>10 DEF JobInv, new

-----------------------------------------------------------------------------
(* What a starter finds.                                                   *)

(* A job that is over and holds no slot is quiet: nobody works for it.     *)
LEMMA QuietIfFree ==
    ASSUME JobInv, NEW j \in Jobs, Over(j), ~(job[j].status = "cancelled" /\ HoldsSlot(j))
    PROVE  Quiet(j)
<1>1. Holds(j, job[j], live[j])
  BY DEF JobInv
<1>2. job[j].old => live[j] = {}
  BY <1>1 DEF Holds
<1> QED BY <1>1, <1>2 DEF Holds, Over, HoldsSlot, Quiet, Working

(* The count of settled jobs is a good look at scrapers none of whose      *)
(* cancelled jobs holds the slot.                                          *)
LEMMA LookIsGood ==
    ASSUME JobInv, NEW S \in SUBSET Configs,
           \A c \in S : \A j \in JobsOf(c) : ~(job[j].status = "cancelled" /\ HoldsSlot(j))
    PROVE  GoodLook([c \in S |-> Settled(c)])
<1> DEFINE found == [c \in S |-> Settled(c)]
<1>1. IsLook(found)
  BY SettledCounts DEF IsLook
<1>2. ASSUME NEW c \in S, NEW n \in 1..MaxRuns[c], n <= Settled(c) PROVE Quiet(<<c, n>>)
  <2>1. <<c, n>> \in Jobs /\ <<c, n>> \in JobsOf(c)
    BY JobFacts
  <2>2. Over(<<c, n>>)
    BY <1>2, SettledCounts
  <2> QED BY <2>1, <2>2, QuietIfFree
<1> QED BY <1>1, <1>2 DEF GoodLook

(* A good look stays good.                                                 *)
LEMMA LooksStay ==
    ASSUME QuietStays, NEW found, GoodLook(found)
    PROVE  /\ IsLook(found)
           /\ \A c \in DOMAIN found : \A n \in 1..MaxRuns[c] : n <= found[c] => Quiet(<<c, n>>)'
<1>1. IsLook(found) /\ DOMAIN found \subseteq Configs
  BY DEF GoodLook, IsLook
<1> QED BY <1>1, JobFacts DEF GoodLook, QuietStays

LEMMA NoLookIsGood == GoodLook(NoLook)
  BY DEF GoodLook, NoLook, IsLook

(* A step that keeps the looks, but for one that becomes good or nothing.  *)
LEMMA LookInvStays ==
    ASSUME LookInv, QuietStays,
           \/ UNCHANGED look
           \/ \E s \in Starters : look' = [look EXCEPT ![s] = NoLook]
    PROVE  LookInv'
<1>1. DOMAIN look' = Starters
  BY DEF LookInv
<1>2. ASSUME NEW s \in Starters PROVE GoodLook(look[s])'
  <2>1. CASE look'[s] = NoLook
    <3>1. /\ IsLook(NoLook)
          /\ \A c \in DOMAIN NoLook : \A n \in 1..MaxRuns[c] : n <= NoLook[c] => Quiet(<<c, n>>)'
      BY DEF NoLook, IsLook
    <3> QED BY <2>1, <3>1 DEF GoodLook, IsLook
  <2>2. CASE look'[s] = look[s]
    <3>1. GoodLook(look[s])
      BY DEF LookInv
    <3>2. /\ IsLook(look[s])
          /\ \A c \in DOMAIN look[s] : \A n \in 1..MaxRuns[c] :
                 n <= look[s][c] => Quiet(<<c, n>>)'
      BY <3>1, LooksStay
    <3> QED BY <2>2, <3>2 DEF GoodLook, IsLook
  <2> QED BY <2>1, <2>2 DEF LookInv
<1> QED BY <1>1, <1>2 DEF LookInv

-----------------------------------------------------------------------------
(* The steps.                                                              *)

(* What moves one job: a user's cancel, its worker, the watchdog, time.    *)
JobStep(j) ==
    \/ Cancel(j) \/ Claim(j) \/ Recover(j) \/ Lapse(j)
    \/ \E a \in Attempts : Work(j, a) \/ Die(j, a)

LEMMA JobSteps ==
    ASSUME JobInv, NEW j \in Jobs, JobStep(j)
    PROVE  JobInv' /\ QuietStays /\ StatusStays /\ UNCHANGED look
<1> DEFINE r == job[j]
           pended == [r EXCEPT !.status = "pending", !.retry = @ + 1, !.beat = FALSE]
           Moves(row, attempts) == /\ job' = [job EXCEPT ![j] = row]
                                   /\ live' = [live EXCEPT ![j] = attempts]
<1>1. /\ r \in JobRow /\ live[j] \in SUBSET Attempts /\ Holds(j, r, live[j])
      /\ job \in [Jobs -> JobRow] /\ live \in [Jobs -> SUBSET Attempts]
      /\ r.retry \in Nat /\ live[j] \subseteq Nat
  BY RetryFacts DEF JobInv, JobType, JobRow
<1>2. job = [job EXCEPT ![j] = r] /\ live = [live EXCEPT ![j] = live[j]]
  BY <1>1
<1>3. ASSUME NEW row \in JobRow, NEW attempts \in SUBSET Attempts, Moves(row, attempts),
             r.status # "none", row.status # "none", row.seen = r.seen,
             Over(j) => row.status = r.status /\ row.retry = r.retry /\ attempts \subseteq live[j],
             Holds(j, row, attempts)
      PROVE  JobInv' /\ QuietStays /\ StatusStays
  BY <1>3, OneMoves
<1>4. ASSUME Active(j), r.retry < MaxRetries[j]
      PROVE  /\ pended \in JobRow /\ pended.status = "pending" /\ pended.retry = r.retry + 1
             /\ pended.old = r.old /\ pended.seen = r.seen
  <2>1. r.retry + 1 \in Attempts
    BY <1>1, <1>4, RetryFacts
  <2> QED BY <1>1, <2>1 DEF JobRow, Statuses
<1> HIDE DEF pended
<1>5. CASE Cancel(j)
  <2> DEFINE row == [r EXCEPT !.status = "cancelled"]
  <2>1. Active(j) /\ Moves(row, live[j]) /\ UNCHANGED look
    BY <1>1, <1>2, <1>5 DEF Cancel
  <2>2. row \in JobRow /\ row.status = "cancelled" /\ row.retry = r.retry /\ row.beat = r.beat
        /\ row.old = r.old /\ row.seen = r.seen
    BY <1>1 DEF JobRow, Statuses
  <2> HIDE DEF row
  <2>3. Holds(j, row, live[j])
    BY <1>1, <2>1, <2>2 DEF Holds, Active
  <2> QED BY <1>1, <1>3, <2>1, <2>2, <2>3 DEF Active, Over
<1>6. CASE Claim(j)
  <2> DEFINE row == [r EXCEPT !.status = "active", !.beat = TRUE]
  <2>1. r.status = "pending" /\ Moves(row, live[j] \cup {r.retry}) /\ UNCHANGED look
    BY <1>1, <1>6 DEF Claim
  <2>2. row \in JobRow /\ row.status = "active" /\ row.retry = r.retry /\ row.beat
        /\ row.old = r.old /\ row.seen = r.seen
    BY <1>1 DEF JobRow, Statuses
  <2> HIDE DEF row
  <2>3. Holds(j, row, live[j] \cup {r.retry}) /\ live[j] \cup {r.retry} \in SUBSET Attempts
    BY <1>1, <2>1, <2>2 DEF Holds, JobRow
  <2> QED BY <1>3, <2>1, <2>2, <2>3 DEF Over
<1>7. CASE Requeue(j)
  <2>1. r.status = "active" /\ r.retry < MaxRetries[j] /\ Moves(pended, live[j]) /\ UNCHANGED look
    BY <1>1, <1>2, <1>7 DEF Requeue, LooksDead, Pend, pended
  <2>2. Active(j)
    BY <2>1 DEF Active
  <2>3. Holds(j, pended, live[j])
    BY <1>1, <1>4, <2>1, <2>2 DEF Holds
  <2> QED BY <1>1, <1>3, <1>4, <2>1, <2>2, <2>3 DEF Over
<1>8. CASE GiveUp(j)
  <2> DEFINE row == [r EXCEPT !.status = "failed"]
  <2>1. LooksDead(j) /\ Moves(row, live[j]) /\ UNCHANGED look
    BY <1>1, <1>2, <1>8 DEF GiveUp
  <2>2. row \in JobRow /\ row.status = "failed" /\ row.retry = r.retry
        /\ row.old = r.old /\ row.seen = r.seen
    BY <1>1 DEF JobRow, Statuses
  <2> HIDE DEF row
  <2>3. Holds(j, row, live[j])
    BY <1>1, <2>1, <2>2 DEF Holds, LooksDead
  <2> QED BY <1>1, <1>3, <2>1, <2>2, <2>3 DEF LooksDead, Over
<1>9. CASE Lapse(j)
  <2> DEFINE row == [r EXCEPT !.old = TRUE]
  <2>1. r.status = "cancelled" /\ live[j] = {} /\ Moves(row, live[j]) /\ UNCHANGED look
    BY <1>1, <1>2, <1>9 DEF Lapse
  <2>2. row \in JobRow /\ row.status = "cancelled" /\ row.retry = r.retry
        /\ row.seen = r.seen
    BY <1>1, <2>1 DEF JobRow, Statuses
  <2> HIDE DEF row
  <2>3. Holds(j, row, live[j])
    BY <1>1, <2>1, <2>2 DEF Holds
  <2> QED BY <1>1, <1>3, <2>1, <2>2, <2>3
<1>10. ASSUME NEW a \in Attempts, Work(j, a) \/ Die(j, a)
       PROVE  JobInv' /\ QuietStays /\ StatusStays /\ UNCHANGED look
  <2> DEFINE left == live[j] \ {a}
  <2>1. /\ a \in live[j] /\ live' = [live EXCEPT ![j] = left] /\ UNCHANGED look
        /\ left \in SUBSET Attempts /\ r.status # "none" /\ a <= r.retry
    BY <1>1, <1>10 DEF Work, Die, Finish, RetryScrape, Exit, Leaves, Holds
  <2>2. ASSUME NEW end \in {"done", "failed"}, Owns(j, a),
               job' = [job EXCEPT ![j].status = end]
        PROVE  JobInv' /\ QuietStays /\ StatusStays
    <3> DEFINE row == [r EXCEPT !.status = end]
    <3>1. r.status = "active" /\ r.retry = a /\ Moves(row, left)
      BY <1>1, <2>1, <2>2 DEF Owns
    <3>2. row \in JobRow /\ row.status = end /\ row.retry = r.retry
          /\ row.old = r.old /\ row.seen = r.seen
      BY <1>1 DEF JobRow, Statuses
    <3> HIDE DEF row
    <3>3. Holds(j, row, left)
      BY <1>1, <3>1, <3>2 DEF Holds
    <3> QED BY <1>3, <2>1, <3>1, <3>2, <3>3 DEF Over
  <2>3. ASSUME Owns(j, a), a < MaxRetries[j], Pend(j)
        PROVE  JobInv' /\ QuietStays /\ StatusStays
    <3>1. r.status = "active" /\ r.retry = a /\ Moves(pended, left)
      BY <1>1, <2>1, <2>3 DEF Owns, Pend, pended
    <3>2. Active(j)
      BY <3>1 DEF Active
    <3>3. Holds(j, pended, left)
      BY <1>1, <1>4, <2>3, <3>1, <3>2 DEF Holds
    <3> QED BY <1>3, <1>4, <2>1, <2>3, <3>1, <3>2, <3>3 DEF Over
  <2>4. ASSUME Acknowledges(j, a), job' = [job EXCEPT ![j].beat = FALSE]
        PROVE  JobInv' /\ QuietStays /\ StatusStays
    <3> DEFINE row == [r EXCEPT !.beat = FALSE]
    <3>1. r.status = "cancelled" /\ r.retry = a /\ Moves(row, left)
      BY <1>1, <2>1, <2>4 DEF Acknowledges
    <3>2. row \in JobRow /\ row.status = r.status /\ row.retry = r.retry
          /\ row.old = r.old /\ row.seen = r.seen
      BY <1>1 DEF JobRow
    <3> HIDE DEF row
    <3>3. Holds(j, row, left)
      BY <1>1, <3>1, <3>2 DEF Holds
    <3> QED BY <1>3, <2>1, <3>1, <3>2, <3>3
  <2>5. ASSUME UNCHANGED job
        PROVE  JobInv' /\ QuietStays /\ StatusStays
    <3>1. Moves(r, left)
      BY <1>2, <2>1, <2>5
    <3>2. Holds(j, r, left)
      BY <1>1 DEF Holds
    <3> QED BY <1>1, <1>3, <2>1, <3>1, <3>2
  <2> QED
    BY <1>10, <2>1, <2>2, <2>3, <2>4, <2>5 DEF Work, Die, Finish, RetryScrape, Exit
<1> QED BY <1>5, <1>6, <1>7, <1>8, <1>9, <1>10 DEF JobStep, Recover

(* A starter's insert.                                                     *)
LEMMA EnterStep ==
    ASSUME JobInv, LookInv, NEW s \in Starters, Enter(s)
    PROVE  JobInv' /\ LookInv' /\ QuietStays /\ StatusStays
<1>1. GoodLook(look[s])
  BY DEF LookInv
<1>2. JobInv' /\ QuietStays /\ StatusStays
  BY <1>1, Inserted DEF Enter
<1> QED BY <1>2, LookInvStays DEF Enter

(* A look becomes a good one.                                              *)
LEMMA LookStep ==
    ASSUME JobInv, LookInv, NEW s \in Starters, NEW found, GoodLook(found),
           look' = [look EXCEPT ![s] = found], UNCHANGED <<job, live>>
    PROVE  JobInv' /\ LookInv' /\ QuietStays /\ StatusStays
<1>1. JobInv' /\ (\A j \in Jobs : Quiet(j) <=> Quiet(j)')
  BY DEF JobInv, JobType, SeenQuiet, InOrder, Quiet, Over, Working
<1>2. QuietStays /\ StatusStays
  BY <1>1 DEF QuietStays, StatusStays
<1>3. DOMAIN look' = Starters
  BY DEF LookInv
<1>4. ASSUME NEW q \in Starters PROVE GoodLook(look[q])'
  <2>1. GoodLook(look'[q])
    BY DEF LookInv
  <2>2. /\ IsLook(look'[q])
        /\ \A c \in DOMAIN look'[q] : \A n \in 1..MaxRuns[c] :
               n <= look'[q][c] => Quiet(<<c, n>>)'
    BY <1>2, <2>1, LooksStay
  <2> QED BY <2>2 DEF GoodLook, IsLook
<1> QED BY <1>1, <1>2, <1>3, <1>4 DEF LookInv

SlotInv == JobInv /\ LookInv

LEMMA SlotInitInv == SlotInit => SlotInv
<1> SUFFICES ASSUME SlotInit PROVE SlotInv
  OBVIOUS
<1>1. ASSUME NEW j \in Jobs
      PROVE  NoJob \in JobRow /\ Holds(j, job[j], live[j]) /\ SeenQuiet(j)
  <2>1. 0 \in Attempts
    BY RetryFacts
  <2> QED BY <2>1 DEF SlotInit, NoJob, JobRow, Statuses, Holds, SeenQuiet
<1>2. JobType
  BY <1>1 DEF SlotInit, JobType
<1>3. ASSUME NEW c \in Configs PROVE InOrder(c)
  <2>1. \A n \in 1..MaxRuns[c] : job[<<c, n>>].status = "none"
    BY JobFacts DEF SlotInit, NoJob
  <2>2. 0 \in 0..MaxRuns[c]
    BY JobFacts
  <2> QED BY <2>1, <2>2 DEF InOrder
<1>4. LookInv
  BY NoLookIsGood DEF SlotInit, LookInv
<1> QED BY <1>1, <1>2, <1>3, <1>4 DEF SlotInv, JobInv

LEMMA SlotSteps ==
    ASSUME SlotInv, [SlotNext]_slotVars
    PROVE  SlotInv' /\ QuietStays /\ StatusStays
<1> DEFINE Kept == JobInv' /\ LookInv' /\ QuietStays /\ StatusStays
<1> USE DEF SlotInv
<1>1. ASSUME NEW s \in Starters, Enter(s) PROVE Kept
  BY <1>1, EnterStep
<1>2. ASSUME NEW s \in Starters, NEW c \in Configs, Look(s, c) PROVE Kept
  <2>1. GoodLook([d \in {c} |-> Settled(d)])
    BY <1>2, LookIsGood DEF Look, SlotHeld
  <2> QED BY <1>2, <2>1, LookStep DEF Look
<1>3. ASSUME NEW j \in Jobs, JobStep(j) PROVE Kept
  BY <1>3, JobSteps, LookInvStays
<1>4. CASE UNCHANGED slotVars
  BY <1>4 DEF slotVars, JobInv, JobType, LookInv, GoodLook, SeenQuiet, InOrder,
              Quiet, QuietStays, StatusStays, Over, Working
<1> QED BY <1>1, <1>2, <1>3, <1>4 DEF SlotNext, JobStep

-----------------------------------------------------------------------------
(* The theorems.                                                           *)

LEMMA InvIsTyped == SlotInv => SlotTypeOK
  BY DEF SlotInv, JobInv, JobType, LookInv, GoodLook, SlotTypeOK

LEMMA InvHoldsSlot == SlotInv => WorkerHoldsSlot
  BY DEF SlotInv, JobInv, Holds, WorkerHoldsSlot, HoldsSlot, Active

LEMMA InvExclusive == SlotInv => SlotExclusive
<1> SUFFICES ASSUME SlotInv, NEW j \in Jobs, NEW k \in Jobs,
                    j[1] = k[1], Working(j), Working(k)
             PROVE  job[k].seen < j[2]
  BY DEF SlotExclusive
<1>1. SeenQuiet(k) /\ job[k].seen \in Nat
  BY DEF SlotInv, JobInv, JobType, JobRow
<1>2. j[2] \in 1..MaxRuns[k[1]] /\ j = <<k[1], j[2]>> /\ MaxRuns[k[1]] \in Nat
  BY JobFacts
<1>3. ~Quiet(j)
  BY DEF Quiet
<1> QED BY <1>1, <1>2, <1>3 DEF SeenQuiet

LEMMA SlotInvariant == SlotSpec => []SlotInv
<1>1. SlotInv /\ [SlotNext]_slotVars => SlotInv'
  BY SlotSteps
<1> QED BY <1>1, SlotInitInv, PTL DEF SlotSpec

(* The types, for any number of scrapers, jobs and starters.               *)
THEOREM SlotTypes == SlotSpec => []SlotTypeOK
  BY SlotInvariant, InvIsTyped, PTL

(* A worker whose attempt is current keeps its scraper's slot, unless the  *)
(* watchdog gave up on it (holds_run_slot, _ack_exit_sql).                 *)
THEOREM SlotKept == SlotSpec => []WorkerHoldsSlot
  BY SlotInvariant, InvHoldsSlot, PTL

(* No starter passes a cancelled run it could see: two workers of one      *)
(* scraper need a look from before the earlier job settled                 *)
(* (config_run_eligibility, _scheduled_dispatch_blocker_exists).           *)
THEOREM SlotIsExclusive == SlotSpec => []SlotExclusive
  BY SlotInvariant, InvExclusive, PTL
=============================================================================
