---------------------------- MODULE ContactAction ----------------------------
(***************************************************************************)
(* "Look up contacts": a customer confirms a quote for leads of one run,   *)
(* which commits an action with a quoted verdict per lead; a worker claims *)
(* the leads into the paid queue under a lease; a reconciler re-publishes, *)
(* takes expired leases back, expires what never started and settles what  *)
(* was claimed, by the rows the action bought (api/routes/jobs.py,         *)
(* workers/contact_lookup_action.py, scheduler_helpers/contact_lookups.py, *)
(* workers/skip_trace_claim.py).                                           *)
(*                                                                         *)
(* The paid queue, PaidLookup's subject, is here as its rows may move;     *)
(* 'out' is submitting or submitted, 'stuck' a claim gone stale or a batch *)
(* that errored.  The task's message may come at any time and any number   *)
(* of times.  The count columns are recomputable from the verdicts and     *)
(* left out.                                                               *)
(***************************************************************************)
EXTENDS Integers, FiniteSets

CONSTANTS
    Leads,      \* leads of one delivered run
    Key,        \* [Leads -> answer keys]: leads of one key have one answer
    MaxActions, \* bound on the actions confirmed
    Workers,    \* lookup_contacts tasks that may run at the same time
    Scrape,     \* the buyer that is no action: the run's own enqueue
    NoOne       \* no lease, no action

ASSUME ActionConstants ==
    /\ IsFiniteSet(Leads) /\ DOMAIN Key = Leads
    /\ MaxActions \in Nat
    /\ Scrape \notin 1..MaxActions /\ NoOne \notin Workers \cup 1..MaxActions

Actions == 1..MaxActions
Buyers == Actions \cup {Scrape}

VARIABLES
    lead,      \* results.skip_trace_status of each lead
    rows,      \* rows[b][r]: the pending row of lead r that buyer b bought
    action,    \* the contact_lookup_actions rows
    verdict,   \* verdict[a][r]: the disposition of lead r in action a
    worker     \* where each task is

vars == <<lead, rows, action, verdict, worker>>
queueVars == <<lead, rows>>

(* Final row statuses, and the verdict the settlement derives from each.   *)
Derived ==
    [completed |-> "answered", unmatched_billed |-> "unmatched_billable",
     unmatched_free |-> "unmatched_unbilled", errored |-> "errored_unsubmitted",
     cancelled |-> "released"]

ActiveRow == {"queued", "out", "stuck"}
RowStatuses == {"none", "reused"} \cup ActiveRow \cup DOMAIN Derived
Answers == {Derived[s] : s \in DOMAIN Derived}
Billable == {"answered", "unmatched_billable"}
Bought == {"newly_queued"} \cup Answers
Verdicts == {"none", "quoted", "reused", "already_answered", "in_progress_elsewhere",
             "ineligible", "abandoned"} \cup Bought

ActionRow == [status : {"none", "dispatching", "running", "claimed", "settled", "failed",
                        "expired"},
              lease : Workers \cup {NoOne}, live : BOOLEAN, late : BOOLEAN, flag : BOOLEAN]
NoAction == [status |-> "none", lease |-> NoOne, live |-> FALSE, late |-> FALSE,
             flag |-> FALSE]
Idle == [at |-> "idle", act |-> NoOne]

Init ==
    /\ lead = [r \in Leads |-> "not_attempted"]
    /\ rows = [b \in Buyers |-> [r \in Leads |-> "none"]]
    /\ action = [a \in Actions |-> NoAction]
    /\ verdict = [a \in Actions |-> [r \in Leads |-> "none"]]
    /\ worker = [w \in Workers |-> Idle]

-----------------------------------------------------------------------------
(* Operators.                                                              *)

Is(a, status) == action[a].status = status
Ended(a) == action[a].status \in {"settled", "failed", "expired"}

(* The leads of action a with this verdict.                                *)
With(a, v) == {r \in Leads : verdict[a][r] = v}

Locked(a) == \E w \in Workers : worker[w] = [at |-> "locked", act |-> a]

(* Mutant: a move keeps the lease.                                         *)
MoveKeepsLease(a, to) == action' = [action EXCEPT ![a].status = to]

(* _move: every move but the one to 'running' clears the lease.  The       *)
(* deadline matters to an action that waits.                               *)
Move(a, to) ==
    action' = [action EXCEPT ![a] = [NoAction EXCEPT !.status = to,
                                                     !.late = to = "dispatching" /\ action[a].late]]

(* Mutant: the leads of an action that ended are left quoted.              *)
AbandonNone(a) == UNCHANGED verdict

Abandon(a) ==
    verdict' = [verdict EXCEPT ![a] =
                    [r \in Leads |-> IF @[r] = "quoted" THEN "abandoned" ELSE @[r]]]

(* Mutant: no fence, a task trusts the lease it once took.                 *)
HoldsLeaseUnfenced(w) == worker[w].at = "started"

(* The fence of T2: still running, under this task's unexpired lease.      *)
HoldsLease(w) ==
    LET a == worker[w].act
    IN  worker[w].at = "started" /\ Is(a, "running") /\ action[a].lease = w /\ action[a].live

Leave(w) == worker' = [worker EXCEPT ![w] = Idle]

RowsWith(k, statuses) ==
    {p \in Buyers \X Leads : Key[p[2]] = k /\ rows[p[1]][p[2]] \in statuses}

Cached(k) == RowsWith(k, {"completed"}) # {}
ChargedUnanswered(k) == RowsWith(k, {"unmatched_billed", "unmatched_free"}) # {}

-----------------------------------------------------------------------------
(* Quote and confirm.                                                      *)

(* A confirm turns a quote into the next action, once, and publishes its   *)
(* task.  The quote offered leads nobody had looked up; by now they may    *)
(* have been bought, and other quotes that offered them confirmed.         *)
Confirm(a, S) ==
    /\ Is(a, "none") /\ \A b \in Actions : b < a => ~Is(b, "none")
    /\ S # {}
    /\ action' = [action EXCEPT ![a].status = "dispatching"]
    /\ verdict' = [verdict EXCEPT ![a] = [r \in Leads |-> IF r \in S THEN "quoted" ELSE "none"]]
    /\ UNCHANGED <<queueVars, worker>>

-----------------------------------------------------------------------------
(* The task.                                                               *)

Idlers == {w \in Workers : worker[w].at = "idle"}

(* T1, committed alone: not after the deadline.                            *)
Start(w, a) ==
    /\ Idlers # {} /\ w = CHOOSE v \in Idlers : TRUE
    /\ Is(a, "dispatching") /\ ~action[a].late
    /\ action' = [action EXCEPT ![a].status = "running", ![a].lease = w, ![a].live = TRUE]
    /\ worker' = [worker EXCEPT ![w] = [at |-> "started", act |-> a]]
    /\ UNCHANGED <<queueVars, verdict>>

(* T2 locks the action and re-checks the lease, then takes the job's claim *)
(* lock.  now() is the transaction's start, so the lease holds to its end. *)
Lock(w) ==
    /\ HoldsLease(w) /\ \A a \in Actions : ~Locked(a)
    /\ worker' = [worker EXCEPT ![w].at = "locked"]
    /\ UNCHANGED <<queueVars, action, verdict>>

FencedOff(w) ==
    /\ worker[w].at = "started" /\ ~HoldsLease(w)
    /\ Leave(w)
    /\ UNCHANGED <<queueVars, action, verdict>>

(* The run is not delivered any more, the account may not buy, or the      *)
(* quoted set is not the one that was confirmed.                           *)
Fail(w) ==
    /\ worker[w].at = "locked" /\ Leave(w)
    /\ Move(worker[w].act, "failed") /\ Abandon(worker[w].act)
    /\ UNCHANGED queueVars

(* Lookups are switched off, the claim lock is busy, or T2 failed.         *)
Wait(w) ==
    /\ worker[w].at = "locked" \/ HoldsLease(w)
    /\ Leave(w) /\ Move(worker[w].act, "dispatching")
    /\ UNCHANGED <<queueVars, verdict>>

(* Mutant: the claim takes any lead the quote offered.                     *)
ClaimableQuoted(r) == TRUE

(* CLAIMABLE_RESULT_STATUS, checked again inside the claim's insert.       *)
Claimable(r) == lead[r] = "not_attempted"

(* The verdict on a quoted lead that cannot be claimed.                    *)
NotClaimed(r) ==
    CASE lead[r] = "queued" -> "in_progress_elsewhere"
      [] lead[r] = "answered" -> "already_answered"
      [] OTHER -> "ineligible"

(* Every quoted lead gets a verdict: one delivered before may be settled   *)
(* as charged without an answer (dead), one whose answer is known takes    *)
(* it, the other free ones are queued.                                     *)
Take(a, free, dead) ==
    LET known == {r \in free \ dead : Cached(Key[r])}
        queue == free \ (dead \cup known)
    IN  /\ verdict' = [verdict EXCEPT ![a] = [r \in Leads |->
               CASE @[r] # "quoted" -> @[r]
                 [] r \in queue -> "newly_queued"
                 [] r \in known -> "reused"
                 [] r \in dead -> "already_answered"
                 [] OTHER -> NotClaimed(r)]]
        /\ lead' = [r \in Leads |-> CASE r \in queue -> "queued"
                                      [] r \in known -> "answered"
                                      [] r \in dead -> "errored"
                                      [] OTHER -> lead[r]]
        /\ rows' = [rows EXCEPT ![a] = [r \in Leads |->
                                           IF r \in queue THEN "queued" ELSE @[r]]]

(* T2's one commit.  Of the claimable leads some are excluded by policy or *)
(* held back for the account's allowance, the others are free to take.     *)
Claim(w) ==
    /\ worker[w].at = "locked" /\ Leave(w)
    /\ Move(worker[w].act, "claimed")
    /\ \E free \in SUBSET {r \in With(worker[w].act, "quoted") : Claimable(r)} :
       \E dead \in SUBSET {r \in free : ChargedUnanswered(Key[r])} :
           Take(worker[w].act, free, dead)

WorkerDies(w) ==
    /\ worker[w].at # "idle"
    /\ Leave(w)
    /\ UNCHANGED <<queueVars, action, verdict>>

-----------------------------------------------------------------------------
(* The clock and the reconciler.  It skips an action a task has locked.    *)

(* The task's time limit is well under the lease; the fence does not rely  *)
(* on it, and neither does the model.                                      *)
LeaseExpires(a) ==
    /\ action[a].live
    /\ action' = [action EXCEPT ![a].live = FALSE]
    /\ UNCHANGED <<queueVars, verdict, worker>>

(* Thirty minutes since the confirm.                                       *)
Deadline(a) ==
    /\ action[a].status \in {"dispatching", "running"} /\ ~action[a].late
    /\ action' = [action EXCEPT ![a].late = TRUE]
    /\ UNCHANGED <<queueVars, verdict, worker>>

Expire(a) ==
    /\ Is(a, "dispatching") /\ action[a].late
    /\ Move(a, "expired") /\ Abandon(a)
    /\ UNCHANGED <<queueVars, worker>>

TakeBack(a) ==
    /\ Is(a, "running") /\ ~action[a].live /\ ~Locked(a)
    /\ Move(a, "dispatching")
    /\ UNCHANGED <<queueVars, verdict, worker>>

(* What the settlement sees of a claimed action.                           *)
Mappable(a) == {r \in With(a, "newly_queued") : rows[a][r] \in DOMAIN Derived}
Moving(a) == {r \in With(a, "newly_queued") : rows[a][r] \in ActiveRow}
Blocked(a) == \E r \in With(a, "newly_queued") : rows[a][r] = "stuck"

(* Mutant: an action with nothing active is not visited.                   *)
HasWorkMappable(a) == Mappable(a) # {} \/ (~action[a].flag /\ Blocked(a))
                        \/ (action[a].flag /\ ~Blocked(a))

(* The four groups of _p4_candidates, in its order.                        *)
HasWork(a) ==
    \/ Mappable(a) # {}
    \/ ~action[a].flag /\ Moving(a) = {}
    \/ ~action[a].flag /\ Blocked(a)
    \/ action[a].flag /\ ~Blocked(a)

(* Mutant: leads without an answer yet do not keep an action open.         *)
AllMappedEarly(a) == Blocked(a) \/ With(a, "newly_queued") = Mappable(a)

AllMapped(a) == With(a, "newly_queued") = Mappable(a)

(* A visit derives the verdicts it can, and settles the action when none   *)
(* is left; otherwise it flags it for a human while a lookup is stuck.     *)
Settle(a) ==
    /\ Is(a, "claimed") /\ HasWork(a)
    /\ verdict' = [verdict EXCEPT ![a] = [r \in Leads |->
                      IF r \in Mappable(a) THEN Derived[rows[a][r]] ELSE @[r]]]
    /\ action' = [action EXCEPT ![a].status = IF AllMapped(a) THEN "settled" ELSE @,
                                ![a].flag = ~AllMapped(a) /\ Blocked(a)]
    /\ UNCHANGED <<queueVars, worker>>

-----------------------------------------------------------------------------
(* The paid queue.                                                         *)

(* The run's own enqueue, or its repair: under the job's claim lock too,   *)
(* and with the same three outcomes.                                       *)
Enqueue(r) ==
    /\ lead[r] = "not_attempted" /\ \A a \in Actions : ~Locked(a)
    /\ \/ ChargedUnanswered(Key[r]) /\ lead' = [lead EXCEPT ![r] = "errored"] /\ UNCHANGED rows
       \/ Cached(Key[r]) /\ lead' = [lead EXCEPT ![r] = "answered"] /\ UNCHANGED rows
       \/ /\ ~Cached(Key[r])
          /\ lead' = [lead EXCEPT ![r] = "queued"]
          /\ rows' = [rows EXCEPT ![Scrape][r] = "queued"]
    /\ UNCHANGED <<action, verdict, worker>>

(* Row b of lead r goes from one status to another, and its lead with it.  *)
RowMoves(b, r, from, to, state) ==
    /\ rows[b][r] = from
    /\ rows' = [rows EXCEPT ![b][r] = to]
    /\ lead' = [lead EXCEPT ![r] = state]
    /\ UNCHANGED <<action, verdict, worker>>

(* One row of a key is out at a time, and none whose answer is known.      *)
Send(b, r) ==
    /\ RowsWith(Key[r], {"out", "stuck"}) = {} /\ ~Cached(Key[r])
    /\ RowMoves(b, r, "queued", "out", "queued")

(* The provider refused it for now, or for good.                           *)
SendFails(b, r) == RowMoves(b, r, "out", "queued", "queued")
                     \/ RowMoves(b, r, "out", "errored", "errored")

Sticks(b, r) == RowMoves(b, r, "out", "stuck", "queued")
Unsticks(b, r) == RowMoves(b, r, "stuck", "out", "queued")

(* The ingest: a match, or none, billed by what the account agreed to.     *)
Answer(b, r) ==
    \/ RowMoves(b, r, "out", "completed", "answered")
    \/ \E to \in {"unmatched_billed", "unmatched_free"} : RowMoves(b, r, "out", to, "errored")

(* The settle sweep: a queued row whose answer came in by another row.     *)
TakeKnown(b, r) ==
    \/ Cached(Key[r]) /\ RowMoves(b, r, "queued", "reused", "answered")
    \/ /\ ChargedUnanswered(Key[r]) /\ ~Cached(Key[r])
       /\ RowMoves(b, r, "queued", "cancelled", "errored")

(* The lead may not be looked up any more.                                 *)
Withdraw(b, r) == RowMoves(b, r, "queued", "cancelled", "not_attempted")

-----------------------------------------------------------------------------
Reconcile(a) == Expire(a) \/ TakeBack(a) \/ Settle(a)
Task(w) == Lock(w) \/ FencedOff(w) \/ Fail(w) \/ Wait(w) \/ Claim(w) \/ WorkerDies(w)
Queue(b, r) == Send(b, r) \/ SendFails(b, r) \/ Sticks(b, r) \/ Unsticks(b, r)
                 \/ Answer(b, r) \/ TakeKnown(b, r) \/ Withdraw(b, r)

Next ==
    \/ \E a \in Actions : \/ \E S \in SUBSET Leads : Confirm(a, S)
                          \/ LeaseExpires(a) \/ Deadline(a) \/ Reconcile(a)
                          \/ \E w \in Workers : Start(w, a)
    \/ \E w \in Workers : Task(w)
    \/ \E r \in Leads : Enqueue(r) \/ \E b \in Buyers : Queue(b, r)

Spec == Init /\ [][Next]_vars

(* The beat, the clock and a task that has locked its action go on; a row  *)
(* that is sent again and again is answered; a queued one is sent or taken *)
(* from a known answer.  Nothing is assumed of publishes, of tasks before  *)
(* they lock, or of a stuck lookup.                                        *)
Fairness ==
    /\ \A a \in Actions : WF_vars(LeaseExpires(a)) /\ WF_vars(Deadline(a))
                          /\ WF_vars(Reconcile(a))
    /\ \A w \in Workers : WF_vars(worker[w].at = "locked" /\ Task(w))
    /\ \A b \in Buyers, r \in Leads :
           SF_vars(Answer(b, r)) /\ SF_vars(Send(b, r)) /\ WF_vars(TakeKnown(b, r))

FairSpec == Spec /\ Fairness

-----------------------------------------------------------------------------
(* Properties.                                                             *)

(* The type invariant, with the columns that go together: a lease is held  *)
(* exactly while the action runs, and only a claimed one carries a flag.   *)
TypeOK ==
    /\ lead \in [Leads -> {"not_attempted", "queued", "answered", "errored"}]
    /\ rows \in [Buyers -> [Leads -> RowStatuses]]
    /\ action \in [Actions -> ActionRow]
    /\ \A a \in Actions : /\ action[a].lease # NoOne <=> Is(a, "running")
                          /\ action[a].live => Is(a, "running")
                          /\ action[a].flag => Is(a, "claimed")
    /\ verdict \in [Actions -> [Leads -> Verdicts]]
    /\ worker \in [Workers -> [at : {"idle", "started", "locked"},
                               act : Actions \cup {NoOne}]]

(* The action's verdicts and the queue agree whenever a worker dies, waits *)
(* or loses its lease: it has a queue row for exactly the leads its        *)
(* verdicts say it bought, none before it is claimed, and once it is past  *)
(* the claim no lead is left without a verdict.                            *)
LedgerMatchesQueue ==
    \A a \in Actions :
        /\ \A r \in Leads : rows[a][r] # "none" <=> verdict[a][r] \in Bought
        /\ (Is(a, "claimed") \/ Ended(a)) => With(a, "quoted") = {}
        /\ ~(Is(a, "claimed") \/ Is(a, "settled")) => \A r \in Leads : rows[a][r] = "none"

(* A lead is bought once: by one action or by its run, whoever quoted,     *)
(* confirmed and claimed it at the same time, save after a row that was    *)
(* withdrawn unsent.                                                       *)
NeverBoughtTwice ==
    \A r \in Leads : \A b, c \in Buyers :
        rows[b][r] \notin {"none", "cancelled"} /\ rows[c][r] \notin {"none", "cancelled"}
            => b = c

(* A settled action states what was billed for it: no row of it can still  *)
(* be answered, and the billable verdicts are the billed rows.             *)
SettledStatesBilling ==
    \A a \in Actions : Is(a, "settled") => \A r \in Leads :
        /\ rows[a][r] \notin ActiveRow
        /\ verdict[a][r] \in Billable <=> rows[a][r] \in {"completed", "unmatched_billed"}

(* An action that ended stays as it ended and buys nothing more, whatever  *)
(* a late delivery or a task that lost its lease does.                     *)
EndedStays ==
    [][\A a \in Actions : Ended(a) =>
           /\ action'[a].status = action[a].status /\ verdict'[a] = verdict[a]
           /\ \A r \in Leads : rows[a][r] = "none" => rows'[a][r] = "none"]_vars

Confirmed(a) == ~Is(a, "none")

(* A human has been told: the action is flagged, or a lead of it waits for *)
(* its twin's answer, and the twin's stuck row was paged.                  *)
WithHuman(a) ==
    \/ action[a].flag /\ Blocked(a)
    \/ \E r \in Moving(a) : rows[a][r] = "queued" /\ RowsWith(Key[r], {"stuck"}) # {}

(* "settled once nothing is left": a confirmed action is settled, fails or *)
(* expires, or a human is told what it waits for.                          *)
EveryActionEnds == \A a \in Actions : Confirmed(a) ~> Ended(a) \/ WithHuman(a)

(* The same, of an action none of whose leads took its twin's answer while *)
(* it was queued.                                                          *)
ActionEnds ==
    \A a \in Actions :
        Confirmed(a) ~> Ended(a) \/ WithHuman(a) \/ \E r \in Leads : rows[a][r] = "reused"
=============================================================================
