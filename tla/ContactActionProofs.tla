------------------------- MODULE ContactActionProofs -------------------------
(* Theorems about ContactAction, for every value of its constants: any     *)
(* number of leads, twins, actions and tasks.                              *)
EXTENDS ContactAction, TLAPS

USE DEF Actions, Buyers, queueVars, Is, Ended, With

(* What the settlement derives, spelled out.                               *)
LEMMA DerivedFacts ==
    /\ DOMAIN Derived = {"completed", "unmatched_billed", "unmatched_free", "errored",
                         "cancelled"}
    /\ Answers = {"answered", "unmatched_billable", "unmatched_unbilled",
                  "errored_unsubmitted", "released"}
    /\ Derived["completed"] = "answered" /\ Derived["unmatched_billed"] = "unmatched_billable"
    /\ Derived["unmatched_free"] = "unmatched_unbilled"
    /\ Derived["errored"] = "errored_unsubmitted" /\ Derived["cancelled"] = "released"
  BY DEF Derived, Answers

LEMMA StatusFacts ==
    /\ RowStatuses = {"none", "reused", "queued", "out", "stuck", "completed",
                      "unmatched_billed", "unmatched_free", "errored", "cancelled"}
    /\ Bought = {"newly_queued", "answered", "unmatched_billable", "unmatched_unbilled",
                 "errored_unsubmitted", "released"}
    /\ Verdicts = {"none", "quoted", "reused", "already_answered", "in_progress_elsewhere",
                   "ineligible", "abandoned"} \cup Bought
    /\ "none" \in RowStatuses /\ "none" \in Verdicts
  BY DerivedFacts DEF RowStatuses, Bought, Verdicts, ActiveRow

(* What a move makes of the action's row.                                  *)
LEMMA MoveRow ==
    ASSUME TypeOK, NEW a \in Actions, NEW to, Move(a, to),
           to \in {"dispatching", "claimed", "failed", "expired"}
    PROVE  /\ action' \in [Actions -> ActionRow]
           /\ action'[a].status = to /\ action'[a].lease = NoOne
           /\ ~action'[a].live /\ ~action'[a].flag
           /\ \A c \in Actions : c # a => action'[c] = action[c]
<1>1. action \in [Actions -> ActionRow] /\ action[a] \in ActionRow
  BY DEF TypeOK
<1>2. action[a].late \in BOOLEAN
  BY <1>1 DEF ActionRow
<1>3. action' = [action EXCEPT ![a] = [NoAction EXCEPT !.status = to,
                                         !.late = to = "dispatching" /\ action[a].late]]
  BY DEF Move
<1> DEFINE row == [NoAction EXCEPT !.status = to, !.late = to = "dispatching" /\ action[a].late]
<1>4. /\ row \in ActionRow /\ row.status = to /\ row.lease = NoOne
      /\ ~row.live /\ ~row.flag
  BY <1>2 DEF NoAction, ActionRow
<1> HIDE DEF row
<1>5. action' = [action EXCEPT ![a] = row]
  BY <1>3 DEF row
<1> QED BY <1>1, <1>4, <1>5

-----------------------------------------------------------------------------
(* Type correctness, and the lock: a task that has locked its action holds *)
(* the running action's lease.                                             *)

LockInv ==
    \A w \in Workers :
        /\ worker[w].at # "idle" => worker[w].act \in Actions
        /\ worker[w].at = "locked" =>
               Is(worker[w].act, "running") /\ action[worker[w].act].lease = w

TypeInv == TypeOK /\ LockInv

(* TypeOK, part by part.                                                   *)
LeadType == lead \in [Leads -> {"not_attempted", "queued", "answered", "errored"}]
RowsType == rows \in [Buyers -> [Leads -> RowStatuses]]
VerdictType == verdict \in [Actions -> [Leads -> Verdicts]]
WorkerType == worker \in [Workers -> [at : {"idle", "started", "locked"},
                                      act : Actions \cup {NoOne}]]
Columns(a) == /\ action[a].lease # NoOne <=> Is(a, "running")
              /\ action[a].live => Is(a, "running")
              /\ action[a].flag => Is(a, "claimed")
ActionType == action \in [Actions -> ActionRow] /\ \A a \in Actions : Columns(a)

LEMMA TypeParts ==
    TypeOK <=> LeadType /\ RowsType /\ ActionType /\ VerdictType /\ WorkerType
  BY DEF TypeOK, LeadType, RowsType, ActionType, VerdictType, WorkerType, Columns

(* The action part and the lock survive a move of one action whose task,   *)
(* if one has locked it, leaves.                                           *)
LEMMA MoveKeeps ==
    ASSUME TypeInv, NEW a \in Actions, NEW to, Move(a, to),
           to \in {"dispatching", "claimed", "failed", "expired"},
           WorkerType',
           \A w \in Workers : worker'[w].at # "idle" =>
               worker'[w] = worker[w] /\ ~(worker[w].at = "locked" /\ worker[w].act = a)
    PROVE  ActionType' /\ LockInv'
<1>1. /\ action' \in [Actions -> ActionRow]
      /\ action'[a].status = to /\ action'[a].lease = NoOne
      /\ ~action'[a].live /\ ~action'[a].flag
      /\ \A c \in Actions : c # a => action'[c] = action[c]
  BY MoveRow DEF TypeInv
<1>2. \A c \in Actions : Columns(c)'
  BY <1>1 DEF Columns, TypeInv, TypeOK
<1>3. LockInv'
  BY <1>1 DEF LockInv, TypeInv
<1> QED BY <1>1, <1>2, <1>3 DEF ActionType

LEMMA LeaveType ==
    ASSUME WorkerType, NEW w \in Workers, Leave(w)
    PROVE  /\ WorkerType' /\ worker'[w].at = "idle"
           /\ \A v \in Workers : v # w => worker'[v] = worker[v]
  BY DEF WorkerType, Leave, Idle

(* No row that moves leaves its statuses.                                  *)
LEMMA RowMovesType ==
    ASSUME TypeOK, NEW b \in Buyers, NEW r \in Leads, NEW from, NEW to \in RowStatuses,
           NEW s \in {"not_attempted", "queued", "answered", "errored"},
           RowMoves(b, r, from, to, s)
    PROVE  LeadType' /\ RowsType' /\ UNCHANGED <<action, verdict, worker>>
  BY DEF TypeOK, RowMoves, LeadType, RowsType

(* How a row may move.                                                     *)
LEMMA QueueMoves ==
    ASSUME NEW b \in Buyers, NEW r \in Leads, Queue(b, r)
    PROVE  \E from \in {"queued", "out", "stuck"}, to \in RowStatuses \ {"none"},
              s \in {"not_attempted", "queued", "answered", "errored"} :
               /\ RowMoves(b, r, from, to, s)
               /\ s = "not_attempted" => to = "cancelled"
  BY StatusFacts DEF Queue, Send, SendFails, Sticks, Unsticks, Answer, TakeKnown, Withdraw

(* Rows and leads aside, a step that changes neither actions nor verdicts. *)
LEMMA OthersKeep ==
    ASSUME TypeInv, LeadType', RowsType', UNCHANGED <<action, verdict, worker>>
    PROVE  TypeInv'
<1>1. ActionType' /\ VerdictType' /\ WorkerType' /\ LockInv'
  BY TypeParts DEF TypeInv, ActionType, VerdictType, WorkerType, Columns, LockInv
<1> QED BY <1>1 DEF TypeInv, TypeOK, LeadType, RowsType, ActionType, VerdictType, WorkerType,
             Columns

(* The task's steps.                                                       *)
LEMMA TaskType ==
    ASSUME TypeInv, NEW w \in Workers, Task(w)
    PROVE  TypeInv'
<1>0. LeadType /\ RowsType /\ ActionType /\ VerdictType /\ WorkerType /\ LockInv
  BY TypeParts DEF TypeInv
<1> DEFINE a == worker[w].act
<1> SUFFICES LeadType' /\ RowsType' /\ ActionType' /\ VerdictType' /\ WorkerType' /\ LockInv'
  BY DEF TypeInv, TypeOK, LeadType, RowsType, ActionType, VerdictType, WorkerType, Columns
<1>1. CASE Lock(w)
  <2>1. worker[w].act \in Actions /\ Is(a, "running") /\ action[a].lease = w
    BY <1>1, <1>0 DEF Lock, HoldsLease, LockInv
  <2>2. /\ WorkerType' /\ worker'[w].act = a
        /\ \A v \in Workers : v # w => worker'[v] = worker[v]
    BY <1>1, <1>0 DEF Lock, WorkerType
  <2> QED BY <1>1, <1>0, <2>1, <2>2
          DEF Lock, LeadType, RowsType, ActionType, VerdictType, Columns, LockInv
<1>2. CASE FencedOff(w) \/ WorkerDies(w)
  <2>0. Leave(w) /\ UNCHANGED <<lead, rows, action, verdict>>
    BY <1>2 DEF FencedOff, WorkerDies
  <2>1. WorkerType' /\ worker'[w].at = "idle"
        /\ \A v \in Workers : v # w => worker'[v] = worker[v]
    BY <1>0, <2>0, LeaveType
  <2>2. LockInv'
    BY <1>0, <2>0, <2>1 DEF LockInv
  <2> QED BY <1>0, <2>0, <2>1, <2>2 DEF LeadType, RowsType, ActionType, VerdictType, Columns
<1>3. ASSUME NEW to \in {"dispatching", "claimed", "failed"}, Move(a, to), Leave(w),
             worker[w].at = "locked" \/ HoldsLease(w)
      PROVE  ActionType' /\ WorkerType' /\ LockInv' /\ a \in Actions
  <2>1. a \in Actions /\ action[a].lease = w
    BY <1>3, <1>0 DEF HoldsLease, WorkerType, ActionType, Columns, LockInv, ActionConstants
  <2>2. /\ WorkerType' /\ worker'[w].at = "idle"
        /\ \A v \in Workers : v # w => worker'[v] = worker[v]
    BY <1>3, <1>0, LeaveType
  <2>3. \A v \in Workers : worker'[v].at # "idle" =>
            worker'[v] = worker[v] /\ ~(worker[v].at = "locked" /\ worker[v].act = a)
    BY <2>1, <2>2, <1>0 DEF LockInv
  <2> QED BY <1>3, <2>1, <2>2, <2>3, MoveKeeps
<1>4. CASE Fail(w)
  <2>1. ActionType' /\ WorkerType' /\ LockInv' /\ a \in Actions
    BY <1>3, <1>4 DEF Fail
  <2>2. VerdictType'
    BY <1>4, <1>0, <2>1, StatusFacts DEF Fail, Abandon, VerdictType
  <2> QED BY <1>4, <1>0, <2>1, <2>2 DEF Fail, LeadType, RowsType
<1>5. CASE Wait(w)
  <2>1. ActionType' /\ WorkerType' /\ LockInv' /\ a \in Actions
    BY <1>3, <1>5 DEF Wait
  <2> QED BY <1>5, <1>0, <2>1 DEF Wait, LeadType, RowsType, VerdictType
<1>6. CASE Claim(w)
  <2>1. PICK free \in SUBSET {r \in With(a, "quoted") : Claimable(r)} :
          \E dead \in SUBSET {r \in free : ChargedUnanswered(Key[r])} : Take(a, free, dead)
    BY <1>6 DEF Claim
  <2>0. PICK dead : Take(a, free, dead)
    BY <2>1
  <2>2. ActionType' /\ WorkerType' /\ LockInv' /\ a \in Actions
    BY <1>3, <1>6 DEF Claim
  <2>3. \A r \in Leads : NotClaimed(r) \in Verdicts
    BY StatusFacts DEF NotClaimed
  <2>4. VerdictType'
    BY <1>0, <2>0, <2>2, <2>3, StatusFacts DEF VerdictType, Take
  <2>5. LeadType'
    BY <1>0, <2>0 DEF LeadType, Take
  <2>6. RowsType'
    BY <1>0, <2>0, <2>2, StatusFacts DEF RowsType, Take
  <2> QED BY <2>2, <2>4, <2>5, <2>6
<1> QED BY <1>1, <1>2, <1>4, <1>5, <1>6 DEF Task

(* The reconciler's and the clock's.                                       *)
LEMMA ReconcileType ==
    ASSUME TypeInv, NEW a \in Actions, Reconcile(a) \/ LeaseExpires(a) \/ Deadline(a)
    PROVE  TypeInv'
<1>0. LeadType /\ RowsType /\ ActionType /\ VerdictType /\ WorkerType /\ LockInv
  BY TypeParts DEF TypeInv
<1> SUFFICES LeadType' /\ RowsType' /\ ActionType' /\ VerdictType' /\ WorkerType' /\ LockInv'
  BY DEF TypeInv, TypeOK, LeadType, RowsType, ActionType, VerdictType, WorkerType, Columns
<1>1. action \in [Actions -> ActionRow] /\ action[a] \in ActionRow /\ Columns(a)
  BY <1>0 DEF ActionType
<1>2. CASE LeaseExpires(a) \/ Deadline(a)
  <2>0. \/ action' = [action EXCEPT ![a].live = FALSE]
        \/ action' = [action EXCEPT ![a].late = TRUE]
    BY <1>2 DEF LeaseExpires, Deadline
  <2>1. /\ action' \in [Actions -> ActionRow]
        /\ action'[a].status = action[a].status /\ action'[a].lease = action[a].lease
        /\ (action'[a].flag => action[a].flag) /\ (action'[a].live => action[a].live)
        /\ \A c \in Actions : c # a => action'[c] = action[c]
    <3>1. CASE action' = [action EXCEPT ![a].live = FALSE]
      BY <1>1, <3>1 DEF ActionRow
    <3>2. CASE action' = [action EXCEPT ![a].late = TRUE]
      BY <1>1, <3>2 DEF ActionRow
    <3> QED BY <2>0, <3>1, <3>2
  <2>2. UNCHANGED <<lead, rows, verdict, worker>>
    <3>1. CASE LeaseExpires(a)
      BY <3>1 DEF LeaseExpires
    <3>2. CASE Deadline(a)
      BY <3>2 DEF Deadline
    <3> QED BY <1>2, <3>1, <3>2
  <2>3. ASSUME NEW c \in Actions PROVE Columns(c)'
    <3>1. Columns(c)
      BY <1>0 DEF ActionType
    <3>2. CASE c # a
      BY <2>1, <3>1, <3>2 DEF Columns
    <3>3. CASE c = a
      BY <2>1, <3>1, <3>3 DEF Columns
    <3> QED BY <3>2, <3>3
  <2>4. LockInv'
    BY <1>0, <2>1, <2>2 DEF LockInv
  <2> QED BY <1>0, <2>1, <2>2, <2>3, <2>4 DEF ActionType, LeadType, RowsType, VerdictType,
             WorkerType
<1>3. ASSUME NEW to \in {"dispatching", "expired"}, Move(a, to), UNCHANGED worker,
             \A w \in Workers : ~(worker[w].at = "locked" /\ worker[w].act = a)
      PROVE  ActionType' /\ LockInv'
  BY <1>0, <1>3, MoveKeeps DEF WorkerType
<1>4. CASE Expire(a)
  <2>1. ActionType' /\ LockInv'
    BY <1>0, <1>3, <1>4 DEF Expire, LockInv
  <2>2. VerdictType'
    BY <1>0, <1>4, StatusFacts DEF Expire, Abandon, VerdictType
  <2> QED BY <1>0, <1>4, <2>1, <2>2 DEF Expire, LeadType, RowsType, WorkerType
<1>5. CASE TakeBack(a)
  <2>1. \A w \in Workers : ~(worker[w].at = "locked" /\ worker[w].act = a)
    <3> SUFFICES ASSUME NEW w \in Workers, worker[w].at = "locked", worker[w].act = a
                 PROVE  FALSE
      OBVIOUS
    <3>1. worker[w] = [at |-> "locked", act |-> a]
      BY <1>0 DEF WorkerType
    <3> QED BY <3>1, <1>5 DEF TakeBack, Locked
  <2>2. ActionType' /\ LockInv'
    BY <1>3, <1>5, <2>1 DEF TakeBack
  <2> QED BY <1>0, <1>5, <2>2 DEF TakeBack, LeadType, RowsType, VerdictType, WorkerType
<1>6. CASE Settle(a)
  <2>1. /\ action' \in [Actions -> ActionRow]
        /\ action'[a].status \in {"claimed", "settled"} /\ action'[a].lease = action[a].lease
        /\ action'[a].live = action[a].live
        /\ action'[a].flag => action'[a].status = "claimed"
        /\ \A c \in Actions : c # a => action'[c] = action[c]
    <3>1. (~AllMapped(a) /\ Blocked(a)) \in BOOLEAN
      OBVIOUS
    <3>2. CASE AllMapped(a)
      BY <1>1, <1>6, <3>2 DEF Settle, ActionRow
    <3>3. CASE ~AllMapped(a)
      BY <1>1, <1>6, <3>1, <3>3 DEF Settle, ActionRow
    <3> QED BY <3>2, <3>3
  <2>2. ActionType' /\ LockInv'
    BY <1>0, <1>6, <2>1 DEF ActionType, Columns, LockInv, Settle
  <2>3. \A r \in Mappable(a) : Derived[rows[a][r]] \in Verdicts
    BY StatusFacts, DerivedFacts DEF Mappable
  <2>4. VerdictType'
    BY <1>0, <1>6, <2>3 DEF Settle, VerdictType
  <2> QED BY <1>0, <1>6, <2>2, <2>4 DEF Settle, LeadType, RowsType, WorkerType
<1> QED BY <1>2, <1>4, <1>5, <1>6 DEF Reconcile

LEMMA ConfirmType ==
    ASSUME TypeInv, NEW a \in Actions, NEW S \in SUBSET Leads, Confirm(a, S)
    PROVE  TypeInv'
<1>0. LeadType /\ RowsType /\ ActionType /\ VerdictType /\ WorkerType /\ LockInv
  BY TypeParts DEF TypeInv
<1>1. action[a] \in ActionRow /\ Columns(a) /\ Is(a, "none")
  BY <1>0 DEF ActionType, Confirm
<1>2. /\ action' \in [Actions -> ActionRow] /\ action'[a].status = "dispatching"
      /\ action'[a].lease = NoOne /\ ~action'[a].live /\ ~action'[a].flag
      /\ \A c \in Actions : c # a => action'[c] = action[c]
  BY <1>0, <1>1 DEF Confirm, ActionType, ActionRow, Columns
<1>3. \A c \in Actions : Columns(c)'
  BY <1>0, <1>2 DEF ActionType, Columns
<1>4. VerdictType'
  BY <1>0, StatusFacts DEF Confirm, VerdictType
<1>5. LeadType' /\ RowsType' /\ WorkerType'
  BY <1>0 DEF Confirm, LeadType, RowsType, WorkerType
<1>6. LockInv'
  BY <1>0, <1>1, <1>2 DEF LockInv, Confirm
<1> QED BY <1>2, <1>3, <1>4, <1>5, <1>6 DEF TypeInv, TypeOK, LeadType, RowsType, ActionType,
            VerdictType, WorkerType, Columns

LEMMA StartType ==
    ASSUME TypeInv, NEW a \in Actions, NEW w \in Workers, Start(w, a)
    PROVE  TypeInv'
<1>0. LeadType /\ RowsType /\ ActionType /\ VerdictType /\ WorkerType /\ LockInv
  BY TypeParts DEF TypeInv
<1>1. action[a] \in ActionRow /\ Columns(a) /\ Is(a, "dispatching") /\ worker[w].at = "idle"
  <2>1. w \in Idlers
    BY DEF Start
  <2> QED BY <1>0, <2>1 DEF ActionType, Start, Idlers
<1>2. /\ action' \in [Actions -> ActionRow] /\ action'[a].status = "running"
      /\ action'[a].lease = w /\ ~action'[a].flag
      /\ \A c \in Actions : c # a => action'[c] = action[c]
  BY <1>0, <1>1 DEF Start, ActionType, ActionRow, Columns
<1>3. \A c \in Actions : Columns(c)'
  BY <1>0, <1>2, ActionConstants DEF ActionType, Columns, ActionConstants
<1>4. WorkerType' /\ worker'[w].at = "started" /\ worker'[w].act = a
      /\ \A v \in Workers : v # w => worker'[v] = worker[v]
  BY <1>0 DEF Start, WorkerType
<1>5. LeadType' /\ RowsType' /\ VerdictType'
  BY <1>0 DEF Start, LeadType, RowsType, VerdictType
<1>6. LockInv'
  BY <1>0, <1>1, <1>2, <1>4 DEF LockInv
<1> QED BY <1>2, <1>3, <1>4, <1>5, <1>6 DEF TypeInv, TypeOK, LeadType, RowsType, ActionType,
            VerdictType, WorkerType, Columns

LEMMA EnqueueType ==
    ASSUME TypeInv, NEW r \in Leads, Enqueue(r)
    PROVE  TypeInv'
<1>1. LeadType' /\ RowsType'
  <2>1. \/ UNCHANGED rows
        \/ rows' = [rows EXCEPT ![Scrape][r] = "queued"]
    BY DEF Enqueue
  <2>2. \E s \in {"errored", "answered", "queued"} : lead' = [lead EXCEPT ![r] = s]
    BY DEF Enqueue
  <2>3. LeadType'
    BY <2>2, TypeParts DEF LeadType, TypeInv
  <2>4. RowsType'
    BY <2>1, TypeParts, StatusFacts DEF RowsType, TypeInv
  <2> QED BY <2>3, <2>4
<1> QED BY <1>1, OthersKeep DEF Enqueue

LEMMA QueueType ==
    ASSUME TypeInv, NEW b \in Buyers, NEW r \in Leads, Queue(b, r)
    PROVE  TypeInv'
<1>1. PICK from \in {"queued", "out", "stuck"}, to \in RowStatuses \ {"none"},
           s \in {"not_attempted", "queued", "answered", "errored"} : RowMoves(b, r, from, to, s)
  BY QueueMoves
<1> QED BY <1>1, RowMovesType, OthersKeep DEF TypeInv

(* The type invariant and the lock are inductive.                          *)
LEMMA TypeStep ==
    ASSUME TypeInv, [Next]_vars
    PROVE  TypeInv'
<1>1. CASE UNCHANGED vars
  <2>1. LeadType' /\ RowsType'
    BY <1>1, TypeParts DEF vars, TypeInv, LeadType, RowsType
  <2> QED BY <1>1, <2>1, OthersKeep DEF vars
<1>2. CASE Next
  BY <1>2, TaskType, ReconcileType, ConfirmType, StartType, EnqueueType, QueueType DEF Next
<1> QED BY <1>1, <1>2

LEMMA TypeStart == Init => TypeInv
<1> SUFFICES ASSUME Init PROVE TypeInv
  OBVIOUS
<1>1. NoAction \in ActionRow /\ NoAction.lease = NoOne /\ NoAction.status = "none"
      /\ ~NoAction.live /\ ~NoAction.flag
  BY DEF NoAction, ActionRow
<1>2. ActionType
  BY <1>1 DEF Init, ActionType, Columns
<1>3. LeadType /\ RowsType /\ VerdictType /\ WorkerType /\ LockInv
  BY StatusFacts DEF Init, LeadType, RowsType, VerdictType, WorkerType, LockInv, Idle
<1> QED BY <1>2, <1>3, TypeParts DEF TypeInv

(* Every variable keeps its type, and the columns that go together do: a   *)
(* lease is held exactly while the action runs (_move), and only a claimed *)
(* action carries a flag (FLAGGABLE).                                      *)
THEOREM TypeCorrect == Spec => []TypeOK
<1>1. Spec => []TypeInv
  BY TypeStart, TypeStep, PTL DEF Spec
<1> QED BY <1>1, PTL DEF TypeInv

-----------------------------------------------------------------------------
(* The ledger.                                                             *)

(* What LedgerMatchesQueue says of one action, with what makes it hold and *)
(* what settles it: an answer a verdict states is the one its row has, and *)
(* a settled action has no lead left to map.                               *)
Ledger(a) ==
    /\ \A r \in Leads : rows[a][r] # "none" <=> verdict[a][r] \in Bought
    /\ Is(a, "claimed") \/ Ended(a) => \A r \in Leads : verdict[a][r] # "quoted"
    /\ ~(Is(a, "claimed") \/ Is(a, "settled")) => \A r \in Leads : rows[a][r] = "none"
    /\ \A r \in Leads : verdict[a][r] \in Answers =>
           rows[a][r] \in DOMAIN Derived /\ verdict[a][r] = Derived[rows[a][r]]
    /\ Is(a, "settled") => \A r \in Leads : verdict[a][r] # "newly_queued"

LedgerInv == TypeInv /\ \A a \in Actions : Ledger(a)

(* Nothing of it changes but, at most, who runs the action.                *)
LEMMA LedgerKept ==
    ASSUME NEW a \in Actions, Ledger(a), rows'[a] = rows[a], verdict'[a] = verdict[a],
           \/ action'[a].status = action[a].status
           \/ {action[a].status, action'[a].status} \subseteq {"none", "dispatching", "running"}
    PROVE  Ledger(a)'
  BY DEF Ledger

(* An action that never bought fails or expires.                           *)
LEMMA LedgerAbandons ==
    ASSUME TypeInv, NEW a \in Actions, Ledger(a), Abandon(a), rows'[a] = rows[a],
           action[a].status \in {"dispatching", "running"},
           action'[a].status \in {"failed", "expired"}
    PROVE  Ledger(a)'
<1>1. \A r \in Leads : rows[a][r] = "none" /\ verdict[a][r] \notin Bought
  BY DEF Ledger
<1>2. \A r \in Leads : verdict'[a][r] = IF verdict[a][r] = "quoted" THEN "abandoned"
                                                                ELSE verdict[a][r]
  BY DEF Abandon, TypeInv, TypeOK
<1>3. \A r \in Leads : rows'[a][r] = "none" /\ verdict'[a][r] \notin Bought
                         /\ verdict'[a][r] # "quoted"
  BY <1>1, <1>2, StatusFacts
<1> QED BY <1>3, StatusFacts, DerivedFacts DEF Ledger

(* The claim: a lead gets a row and the verdict that says so, or neither.  *)
LEMMA LedgerTakes ==
    ASSUME TypeInv, NEW a \in Actions, Ledger(a), Is(a, "running"),
           NEW free \in SUBSET With(a, "quoted"), NEW dead \in SUBSET free,
           Take(a, free, dead), action'[a].status = "claimed"
    PROVE  Ledger(a)'
<1> DEFINE known == {r \in free \ dead : Cached(Key[r])}
           queue == free \ (dead \cup known)
<1>1. \A r \in Leads : rows[a][r] = "none" /\ verdict[a][r] \notin Bought
  BY DEF Ledger
<1>2. verdict \in [Actions -> [Leads -> Verdicts]] /\ rows \in [Buyers -> [Leads -> RowStatuses]]
  BY DEF TypeInv, TypeOK
<1>3. \A r \in Leads : rows'[a][r] = IF r \in queue THEN "queued" ELSE "none"
  BY <1>1, <1>2 DEF Take
<1>4. \A r \in Leads : verdict'[a][r] =
         CASE verdict[a][r] # "quoted" -> verdict[a][r]
           [] r \in queue -> "newly_queued"
           [] r \in known -> "reused"
           [] r \in dead -> "already_answered"
           [] OTHER -> NotClaimed(r)
  BY <1>2 DEF Take
<1>5. \A r \in Leads : NotClaimed(r) \in {"in_progress_elsewhere", "already_answered",
                                           "ineligible"}
  BY DEF NotClaimed
<1>6. /\ \A r \in queue : verdict[a][r] = "quoted" /\ r \notin known \cup dead
      /\ known \cap dead = {}
      /\ \A r \in known \cup dead : verdict[a][r] = "quoted"
  OBVIOUS
<1> HIDE DEF known, queue
<1>7. ASSUME NEW r \in Leads
      PROVE  IF r \in queue THEN verdict'[a][r] = "newly_queued"
                            ELSE verdict'[a][r] \notin Bought /\ verdict'[a][r] # "quoted"
  <2>1. CASE r \in queue
    <3>1. verdict[a][r] = "quoted" /\ r \notin known /\ r \notin dead
      BY <1>6, <2>1
    <3>2. verdict'[a][r] = "newly_queued"
      BY <1>4, <2>1, <3>1
    <3> QED BY <2>1, <3>2
  <2>2. CASE r \notin queue /\ verdict[a][r] # "quoted"
    <3>1. verdict'[a][r] = verdict[a][r]
      BY <1>4, <1>6, <2>2
    <3>2. verdict[a][r] \notin Bought
      BY <1>1
    <3> QED BY <2>2, <3>1, <3>2
  <2>3. CASE r \notin queue /\ verdict[a][r] = "quoted"
    <3>1. verdict'[a][r] \in {"reused", "already_answered", "in_progress_elsewhere",
                              "ineligible"}
      BY <1>4, <1>5, <1>6, <2>3
    <3> QED BY <2>3, <3>1, StatusFacts
  <2> QED BY <2>1, <2>2, <2>3
<1> QED BY <1>3, <1>7, StatusFacts, DerivedFacts DEF Ledger

(* The settlement derives verdicts from rows that no longer move, and      *)
(* settles when it could derive all.                                       *)
LEMMA LedgerSettles ==
    ASSUME TypeInv, NEW a \in Actions, Ledger(a), Settle(a)
    PROVE  Ledger(a)'
<1>1. /\ action'[a].status = IF AllMapped(a) THEN "settled" ELSE "claimed"
      /\ rows' = rows /\ Is(a, "claimed")
  <2>1. action \in [Actions -> ActionRow]
    BY DEF TypeInv, TypeOK
  <2> QED BY <2>1 DEF Settle
<1>2. \A r \in Leads : verdict'[a][r] = IF r \in Mappable(a) THEN Derived[rows[a][r]]
                                                            ELSE verdict[a][r]
  BY DEF Settle, TypeInv, TypeOK
<1>3. \A r \in Mappable(a) : /\ verdict[a][r] = "newly_queued" /\ rows[a][r] \in DOMAIN Derived
                             /\ Derived[rows[a][r]] \in Answers
  BY DerivedFacts DEF Mappable
<1>4. AllMapped(a) => \A r \in Leads : verdict[a][r] = "newly_queued" => r \in Mappable(a)
  BY DEF AllMapped
<1> HIDE DEF Is, Ended
<1>5. Is(a, "claimed")' \/ Is(a, "settled")'
  BY <1>1 DEF Is
<1>6. \A r \in Leads : rows'[a][r] # "none" <=> verdict'[a][r] \in Bought
  BY <1>1, <1>2, <1>3, StatusFacts, DerivedFacts DEF Ledger
<1>7. \A r \in Leads : verdict'[a][r] # "quoted"
  BY <1>1, <1>2, <1>3, DerivedFacts DEF Ledger
<1>8. \A r \in Leads : verdict'[a][r] \in Answers =>
           rows'[a][r] \in DOMAIN Derived /\ verdict'[a][r] = Derived[rows'[a][r]]
  BY <1>1, <1>2, <1>3 DEF Ledger
<1>9. Is(a, "settled")' => \A r \in Leads : verdict'[a][r] # "newly_queued"
  BY <1>1, <1>2, <1>3, <1>4, DerivedFacts DEF Is
<1> QED BY <1>5, <1>6, <1>7, <1>8, <1>9 DEF Ledger

(* A row moves: it was bought, and stays so; one with an answer is final.  *)
LEMMA LedgerQueue ==
    ASSUME TypeInv, NEW a \in Actions, Ledger(a), NEW b \in Buyers, NEW r \in Leads, Queue(b, r)
    PROVE  Ledger(a)'
<1>1. PICK from \in {"queued", "out", "stuck"}, to \in RowStatuses \ {"none"},
           s \in {"not_attempted", "queued", "answered", "errored"} : RowMoves(b, r, from, to, s)
  BY QueueMoves
<1>2. UNCHANGED <<action, verdict>> /\ rows[b][r] = from
  BY <1>1 DEF RowMoves
<1>3. rows \in [Buyers -> [Leads -> RowStatuses]] /\ rows' = [rows EXCEPT ![b][r] = to]
  BY <1>1 DEF RowMoves, TypeInv, TypeOK
<1>4. \A q \in Leads : rows'[a][q] = IF a = b /\ q = r THEN to ELSE rows[a][q]
  BY <1>3
<1>5. a = b => verdict[a][r] \notin Answers /\ rows[a][r] # "none"
  BY <1>2, DerivedFacts DEF Ledger
<1> QED BY <1>2, <1>4, <1>5, StatusFacts, DerivedFacts DEF Ledger

LEMMA LedgerStep ==
    ASSUME LedgerInv, [Next]_vars
    PROVE  LedgerInv'
<1> USE DEF LedgerInv
<1>1. TypeInv'
  BY TypeStep
<1> SUFFICES ASSUME NEW a \in Actions PROVE Ledger(a)'
  BY <1>1
<1>0. /\ Ledger(a) /\ action \in [Actions -> ActionRow]
      /\ rows \in [Buyers -> [Leads -> RowStatuses]] /\ verdict \in [Actions -> [Leads -> Verdicts]]
  BY DEF TypeInv, TypeOK
<1>2. CASE UNCHANGED vars
  BY <1>0, <1>2, LedgerKept DEF vars
<1>3. ASSUME NEW c \in Actions, NEW S \in SUBSET Leads, Confirm(c, S) PROVE Ledger(a)'
  <2>1. CASE c # a
    BY <1>0, <1>3, <2>1, LedgerKept DEF Confirm
  <2>2. CASE c = a
    <3>1. /\ action'[a].status = "dispatching" /\ rows' = rows
          /\ \A r \in Leads : rows[a][r] = "none"
          /\ \A r \in Leads : verdict'[a][r] \in {"quoted", "none"}
      BY <1>0, <1>3, <2>2 DEF Confirm, Ledger
    <3> QED BY <3>1, StatusFacts, DerivedFacts DEF Ledger
  <2> QED BY <2>1, <2>2
<1>4. ASSUME NEW w \in Workers, Task(w) PROVE Ledger(a)'
  <2> DEFINE c == worker[w].act
  <2>1. worker[w].at = "locked" \/ HoldsLease(w) =>
            c \in Actions /\ action[c].status = "running"
    BY DEF TypeInv, LockInv, HoldsLease
  <2>2. CASE Lock(w) \/ FencedOff(w) \/ WorkerDies(w)
    BY <1>0, <2>2, LedgerKept DEF Lock, FencedOff, WorkerDies
  <2>3. ASSUME NEW to \in {"dispatching", "claimed", "failed", "expired"}, Move(c, to),
               c \in Actions
        PROVE  action'[c].status = to /\ (c # a => action'[a].status = action[a].status)
    BY <2>3, MoveRow DEF TypeInv
  <2>4. CASE Wait(w)
    BY <1>0, <2>1, <2>3, <2>4, LedgerKept DEF Wait
  <2>5. CASE Fail(w)
    <3>1. CASE c # a
      BY <1>0, <2>1, <2>3, <2>5, <3>1, LedgerKept DEF Fail, Abandon
    <3>2. CASE c = a
      BY <1>0, <2>1, <2>3, <2>5, <3>2, LedgerAbandons DEF Fail
    <3> QED BY <3>1, <3>2
  <2>6. CASE Claim(w)
    <3>1. PICK free \in SUBSET {r \in With(c, "quoted") : Claimable(r)} :
            \E dead \in SUBSET {r \in free : ChargedUnanswered(Key[r])} : Take(c, free, dead)
      BY <2>6 DEF Claim
    <3>2. PICK dead \in SUBSET free : Take(c, free, dead)
      BY <3>1
    <3>3. free \in SUBSET With(c, "quoted")
      OBVIOUS
    <3>4. CASE c # a
      BY <1>0, <2>1, <2>3, <2>6, <3>2, <3>4, LedgerKept DEF Claim, Take
    <3>5. CASE c = a
      BY <1>0, <2>1, <2>3, <2>6, <3>2, <3>3, <3>5, LedgerTakes DEF Claim
    <3> QED BY <3>4, <3>5
  <2> QED BY <1>4, <2>2, <2>4, <2>5, <2>6 DEF Task
<1>5. ASSUME NEW c \in Actions, LeaseExpires(c) \/ Deadline(c) PROVE Ledger(a)'
  <2>1. action'[a].status = action[a].status
    <3>1. CASE LeaseExpires(c)
      BY <1>0, <3>1 DEF LeaseExpires
    <3>2. CASE Deadline(c)
      BY <1>0, <3>2 DEF Deadline
    <3> QED BY <1>5, <3>1, <3>2
  <2>2. UNCHANGED <<rows, verdict>>
    BY <1>5 DEF LeaseExpires, Deadline
  <2> QED BY <1>0, <2>1, <2>2, LedgerKept
<1>6. ASSUME NEW c \in Actions, Reconcile(c) PROVE Ledger(a)'
  <2>1. CASE Expire(c)
    <3>1. action'[c].status = "expired" /\ (c # a => action'[a].status = action[a].status)
      BY <2>1, MoveRow DEF Expire, TypeInv
    <3>2. CASE c # a
      BY <1>0, <2>1, <3>1, <3>2, LedgerKept DEF Expire, Abandon
    <3>3. CASE c = a
      BY <1>0, <2>1, <3>1, <3>3, LedgerAbandons DEF Expire
    <3> QED BY <3>2, <3>3
  <2>2. CASE TakeBack(c)
    <3>1. action'[c].status = "dispatching" /\ (c # a => action'[a].status = action[a].status)
      BY <2>2, MoveRow DEF TakeBack, TypeInv
    <3> QED BY <1>0, <2>2, <3>1, LedgerKept DEF TakeBack
  <2>3. CASE Settle(c)
    <3>1. CASE c # a
      BY <1>0, <2>3, <3>1, LedgerKept DEF Settle
    <3>2. CASE c = a
      BY <1>0, <2>3, <3>2, LedgerSettles
    <3> QED BY <3>1, <3>2
  <2> QED BY <1>6, <2>1, <2>2, <2>3 DEF Reconcile
<1>7. ASSUME NEW c \in Actions, NEW w \in Workers, Start(w, c) PROVE Ledger(a)'
  <2>1. action \in [Actions -> ActionRow] /\ UNCHANGED <<rows, verdict>>
    BY <1>0, <1>7 DEF Start, TypeInv, TypeOK
  <2>2. action' = [action EXCEPT ![c].status = "running", ![c].lease = w, ![c].live = TRUE]
    BY <1>7 DEF Start
  <2>3. CASE c = a
    <3>1. action[a].status = "dispatching"
      BY <1>7, <2>3 DEF Start
    <3>2. action[a] \in ActionRow
      BY <2>1
    <3>3. action'[a].status = "running"
      BY <2>1, <2>2, <2>3, <3>2 DEF ActionRow
    <3> QED BY <1>0, <2>1, <3>1, <3>3, LedgerKept
  <2>4. CASE c # a
    <3>1. action'[a].status = action[a].status
      BY <2>1, <2>2, <2>4
    <3> QED BY <1>0, <2>1, <3>1, LedgerKept
  <2> QED BY <2>3, <2>4
<1>8. ASSUME NEW r \in Leads, Enqueue(r) PROVE Ledger(a)'
  <2>1. rows'[a] = rows[a]
    BY <1>0, <1>8, ActionConstants DEF Enqueue, ActionConstants
  <2> QED BY <1>0, <1>8, <2>1, LedgerKept DEF Enqueue
<1>9. ASSUME NEW b \in Buyers, NEW r \in Leads, Queue(b, r) PROVE Ledger(a)'
  BY <1>0, <1>9, LedgerQueue
<1> QED BY <1>2, <1>3, <1>4, <1>5, <1>6, <1>7, <1>8, <1>9 DEF Next

LEMMA LedgerAlways == Spec => []LedgerInv
<1>1. Init => LedgerInv
  BY TypeStart, StatusFacts, DerivedFacts DEF Init, LedgerInv, Ledger, NoAction
<1> QED BY <1>1, LedgerStep, PTL DEF Spec

(* The action's verdicts and the queue agree in every state: rows for      *)
(* exactly what the verdicts say was bought, whenever a task dies, waits   *)
(* or loses its lease.                                                     *)
THEOREM LedgerAgrees == Spec => []LedgerMatchesQueue
<1>1. LedgerInv => LedgerMatchesQueue
  BY DEF LedgerInv, Ledger, LedgerMatchesQueue
<1> QED BY <1>1, LedgerAlways, PTL

(* What a settled action states was billed is what its rows were billed.   *)
THEOREM SettledIsTrue == Spec => []SettledStatesBilling
<1>1. LedgerInv => SettledStatesBilling
  <2> SUFFICES ASSUME LedgerInv, NEW a \in Actions, Is(a, "settled"), NEW r \in Leads
               PROVE  /\ rows[a][r] \notin ActiveRow
                      /\ verdict[a][r] \in Billable
                            <=> rows[a][r] \in {"completed", "unmatched_billed"}
    BY DEF SettledStatesBilling
  <2>1. /\ rows[a][r] # "none" <=> verdict[a][r] \in Bought
        /\ verdict[a][r] # "newly_queued"
        /\ verdict[a][r] \in Answers =>
             rows[a][r] \in DOMAIN Derived /\ verdict[a][r] = Derived[rows[a][r]]
    BY DEF LedgerInv, Ledger
  <2>2. CASE rows[a][r] = "none"
    BY <2>1, <2>2, StatusFacts DEF ActiveRow, Billable
  <2>3. CASE rows[a][r] # "none"
    <3>1. rows[a][r] \in DOMAIN Derived /\ verdict[a][r] = Derived[rows[a][r]]
      BY <2>1, <2>3, StatusFacts, DerivedFacts
    <3> QED BY <3>1, DerivedFacts DEF ActiveRow, Billable
  <2> QED BY <2>2, <2>3
<1> QED BY <1>1, LedgerAlways, PTL

-----------------------------------------------------------------------------
(* A lead is bought once.                                                  *)

BoughtRow(b, r) == rows[b][r] \notin {"none", "cancelled"}

(* What the claim's guard relies on: a lead whose row stands is not        *)
(* not_attempted, so nobody else takes it.                                 *)
OneBuyer(r) ==
    /\ \A b \in Buyers : BoughtRow(b, r) => lead[r] # "not_attempted"
    /\ \A b, c \in Buyers : BoughtRow(b, r) /\ BoughtRow(c, r) => b = c

BoughtInv == TypeInv /\ \A r \in Leads : OneBuyer(r)

LEMMA BoughtKept ==
    ASSUME NEW r \in Leads, OneBuyer(r), lead'[r] = lead[r] \/ lead'[r] # "not_attempted",
           \A b \in Buyers : rows'[b][r] = rows[b][r]
    PROVE  OneBuyer(r)'
  BY DEF OneBuyer, BoughtRow

(* Somebody takes a lead nobody has taken.                                 *)
LEMMA BoughtTaken ==
    ASSUME NEW r \in Leads, OneBuyer(r), NEW c \in Buyers, lead[r] = "not_attempted",
           lead'[r] # "not_attempted", \A b \in Buyers : b # c => rows'[b][r] = rows[b][r]
    PROVE  OneBuyer(r)'
<1>1. \A b \in Buyers : ~BoughtRow(b, r)
  BY DEF OneBuyer
<1>2. \A b \in Buyers : b # c => ~BoughtRow(b, r)'
  BY <1>1 DEF BoughtRow
<1> QED BY <1>2 DEF OneBuyer

LEMMA BoughtClaim ==
    ASSUME BoughtInv, NEW w \in Workers, Claim(w), NEW r \in Leads
    PROVE  OneBuyer(r)'
<1> DEFINE a == worker[w].act
<1>1. a \in Actions /\ OneBuyer(r)
  BY DEF BoughtInv, TypeInv, LockInv, Claim
<1>2. PICK free \in SUBSET {q \in With(a, "quoted") : Claimable(q)} :
        \E dead \in SUBSET {q \in free : ChargedUnanswered(Key[q])} : Take(a, free, dead)
  BY DEF Claim
<1>3. PICK dead \in SUBSET free : Take(a, free, dead)
  BY <1>2
<1> DEFINE known == {q \in free \ dead : Cached(Key[q])}
           queue == free \ (dead \cup known)
<1>4. /\ lead'[r] = CASE r \in queue -> "queued" [] r \in known -> "answered"
                      [] r \in dead -> "errored" [] OTHER -> lead[r]
      /\ rows' = [rows EXCEPT ![a] = [q \in Leads |-> IF q \in queue THEN "queued" ELSE @[q]]]
  BY <1>3 DEF Take
<1>5. rows \in [Buyers -> [Leads -> RowStatuses]]
  BY DEF BoughtInv, TypeInv, TypeOK
<1>6. r \in queue => lead[r] = "not_attempted"
  BY <1>2 DEF Claimable
<1> HIDE DEF a, known, queue
<1>7. \A b \in Buyers : b # a \/ r \notin queue => rows'[b][r] = rows[b][r]
  BY <1>1, <1>4, <1>5
<1>8. CASE r \in queue
  <2>1. lead'[r] # "not_attempted"
    BY <1>4, <1>6, <1>8
  <2> QED BY <1>1, <1>6, <1>7, <1>8, <2>1, BoughtTaken
<1>9. CASE r \notin queue
  <2>1. lead'[r] = lead[r] \/ lead'[r] # "not_attempted"
    BY <1>4, <1>9
  <2> QED BY <1>1, <1>7, <1>9, <2>1, BoughtKept
<1> QED BY <1>8, <1>9

LEMMA BoughtEnqueue ==
    ASSUME BoughtInv, NEW q \in Leads, Enqueue(q), NEW r \in Leads
    PROVE  OneBuyer(r)'
<1>1. /\ rows \in [Buyers -> [Leads -> RowStatuses]] /\ OneBuyer(r)
      /\ lead \in [Leads -> {"not_attempted", "queued", "answered", "errored"}]
  BY DEF BoughtInv, TypeInv, TypeOK
<1>2. /\ lead[q] = "not_attempted"
      /\ \E s \in {"errored", "answered", "queued"} : lead' = [lead EXCEPT ![q] = s]
      /\ UNCHANGED rows \/ rows' = [rows EXCEPT ![Scrape][q] = "queued"]
  BY DEF Enqueue
<1>3. CASE r = q
  BY <1>1, <1>2, <1>3, BoughtTaken
<1>4. CASE r # q
  BY <1>1, <1>2, <1>4, BoughtKept
<1> QED BY <1>3, <1>4

LEMMA BoughtQueue ==
    ASSUME BoughtInv, NEW b \in Buyers, NEW q \in Leads, Queue(b, q), NEW r \in Leads
    PROVE  OneBuyer(r)'
<1>1. PICK from \in {"queued", "out", "stuck"}, to \in RowStatuses \ {"none"},
           s \in {"not_attempted", "queued", "answered", "errored"} :
             RowMoves(b, q, from, to, s) /\ (s = "not_attempted" => to = "cancelled")
  BY QueueMoves
<1>2. /\ rows \in [Buyers -> [Leads -> RowStatuses]] /\ OneBuyer(r)
      /\ lead \in [Leads -> {"not_attempted", "queued", "answered", "errored"}]
  BY DEF BoughtInv, TypeInv, TypeOK
<1>3. /\ rows[b][q] = from /\ rows' = [rows EXCEPT ![b][q] = to]
      /\ lead' = [lead EXCEPT ![q] = s]
  BY <1>1 DEF RowMoves
<1>4. CASE r # q
  BY <1>2, <1>3, <1>4, BoughtKept
<1>5. CASE r = q
  <2>1. \A c \in Buyers : BoughtRow(c, r) => c = b
    BY <1>2, <1>3, <1>5 DEF OneBuyer, BoughtRow
  <2>2. /\ \A c \in Buyers : c # b => ~BoughtRow(c, r)'
        /\ rows'[b][r] = to /\ lead'[r] = s
    BY <1>2, <1>3, <1>5, <2>1 DEF BoughtRow
  <2> QED BY <1>1, <2>2 DEF OneBuyer, BoughtRow
<1> QED BY <1>4, <1>5

LEMMA BoughtStep ==
    ASSUME BoughtInv, [Next]_vars
    PROVE  BoughtInv'
<1>1. TypeInv'
  BY TypeStep DEF BoughtInv
<1> SUFFICES ASSUME NEW r \in Leads PROVE OneBuyer(r)'
  BY <1>1 DEF BoughtInv
<1>2. OneBuyer(r)
  BY DEF BoughtInv
<1>3. CASE UNCHANGED <<lead, rows>>
  BY <1>2, <1>3, BoughtKept
<1>4. CASE UNCHANGED vars
  BY <1>3, <1>4 DEF vars
<1>5. ASSUME NEW c \in Actions,
             \/ \E S \in SUBSET Leads : Confirm(c, S)
             \/ LeaseExpires(c) \/ Deadline(c) \/ Reconcile(c)
             \/ \E w \in Workers : Start(w, c)
      PROVE  OneBuyer(r)'
  BY <1>3, <1>5 DEF Confirm, LeaseExpires, Deadline, Reconcile, Expire, TakeBack, Settle, Start
<1>6. ASSUME NEW w \in Workers, Task(w) PROVE OneBuyer(r)'
  <2>1. CASE Claim(w)
    BY <2>1, BoughtClaim
  <2>2. CASE ~Claim(w)
    BY <1>3, <1>6, <2>2 DEF Task, Lock, FencedOff, Fail, Wait, WorkerDies
  <2> QED BY <2>1, <2>2
<1>7. ASSUME NEW q \in Leads, Enqueue(q) PROVE OneBuyer(r)'
  BY <1>7, BoughtEnqueue
<1>8. ASSUME NEW b \in Buyers, NEW q \in Leads, Queue(b, q) PROVE OneBuyer(r)'
  BY <1>8, BoughtQueue
<1> QED BY <1>4, <1>5, <1>6, <1>7, <1>8 DEF Next

(* A lead is bought once, however many quotes offered it and whatever the  *)
(* run's own enqueue does at the same time (claim_skip_trace_rows).        *)
THEOREM BoughtByOne == Spec => []NeverBoughtTwice
<1>1. Init => BoughtInv
  BY TypeStart DEF Init, BoughtInv, OneBuyer, BoughtRow
<1>2. BoughtInv => NeverBoughtTwice
  BY DEF BoughtInv, OneBuyer, BoughtRow, NeverBoughtTwice
<1> QED BY <1>1, <1>2, BoughtStep, PTL DEF Spec

-----------------------------------------------------------------------------
(* What ended stays.                                                       *)

Stays(a) ==
    /\ action'[a].status = action[a].status /\ verdict'[a] = verdict[a]
    /\ \A r \in Leads : rows[a][r] = "none" => rows'[a][r] = "none"

(* An action whose row another step rewrites is another action.            *)
LEMMA OtherStays ==
    ASSUME TypeInv, NEW a \in Actions, Ended(a), [Next]_vars
    PROVE  Stays(a)
<1>0. /\ action \in [Actions -> ActionRow]
      /\ rows \in [Buyers -> [Leads -> RowStatuses]]
      /\ verdict \in [Actions -> [Leads -> Verdicts]]
      /\ action[a].status \in {"settled", "failed", "expired"}
  BY DEF TypeInv, TypeOK
<1>1. CASE UNCHANGED vars
  BY <1>1 DEF vars, Stays
<1>2. ASSUME NEW c \in Actions, NEW S \in SUBSET Leads, Confirm(c, S) PROVE Stays(a)
  <2>1. c # a
    BY <1>0, <1>2 DEF Confirm
  <2> QED BY <1>0, <1>2, <2>1 DEF Confirm, Stays
<1>3. ASSUME NEW c \in Actions, LeaseExpires(c) PROVE Stays(a)
  BY <1>0, <1>3 DEF LeaseExpires, Stays
<1>4. ASSUME NEW c \in Actions, Deadline(c) PROVE Stays(a)
  BY <1>0, <1>4 DEF Deadline, Stays
<1>5. ASSUME NEW c \in Actions, Reconcile(c) PROVE Stays(a)
  <2>1. c # a
    BY <1>0, <1>5 DEF Reconcile, Expire, TakeBack, Settle
  <2>2. action'[a] = action[a]
    BY <1>0, <1>5, <2>1 DEF Reconcile, Expire, TakeBack, Settle, Move
  <2>3. verdict'[a] = verdict[a] /\ rows' = rows
    BY <1>0, <1>5, <2>1 DEF Reconcile, Expire, TakeBack, Settle, Abandon
  <2> QED BY <2>2, <2>3 DEF Stays
<1>6. ASSUME NEW c \in Actions, NEW w \in Workers, Start(w, c) PROVE Stays(a)
  <2>1. c # a
    BY <1>0, <1>6 DEF Start
  <2> QED BY <1>0, <1>6, <2>1 DEF Start, Stays
<1>7. ASSUME NEW w \in Workers, Task(w) PROVE Stays(a)
  <2> DEFINE c == worker[w].act
  <2>1. CASE Lock(w) \/ FencedOff(w) \/ WorkerDies(w)
    BY <2>1 DEF Lock, FencedOff, WorkerDies, Stays
  <2>2. worker[w].at = "locked" \/ HoldsLease(w) => c \in Actions /\ c # a
    <3>1. worker[w].at = "locked" \/ HoldsLease(w) =>
              c \in Actions /\ action[c].status = "running"
      BY DEF TypeInv, LockInv, HoldsLease
    <3> QED BY <1>0, <3>1
  <2> HIDE DEF c
  <2>3. CASE Wait(w) \/ Fail(w) \/ Claim(w)
    <3>1. c \in Actions /\ c # a
      BY <2>2, <2>3 DEF Wait, Fail, Claim, c
    <3>2. action'[a] = action[a]
      BY <1>0, <2>3, <3>1 DEF Wait, Fail, Claim, Move, c
    <3>3. verdict'[a] = verdict[a] /\ rows'[a] = rows[a]
      <4>1. CASE Wait(w)
        BY <4>1 DEF Wait
      <4>2. CASE Fail(w)
        BY <1>0, <3>1, <4>2 DEF Fail, Abandon, c
      <4>3. CASE Claim(w)
        <5>1. PICK free, dead : Take(c, free, dead)
          BY <4>3 DEF Claim, c
        <5> QED BY <1>0, <3>1, <5>1 DEF Take
      <4> QED BY <2>3, <4>1, <4>2, <4>3
    <3> QED BY <3>2, <3>3 DEF Stays
  <2> QED BY <1>7, <2>1, <2>3 DEF Task
<1>8. ASSUME NEW q \in Leads, Enqueue(q) PROVE Stays(a)
  BY <1>0, <1>8, ActionConstants DEF Enqueue, Stays, ActionConstants
<1>9. ASSUME NEW b \in Buyers, NEW q \in Leads, Queue(b, q) PROVE Stays(a)
  <2>1. PICK from \in {"queued", "out", "stuck"}, to \in RowStatuses \ {"none"},
             s \in {"not_attempted", "queued", "answered", "errored"} :
               RowMoves(b, q, from, to, s) /\ (s = "not_attempted" => to = "cancelled")
    BY <1>9, QueueMoves
  <2> QED BY <1>0, <2>1 DEF RowMoves, Stays
<1> QED BY <1>1, <1>2, <1>3, <1>4, <1>5, <1>6, <1>7, <1>8, <1>9 DEF Next

(* An action that ended buys nothing more and says nothing else, whatever  *)
(* a late delivery or a task that lost its lease does (the fence of T2).   *)
THEOREM EndedActionsStay == Spec => EndedStays
<1>1. TypeInv /\ [Next]_vars =>
          [\A a \in Actions : Ended(a) =>
               /\ action'[a].status = action[a].status /\ verdict'[a] = verdict[a]
               /\ \A r \in Leads : rows[a][r] = "none" => rows'[a][r] = "none"]_vars
  BY OtherStays DEF Stays
<1> QED BY <1>1, TypeStart, TypeStep, PTL DEF Spec, EndedStays
=============================================================================
