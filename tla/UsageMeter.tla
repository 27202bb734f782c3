----------------------------- MODULE UsageMeter -----------------------------
(***************************************************************************)
(* Metered lookups of one user: an ingested batch advances the allowance   *)
(* counter and writes an outbox row for its overage in one transaction; a  *)
(* report task asks whether a subscription covered the usage, then sends   *)
(* the event; a sweep re-enqueues and re-asks; a plan change reads the     *)
(* subscription, takes reported rows back and has the provider replace     *)
(* their metered item, three steps during which the subscription goes on;  *)
(* an operator decides, under no lock (api/billing/skip_trace_usage.py,    *)
(* workers/tracerfy_ingest.py, scheduler_helpers/meter.py,                 *)
(* api/routes/billing.py, scripts/settle_skip_trace_meter_rows.py).        *)
(*                                                                         *)
(* Time is logical: everything that is dated takes an instant of its own.  *)
(* The payment provider is an external party: it keeps the subscription,   *)
(* takes an event once per identifier and invoices what an item collected. *)
(***************************************************************************)
EXTENDS Integers, FiniteSets

CONSTANTS
    Batches,        \* lookup batches that hold rows of this user
    Lookups,        \* [Batches -> lookups of the user a batch bills]
    Quota,          \* lookups a window includes
    Horizon,        \* bound on the instants
    Lossy,          \* batches whose report may be accepted unnoticed
    Free,           \* the billing lock is free, or
    Change, Marked  \* a plan change holds it, before and after it marked the rows

ASSUME MeterConstants ==
    /\ IsFiniteSet(Batches)
    /\ Lookups \in [Batches -> Nat \ {0}] /\ Quota \in Nat /\ Horizon \in Nat
    /\ Lossy \subseteq Batches
    /\ Free \notin Batches /\ Change \notin Batches /\ Marked \notin Batches
    /\ Free # Change /\ Free # Marked /\ Change # Marked

VARIABLES
    now,        \* the clock
    window,     \* start of the user's effective entitlement window
    used, usedFrom, \* skip_trace_used_this_month, skip_trace_period_start
    batch,      \* the batches: unsent, out or ingested; when; counted in which window
    row,        \* skip_trace_meter_events, by batch
    queue,      \* report_skip_trace_meter_event messages
    lock,       \* who holds the user's billing lock: a plan change or a reporting batch
    seen,       \* the subscription as the holder of the lock read it
    customer,   \* users.stripe_customer_id is set
    sub,        \* the provider's subscription of the user
    accepted,   \* accepted[b]: the metered item that took b's event, 0 before
    blind,      \* history: sent, or released, past a change the writer did not see
    invoiced    \* batches whose event reached an invoice

vars == <<now, window, used, usedFrom, batch, row, queue, lock, seen, customer, sub,
          accepted, blind, invoiced>>
counter == <<used, usedFrom>>
holder == <<lock, seen>>
taken == <<accepted, blind>>
provider == <<sub, taken, invoiced>>
outbox == <<row, queue, holder>>

Instants == 0..Horizon

(* decided: settled_manual or written_off_manual.                          *)
Dispositions == {"absent", "pending", "reported", "needs_review", "non_billable", "decided"}

(* Refusals of the gate, then the other reasons for a review.              *)
Refusals == {"usage_at_unknown", "timestamp_expired", "no_customer_id",
             "closed_billing_period", "no_subscription_ever", "coverage_unproven"}
Reasons == {"none", "outside_window", "item_replaced"} \cup Refusals

NoSubscription == [status |-> "none", start |-> 0, from |-> 0, item |-> 0, itemAt |-> 0]

(* One that the user has from the start.                                   *)
FirstSubscription == [status |-> "active", start |-> 1, from |-> 1, item |-> 1, itemAt |-> 1]

(* An event for a period that is not open any more: no item collects it.   *)
Missed == -1

Init ==
    /\ now = 1 /\ window = 1 /\ used = 0 /\ usedFrom = 1
    /\ batch = [b \in Batches |-> [stage |-> "unsent", at |-> 0, counted |-> 0]]
    /\ row = [b \in Batches |-> [state |-> "absent", why |-> "none", units |-> 0]]
    /\ queue = {} /\ lock = Free /\ seen = NoSubscription
    /\ customer \in BOOLEAN
    /\ sub = IF customer THEN FirstSubscription ELSE NoSubscription
    /\ accepted = [b \in Batches |-> 0] /\ blind = {} /\ invoiced = {}

(* A dated event takes the next instant.                                   *)
Dated == now < Horizon /\ now' = now + 1

Over(n) == IF n > Quota THEN n - Quota ELSE 0

-----------------------------------------------------------------------------
(* Counting: dispatch and ingest of a batch.                               *)

(* A batch is submitted, at a time the provider states or not.             *)
Submit(b) ==
    /\ batch[b].stage = "unsent" /\ Dated
    /\ \E at \in {now + 1, 0} : batch' = [batch EXCEPT ![b].stage = "out", ![b].at = at]
    /\ UNCHANGED <<window, counter, outbox, customer, provider>>

(* Mutant: the counter is never reset.                                     *)
CountedBeforeNever == used

(* report_lookups_for_user's reset: the counter belongs to the window it   *)
(* was last advanced in.                                                   *)
CountedBefore == IF usedFrom < window THEN 0 ELSE used

(* usage_outside_counted_window: the usage predates the counter's window.  *)
OutsideWindow(b) == batch[b].at # 0 /\ batch[b].at < window

(* ingest_tracerfy_batch up to its commit: counter, row and queue status   *)
(* together; then the enqueue, which may fail.                             *)
Ingest(b) ==
    /\ batch[b].stage = "out"
    /\ LET after == CountedBefore + Lookups[b]
           units == Over(after) - Over(CountedBefore)
           state == IF OutsideWindow(b) THEN "needs_review" ELSE "pending"
       IN  /\ used' = after
           /\ IF units = 0 THEN UNCHANGED <<row, queue>>
              ELSE /\ row' = [row EXCEPT ![b] =
                        [state |-> state, units |-> units,
                         why |-> IF state = "pending" THEN "none" ELSE "outside_window"]]
                   /\ queue' \in IF state = "pending" THEN {queue, queue \cup {b}} ELSE {queue}
    /\ usedFrom' = IF usedFrom < window THEN window ELSE usedFrom
    /\ batch' = [batch EXCEPT ![b].stage = "in", ![b].counted = window]
    /\ UNCHANGED <<now, window, holder, customer, provider>>

(* The user's next entitlement window begins, which matters while a batch  *)
(* is to come.                                                             *)
WindowRolls ==
    /\ \E b \in Batches : batch[b].stage # "in"
    /\ Dated /\ window' = now + 1
    /\ UNCHANGED <<counter, batch, outbox, customer, provider>>

-----------------------------------------------------------------------------
(* Reporting.                                                              *)

(* The period that is open holds the usage, and the item was there for it. *)
Covered(b) ==
    sub.status = "active" /\ sub.itemAt <= batch[b].at /\ sub.from <= batch[b].at

(* It was covered in a period that has closed since.                       *)
CoveredBefore(b) ==
    /\ sub.status = "active" /\ sub.itemAt <= batch[b].at
    /\ sub.start <= batch[b].at /\ batch[b].at < sub.from

(* assert_billable: why the usage is refused, or "none".  The first check   *)
(* that fails decides; old: the usage is past the provider's limit on      *)
(* backdating.                                                             *)
Refusal(b, old) ==
    IF batch[b].at = 0 THEN "usage_at_unknown"
    ELSE IF old THEN "timestamp_expired"
    ELSE IF ~customer THEN "no_customer_id"
    ELSE IF Covered(b) THEN "none"
    ELSE IF CoveredBefore(b) THEN "closed_billing_period"
    ELSE IF sub.status = "none" THEN "no_subscription_ever"
    ELSE "coverage_unproven"

(* Mutant: the task claims a row on reported_at instead of its disposition. *)
ClaimableUnreported(b) == row[b].state \notin {"absent", "reported"}

(* The task acts on a row nobody has decided.                              *)
Claimable(b) == row[b].state = "pending"

(* A message is delivered, the try-lock succeeds and the row, read under   *)
(* FOR UPDATE, is still claimable.                                         *)
Locked(b) == b \in queue /\ Claimable(b) /\ lock = Free

(* The gate refuses: the reason is committed; only a customer who never    *)
(* had a subscription is written off.  Usage gets old at any time, and a   *)
(* row refused for it is not asked again.  The message may be delivered    *)
(* again.                                                                  *)
Refuse(b) ==
    /\ Locked(b)
    /\ \E old \in BOOLEAN :
         /\ Refusal(b, old) # "none"
         /\ row' = [row EXCEPT ![b].why = Refusal(b, old),
                               ![b].state = IF Refusal(b, old) = "no_subscription_ever"
                                            THEN "non_billable" ELSE "needs_review"]
    /\ queue' \in {queue, queue \ {b}}
    /\ UNCHANGED <<now, window, counter, batch, holder, customer, provider>>

(* The gate passes, on the subscription it has just read.  The task has    *)
(* its message; the sweep may enqueue another, the row being pending.      *)
Pass(b) ==
    /\ Locked(b) /\ Refusal(b, FALSE) = "none"
    /\ lock' = b /\ seen' = sub /\ queue' = queue \ {b}
    /\ UNCHANGED <<now, window, counter, batch, row, customer, provider>>

Live == sub.status \in {"active", "unpaid"}

(* The subscription ended, was renewed or was bought anew since the holder *)
(* of the lock read it.                                                    *)
MovedOn == ~Live \/ sub.from # seen.from \/ sub.item # seen.item

(* The provider takes the event, once per identifier, whatever became of   *)
(* the subscription since the gate looked.                                 *)
Send(b) ==
    /\ lock = b /\ accepted[b] = 0
    /\ accepted' = [accepted EXCEPT ![b] =
                      IF Live /\ sub.from <= batch[b].at THEN sub.item ELSE Missed]
    /\ blind' = IF MovedOn THEN blind \cup {b} ELSE blind
    /\ UNCHANGED <<now, window, counter, batch, outbox, customer, sub, invoiced>>

Unlock == lock' = Free /\ seen' = NoSubscription

(* The task commits what it sent, and the lock goes with the transaction.  *)
(* An event the provider has already is taken as sent.                     *)
Commit(b) ==
    /\ lock = b /\ accepted[b] # 0 /\ Unlock
    /\ row' = [row EXCEPT ![b].state = "reported", ![b].why = "none"]
    /\ UNCHANGED <<now, window, counter, batch, queue, customer, provider>>

(* The call fails or the worker dies before it; or, of a lossy batch, the  *)
(* answer or the commit is lost.  The row stays pending, and the message   *)
(* is delivered again or lost.                                             *)
LoseReport(b) ==
    /\ lock = b /\ (accepted[b] = 0 \/ b \in Lossy) /\ Unlock
    /\ queue' \in {queue, queue \cup {b}}
    /\ UNCHANGED <<now, window, counter, batch, row, customer, provider>>

(* The task finds the row decided, or yields to who holds the lock.        *)
Skip(b) ==
    /\ b \in queue /\ (~Claimable(b) \/ lock # Free)
    /\ queue' = queue \ {b}
    /\ UNCHANGED <<now, window, counter, batch, row, holder, customer, provider>>

(* Mutant: a row held for a missing customer is a human's.                 *)
HeldForCustomerNone == {}

(* The one reason that stops being true by itself.                         *)
HeldForCustomer ==
    {b \in Batches : row[b].state = "needs_review" /\ row[b].why = "no_customer_id" /\ customer}

(* flush_skip_trace_meter_outbox: rows held for a customer who has an id   *)
(* now are pending again, one commit; then every pending row is enqueued,  *)
(* as far as the broker takes them.                                        *)
Sweep ==
    /\ row' = [b \in Batches |-> IF b \in HeldForCustomer
                                 THEN [row[b] EXCEPT !.state = "pending", !.why = "none"]
                                 ELSE row[b]]
    /\ \E sent \in SUBSET {b \in Batches : row'[b].state = "pending"} : queue' = queue \cup sent
    /\ UNCHANGED <<now, window, counter, batch, holder, customer, provider>>

-----------------------------------------------------------------------------
(* The subscription.                                                       *)

(* create_checkout: the customer id is kept before anything is paid.       *)
StartCheckout ==
    /\ lock = Free /\ ~customer /\ customer' = TRUE
    /\ UNCHANGED <<now, window, counter, batch, outbox, provider>>

(* The checkout is paid: a subscription with a metered item begins.        *)
Subscribe ==
    /\ customer /\ sub.status \in {"none", "ended"} /\ Dated
    /\ sub' = [status |-> "active", start |-> now + 1, from |-> now + 1,
               item |-> sub.item + 1, itemAt |-> now + 1]
    /\ UNCHANGED <<window, counter, batch, outbox, customer, taken, invoiced>>

(* What the metered item of the subscription has collected.                *)
OnItem == {b \in Batches : accepted[b] # 0 /\ accepted[b] = sub.item}

(* The provider invoices the period and opens the next.                    *)
Renew ==
    /\ sub.status = "active" /\ Dated
    /\ sub' = [sub EXCEPT !.from = now + 1] /\ invoiced' = invoiced \cup OnItem
    /\ UNCHANGED <<window, counter, batch, outbox, customer, taken>>

(* An invoice is not paid, or is after all; or the subscription ends, with *)
(* a last invoice.                                                         *)
PaymentFails ==
    /\ sub.status = "active" /\ sub' = [sub EXCEPT !.status = "unpaid"]
    /\ UNCHANGED <<now, window, counter, batch, outbox, customer, taken, invoiced>>

PaymentClears ==
    /\ sub.status = "unpaid" /\ sub' = [sub EXCEPT !.status = "active"]
    /\ UNCHANGED <<now, window, counter, batch, outbox, customer, taken, invoiced>>

SubscriptionEnds ==
    /\ Live /\ sub' = [sub EXCEPT !.status = "ended"]
    /\ invoiced' = invoiced \cup OnItem
    /\ UNCHANGED <<now, window, counter, batch, outbox, customer, taken>>

(* change_plan reads the subscription under the user's lock.               *)
ReadPlan ==
    /\ lock = Free /\ customer /\ sub.status = "active"
    /\ lock' = Change /\ seen' = sub
    /\ UNCHANGED <<now, window, counter, batch, row, queue, customer, provider>>

(* The rows _mark_stranded_metered_usage takes back: of the period that    *)
(* was open when the subscription was read.                                *)
OfPeriod(b) == batch[b].at >= seen.from

(* The marking, committed before the provider is asked.                    *)
MarkStranded ==
    /\ lock = Change /\ lock' = Marked
    /\ row' = [b \in Batches |->
                 IF row[b].state = "reported" /\ OfPeriod(b)
                 THEN [row[b] EXCEPT !.state = "needs_review", !.why = "item_replaced"]
                 ELSE row[b]]
    /\ UNCHANGED <<now, window, counter, batch, queue, seen, customer, provider>>

(* The provider replaces the metered item of the subscription that was     *)
(* read; a change of interval starts a new period.  Usage of the old item  *)
(* that was not invoiced never is.                                         *)
ReplaceItem ==
    /\ lock = Marked /\ Live /\ sub.item = seen.item /\ Dated /\ Unlock
    /\ \E from \in {sub.from, now + 1} :
         sub' = [sub EXCEPT !.from = from, !.item = @ + 1, !.itemAt = now + 1]
    /\ UNCHANGED <<window, counter, batch, row, queue, customer, taken, invoiced>>

(* The provider refuses, the card fails or the request dies.               *)
AbandonChange ==
    /\ lock \in {Change, Marked} /\ Unlock
    /\ UNCHANGED <<now, window, counter, batch, row, queue, customer, provider>>

-----------------------------------------------------------------------------
(* The operator.                                                           *)

(* The provider took the event and will never invoice it.                  *)
Stranded(b) ==
    /\ accepted[b] # 0 /\ b \notin invoiced
    /\ ~(accepted[b] = sub.item /\ Live)

(* settle or writeoff of a row in review, whatever the reason.             *)
Decide(b) ==
    /\ row[b].state = "needs_review"
    /\ row' = [row EXCEPT ![b].state = "decided", ![b].why = "none"]
    /\ UNCHANGED <<now, window, counter, batch, queue, holder, customer, provider>>

(* release of a row a plan change marked.  No lock is asked for and the    *)
(* provider is not: the change may be under way, or may have gone through. *)
Release(b) ==
    /\ row[b].state = "needs_review" /\ row[b].why = "item_replaced"
    /\ row' = [row EXCEPT ![b].state = "reported", ![b].why = "none"]
    /\ blind' = IF lock = Marked \/ Stranded(b) THEN blind \cup {b} ELSE blind \ {b}
    /\ UNCHANGED <<now, window, counter, batch, queue, holder, customer, sub, accepted,
                   invoiced>>

-----------------------------------------------------------------------------
Next ==
    \/ \E b \in Batches : Submit(b) \/ Ingest(b) \/ Refuse(b) \/ Pass(b) \/ Send(b)
                          \/ Commit(b) \/ LoseReport(b) \/ Skip(b)
                          \/ Decide(b) \/ Release(b)
    \/ WindowRolls \/ Sweep
    \/ StartCheckout \/ Subscribe \/ Renew \/ PaymentFails \/ PaymentClears \/ SubscriptionEnds
    \/ ReadPlan \/ MarkStranded \/ ReplaceItem \/ AbandonChange

Spec == Init /\ [][Next]_vars

(* Some sweep of the beat gets the pending rows to the broker while no     *)
(* billing change is under way; a task that is delivered again and again   *)
(* gets its lock, and an answer, in the end; a plan change ends.           *)
Fairness ==
    /\ SF_vars(Sweep /\ lock = Free
                 /\ \A b \in Batches : row'[b].state = "pending" => b \in queue')
    /\ \A b \in Batches : SF_vars(Refuse(b) \/ Pass(b)) /\ SF_vars(Send(b) \/ Commit(b))
    /\ WF_vars(MarkStranded \/ ReplaceItem \/ AbandonChange)

FairSpec == Spec /\ Fairness

-----------------------------------------------------------------------------
(* Properties.                                                             *)

BatchRow == [stage : {"unsent", "out", "in"}, at : Nat, counted : Nat]
MeterRow == [state : Dispositions, why : Reasons, units : Nat]
Subscription == [status : {"none", "active", "unpaid", "ended"}, start : Nat, from : Nat,
                 item : Nat, itemAt : Nat]

TypeOK ==
    /\ now \in Nat /\ window \in Nat /\ used \in Nat /\ usedFrom \in Nat
    /\ batch \in [Batches -> BatchRow] /\ row \in [Batches -> MeterRow]
    /\ queue \subseteq Batches /\ lock \in Batches \cup {Free, Change, Marked}
    /\ customer \in BOOLEAN /\ sub \in Subscription /\ seen \in Subscription
    /\ accepted \in [Batches -> Nat \cup {Missed}] /\ blind \subseteq Batches
    /\ invoiced \subseteq Batches

(* A row says what became of its event, through plan changes, renewals,    *)
(* retries and decisions.  Reported, it was taken and is on its way to an  *)
(* invoice, unless whoever wrote so could not see what had happened: the   *)
(* period closed after the gate looked, or an operator released the row    *)
(* while its item was being replaced.  And a row whose event was taken is  *)
(* never pending again, refused or written off by the program (unless the  *)
(* report was lost after it was taken).                                    *)
RowsTellTheMeter ==
    \A b \in Batches :
        /\ row[b].state = "reported" => accepted[b] # 0 /\ (~Stranded(b) \/ b \in blind)
        /\ b \notin Lossy /\ accepted[b] # 0 =>
             \/ lock = b \/ row[b].why = "item_replaced"
             \/ row[b].state \in {"reported", "decided"}

CountedIn(w) == {b \in Batches : batch[b].stage = "in" /\ batch[b].counted = w}

(* The sum of f over S, as the size of a union of disjoint sets.           *)
Total(f, S) == Cardinality(UNION {{b} \X (1..f[b]) : b \in S})

Billed == [b \in Batches |-> row[b].units]

(* The rows of a window add up to the overage of what was counted in it,   *)
(* whatever the order and the delay of the batches, and no event is dated  *)
(* before the window it was counted in.                                    *)
WindowsAddUp ==
    /\ \A w \in Instants :
         Total(Billed, CountedIn(w)) = Over(Total(Lookups, CountedIn(w)))
    /\ \A b \in Batches : accepted[b] # 0 => batch[b].at >= batch[b].counted

Open(b) ==
    row[b].state = "pending" \/ (row[b].why = "no_customer_id" /\ customer)

(* Every row is reported, written off or put before a human with a reason  *)
(* that still holds, though enqueues, answers and locks fail.              *)
RowsAnswered == \A b \in Batches : Open(b) ~> ~Open(b)
=============================================================================
