-------------------------- MODULE UsageMeterProofs --------------------------
(* Proofs about UsageMeter: the types, and that a row tells what became of *)
(* its event, for any number of batches, plan changes and lost reports.    *)
EXTENDS UsageMeter, FiniteSetTheorems, TLAPS

-----------------------------------------------------------------------------
(* The inductive invariant.                                                *)

(* Everything dated was dated by now, a subscription that began has an     *)
(* item, and its periods only move on from what was read.                  *)
Past ==
    /\ \A b \in Batches : batch[b].at <= now
    /\ sub.itemAt <= now /\ sub.from <= now /\ seen.from <= sub.from
    /\ sub.status # "none" => sub.item # 0

(* What is not ingested has no row, no row is what is not decided, and a   *)
(* report under way is of the period its gate read.                        *)
Shape(b) ==
    /\ batch[b].stage # "in" => accepted[b] = 0 /\ row[b].state = "absent" /\ lock # b
    /\ row[b].state \in {"absent", "pending"} => row[b].why = "none"
    /\ row[b].why = "item_replaced" => accepted[b] # 0
    /\ lock = b => row[b].state = "pending" /\ seen.from <= batch[b].at

(* An event no item collected came in blind.  What an item took and no     *)
(* invoice has: if it is the open item, the usage is of the open period;   *)
(* if it is an older one, the usage is older than the open item, so that   *)
(* the gate never passes again.                                            *)
Taken(b) ==
    /\ accepted[b] = Missed => b \in blind
    /\ b \in invoiced => accepted[b] \notin {0, Missed}
    /\ accepted[b] \notin {0, Missed} /\ b \notin invoiced =>
         /\ accepted[b] <= sub.item
         /\ accepted[b] = sub.item => Live /\ batch[b].at >= sub.from
         /\ accepted[b] # sub.item => batch[b].at < sub.itemAt

(* RowsTellTheMeter of one row, the report on its way and the plan change  *)
(* under way included.                                                     *)
Told(b) ==
    /\ row[b].state = "reported" => accepted[b] # 0
    /\ row[b].state = "reported" \/ lock = b => ~Stranded(b) \/ b \in blind
    /\ row[b].state = "reported" /\ lock = Marked => b \in invoiced \/ b \in blind
    /\ b \notin Lossy /\ accepted[b] # 0 =>
         \/ lock = b \/ row[b].why = "item_replaced"
         \/ row[b].state \in {"reported", "decided"}

RowInv == \A b \in Batches : Shape(b) /\ Taken(b) /\ Told(b)

MeterInv == TypeOK /\ Past /\ RowInv

LEMMA InitInv == Init => MeterInv
<1> SUFFICES ASSUME Init PROVE MeterInv
  OBVIOUS
<1>0. /\ FirstSubscription \in Subscription /\ NoSubscription \in Subscription
      /\ sub = FirstSubscription \/ sub = NoSubscription
  BY DEF Init, Subscription, FirstSubscription, NoSubscription
<1>1. TypeOK
  BY <1>0 DEF Init, TypeOK, BatchRow, MeterRow, Dispositions, Reasons, Refusals
<1>2. Past
  BY DEF Init, Past, FirstSubscription, NoSubscription
<1>3. ASSUME NEW b \in Batches PROVE Shape(b) /\ Taken(b) /\ Told(b)
  <2>1. lock # b /\ lock # Marked /\ accepted[b] = 0 /\ Missed # 0
    BY MeterConstants DEF Init, Missed
  <2> QED BY <2>1 DEF Init, Shape, Taken, Told
<1> QED BY <1>1, <1>2, <1>3 DEF MeterInv, RowInv

-----------------------------------------------------------------------------
(* The types.                                                              *)

LEMMA Amounts ==
    ASSUME NEW m \in Nat, NEW n \in Nat
    PROVE  Over(m) \in Nat /\ Over(m + n) - Over(m) \in Nat
  BY MeterConstants DEF Over

(* A row that moves stays a row.                                           *)
LEMMA RowTyped ==
    ASSUME row \in [Batches -> MeterRow], NEW b \in Batches,
           NEW s \in Dispositions, NEW w \in Reasons
    PROVE  /\ [row EXCEPT ![b].state = s, ![b].why = w] \in [Batches -> MeterRow]
           /\ [row EXCEPT ![b].why = w, ![b].state = s] \in [Batches -> MeterRow]
           /\ [row[b] EXCEPT !.state = s, !.why = w] \in MeterRow
  BY DEF MeterRow

LEMMA ClockTyped == ASSUME TypeOK, Dated PROVE now' = now + 1 /\ now' \in Nat
  BY DEF TypeOK, Dated

LEMMA BatchTyped ==
    ASSUME batch \in [Batches -> BatchRow], NEW b \in Batches,
           NEW s \in {"unsent", "out", "in"}, NEW n \in Nat
    PROVE  /\ [batch EXCEPT ![b].stage = s, ![b].at = n] \in [Batches -> BatchRow]
           /\ [batch EXCEPT ![b].stage = s, ![b].counted = n] \in [Batches -> BatchRow]
  BY DEF BatchRow

LEMMA IngestTyped == ASSUME TypeOK, NEW b \in Batches, Ingest(b) PROVE TypeOK'
<1>1. PICK before \in Nat, n \in Nat : before = CountedBefore /\ n = Lookups[b]
  BY MeterConstants DEF TypeOK, CountedBefore
<1>2. PICK units : units = Over(before + n) - Over(before)
  OBVIOUS
<1>3. units \in Nat
  BY <1>2, Amounts
<1>4. used' \in Nat /\ usedFrom' \in Nat
  BY <1>1 DEF Ingest, TypeOK
<1>5. batch' \in [Batches -> BatchRow]
  BY BatchTyped DEF Ingest, TypeOK
<1>6. row' \in [Batches -> MeterRow]
  <2>1. \/ row' = row
        \/ \E s \in {"needs_review", "pending"}, w \in {"none", "outside_window"} :
               row' = [row EXCEPT ![b] = [state |-> s, units |-> units, why |-> w]]
    BY <1>1, <1>2 DEF Ingest
  <2>2. ASSUME NEW s \in {"needs_review", "pending"}, NEW w \in {"none", "outside_window"}
        PROVE  [state |-> s, units |-> units, why |-> w] \in MeterRow
    BY <1>3 DEF MeterRow, Dispositions, Reasons
  <2> QED BY <2>1, <2>2 DEF TypeOK
<1>7. queue' \subseteq Batches
  BY DEF Ingest, TypeOK
<1> QED BY <1>4, <1>5, <1>6, <1>7 DEF Ingest, TypeOK, provider, holder, taken

LEMMA Typed == TypeOK /\ [Next]_vars => TypeOK'
<1> SUFFICES ASSUME TypeOK, [Next]_vars PROVE TypeOK'
  OBVIOUS
<1>0. /\ "none" \in Reasons /\ "item_replaced" \in Reasons /\ Refusals \subseteq Reasons
      /\ \A b \in Batches, old \in BOOLEAN : Refusal(b, old) \in Refusals \cup {"none"}
      /\ {"pending", "reported", "needs_review", "non_billable", "decided"}
            \subseteq Dispositions
      /\ NoSubscription \in Subscription
  BY DEF Reasons, Refusals, Refusal, Dispositions, NoSubscription, Subscription
<1> USE DEF TypeOK, provider, counter, outbox, holder, taken, Unlock
<1>1. ASSUME NEW b \in Batches, Submit(b) PROVE TypeOK'
  <2>0. now + 1 \in Nat /\ Dated
    BY <1>1 DEF Submit
  <2>1. PICK at \in Nat : batch' = [batch EXCEPT ![b].stage = "out", ![b].at = at]
    BY <1>1, <2>0 DEF Submit
  <2>2. batch' \in [Batches -> BatchRow]
    BY <2>1, BatchTyped
  <2> QED BY <1>1, <2>0, <2>2, ClockTyped DEF Submit
<1>2. ASSUME NEW b \in Batches, Ingest(b) PROVE TypeOK'
  BY <1>2, IngestTyped
<1>3. ASSUME NEW b \in Batches, Refuse(b) PROVE TypeOK'
  <2>0. PICK s \in Dispositions, w \in Reasons :
           row' = [row EXCEPT ![b].why = w, ![b].state = s]
    BY <1>0, <1>3 DEF Refuse
  <2>1. row' \in [Batches -> MeterRow]
    BY <2>0, RowTyped
  <2> QED BY <1>3, <2>1 DEF Refuse
<1>4. ASSUME NEW b \in Batches, Pass(b) \/ Send(b) \/ LoseReport(b) \/ Skip(b) PROVE TypeOK'
  <2>1. accepted' \in [Batches -> Nat \cup {Missed}]
    BY <1>4 DEF Pass, Send, LoseReport, Skip, Subscription
  <2>2. lock' \in Batches \cup {Free, Change, Marked} /\ seen' \in Subscription
    BY <1>0, <1>4 DEF Pass, Send, LoseReport, Skip
  <2>3. queue' \subseteq Batches /\ blind' \subseteq Batches
    BY <1>4 DEF Pass, Send, LoseReport, Skip
  <2> QED BY <1>4, <2>1, <2>2, <2>3 DEF Pass, Send, LoseReport, Skip
<1>5. ASSUME NEW b \in Batches, Commit(b) \/ Decide(b) \/ Release(b) PROVE TypeOK'
  <2>1. PICK s \in Dispositions : row' = [row EXCEPT ![b].state = s, ![b].why = "none"]
    BY <1>0, <1>5 DEF Commit, Decide, Release
  <2>2. row' \in [Batches -> MeterRow]
    BY <1>0, <2>1, RowTyped
  <2>3. lock' \in Batches \cup {Free, Change, Marked} /\ seen' \in Subscription
    BY <1>0, <1>5 DEF Commit, Decide, Release
  <2>4. blind' \subseteq Batches
    BY <1>5 DEF Commit, Decide, Release
  <2> QED BY <1>5, <2>2, <2>3, <2>4 DEF Commit, Decide, Release
<1>7. CASE WindowRolls \/ StartCheckout
  <2>1. now' \in Nat /\ window' \in Nat
    BY <1>7 DEF WindowRolls, StartCheckout, Dated
  <2>2. customer' \in BOOLEAN
    BY <1>7 DEF WindowRolls, StartCheckout
  <2> QED BY <1>7, <2>1, <2>2 DEF WindowRolls, StartCheckout
<1>8. CASE Sweep
  <2>1. row' \in [Batches -> MeterRow]
    BY <1>0, <1>8, RowTyped DEF Sweep
  <2> QED BY <1>8, <2>1 DEF Sweep
<1>9. CASE Subscribe \/ Renew \/ PaymentFails \/ PaymentClears \/ SubscriptionEnds
  <2>1. sub' \in Subscription
    BY <1>9 DEF Subscribe, Renew, PaymentFails, PaymentClears, SubscriptionEnds, Live, Dated,
                  Subscription
  <2>2. invoiced' \subseteq Batches /\ now' \in Nat
    BY <1>9 DEF Subscribe, Renew, PaymentFails, PaymentClears, SubscriptionEnds, Dated, OnItem
  <2> QED BY <1>9, <2>1, <2>2
          DEF Subscribe, Renew, PaymentFails, PaymentClears, SubscriptionEnds
<1>10. CASE MarkStranded
  <2>1. row' \in [Batches -> MeterRow]
    BY <1>0, <1>10, RowTyped DEF MarkStranded
  <2> QED BY <1>10, <2>1 DEF MarkStranded
<1>6. CASE ReadPlan
  BY <1>6 DEF ReadPlan
<1>11. CASE ReplaceItem \/ AbandonChange
  <2>1. now + 1 \in Nat /\ now' \in Nat
    BY <1>11 DEF ReplaceItem, AbandonChange, Dated
  <2>2. sub.from \in Nat /\ sub.item + 1 \in Nat
    BY DEF Subscription
  <2>3. sub' \in Subscription
    <3>1. CASE AbandonChange
      BY <3>1 DEF AbandonChange
    <3>2. CASE ReplaceItem
      <4>1. PICK from \in {sub.from, now + 1} :
               sub' = [sub EXCEPT !.from = from, !.item = @ + 1, !.itemAt = now + 1]
        BY <3>2 DEF ReplaceItem
      <4> QED BY <2>1, <2>2, <4>1 DEF Subscription
    <3> QED BY <1>11, <3>1, <3>2
  <2> QED BY <1>0, <1>11, <2>1, <2>3 DEF ReplaceItem, AbandonChange
<1>12. CASE UNCHANGED vars
  BY <1>12 DEF vars
<1> QED
  BY <1>1, <1>2, <1>3, <1>4, <1>5, <1>6, <1>7, <1>8, <1>9, <1>10, <1>11, <1>12 DEF Next

(* Every variable keeps its type; no batch is ever billed a negative       *)
(* overage (report_lookups_for_user).                                      *)
THEOREM TypeCorrect == Spec => []TypeOK
<1>1. Init => TypeOK
  BY InitInv DEF MeterInv
<1> QED BY <1>1, Typed, PTL DEF Spec

-----------------------------------------------------------------------------
(* The rows.                                                               *)

LEMMA Fields ==
    ASSUME TypeOK
    PROVE  /\ now \in Nat /\ now + 1 \in Nat
           /\ sub.item \in Nat /\ sub.itemAt \in Nat /\ sub.from \in Nat /\ seen.from \in Nat
           /\ \A b \in Batches : batch[b].at \in Nat /\ accepted[b] \in Nat \cup {Missed}
           /\ \A b \in Batches : b # Free /\ b # Change /\ b # Marked
           /\ Free # Change /\ Free # Marked /\ Change # Marked
           /\ NoSubscription.from = 0 /\ Missed \in Int \ Nat
  BY MeterConstants DEF TypeOK, BatchRow, Subscription, NoSubscription, Missed

(* What was read of the subscription stays no newer than it is.            *)
LEMMA SeenKept ==
    ASSUME TypeOK, Past, seen' \in {seen, sub, NoSubscription},
           sub'.from \in Nat, sub.from <= sub'.from
    PROVE  seen'.from <= sub'.from
  BY Fields DEF Past

LEMMA PastKept == ASSUME MeterInv, [Next]_vars PROVE Past'
<1>1. TypeOK /\ Past /\ TypeOK'
  BY Typed DEF MeterInv
<1> USE <1>1, Fields DEF provider, counter, outbox, holder, taken, Unlock
<1>2. CASE \E b \in Batches : Submit(b)
  <2>1. PICK b \in Batches, at \in {now + 1, 0} :
           /\ Dated /\ sub' = sub /\ seen' = seen
           /\ batch' = [batch EXCEPT ![b].stage = "out", ![b].at = at]
    BY <1>2 DEF Submit
  <2>2. now' = now + 1
    BY <2>1, ClockTyped
  <2>3. \A c \in Batches : batch'[c].at = IF c = b THEN at ELSE batch[c].at
    BY <2>1 DEF TypeOK, BatchRow
  <2>4. at \in Nat /\ at <= now + 1
    BY <2>1
  <2>5. /\ sub'.itemAt <= now' /\ sub'.from <= now' /\ (sub'.status # "none" => sub'.item # 0)
        /\ seen'.from <= sub'.from
    BY <2>1, <2>2 DEF Past
  <2>6. ASSUME NEW c \in Batches PROVE batch'[c].at <= now'
    BY <2>2, <2>3, <2>4 DEF Past
  <2> QED BY <2>5, <2>6 DEF Past
<1>3. CASE \E b \in Batches : Ingest(b)
  <2>1. \A c \in Batches : batch'[c].at = batch[c].at
    BY <1>3 DEF Ingest, TypeOK, BatchRow
  <2>2. now' = now /\ sub' = sub /\ seen' = seen
    BY <1>3 DEF Ingest
  <2>3. /\ sub'.itemAt <= now' /\ sub'.from <= now' /\ (sub'.status # "none" => sub'.item # 0)
        /\ seen'.from <= sub'.from
    BY <2>2 DEF Past
  <2>4. ASSUME NEW c \in Batches PROVE batch'[c].at <= now'
    BY <2>1, <2>2 DEF Past
  <2> QED BY <2>3, <2>4 DEF Past
<1>4. CASE \E b \in Batches : \/ Refuse(b) \/ Pass(b) \/ Send(b) \/ Commit(b)
                             \/ LoseReport(b) \/ Skip(b) \/ Decide(b) \/ Release(b)
  <2>1. UNCHANGED <<now, batch, sub>> /\ seen' \in {seen, sub, NoSubscription}
    BY <1>4 DEF Refuse, Pass, Send, Commit, LoseReport, Skip, Decide, Release
  <2> QED BY <2>1, SeenKept DEF Past
<1>5. CASE \/ Sweep \/ StartCheckout \/ ReadPlan \/ MarkStranded \/ AbandonChange
           \/ UNCHANGED vars
  <2>1. UNCHANGED <<now, batch, sub>> /\ seen' \in {seen, sub, NoSubscription}
    BY <1>5 DEF Sweep, StartCheckout, ReadPlan, MarkStranded, AbandonChange, vars
  <2> QED BY <2>1, SeenKept DEF Past
<1>6. CASE WindowRolls \/ Subscribe \/ Renew \/ ReplaceItem
  <2>1. Dated /\ batch' = batch /\ seen' \in {seen, NoSubscription}
    BY <1>6 DEF WindowRolls, Subscribe, Renew, ReplaceItem
  <2>2. now' = now + 1
    BY <2>1, ClockTyped
  <2>3. CASE UNCHANGED sub
    BY <2>1, <2>2, <2>3, SeenKept DEF Past
  <2>4. CASE Subscribe \/ Renew
    <3>1. /\ sub'.itemAt \in {sub.itemAt, now + 1} /\ sub'.from = now + 1
          /\ sub'.item # 0
      BY <2>4 DEF Subscribe, Renew, Subscription, TypeOK, Past
    <3>2. seen'.from <= sub'.from
      BY <2>1, <3>1, SeenKept DEF Past
    <3> QED BY <2>1, <2>2, <3>1, <3>2 DEF Past
  <2>5. CASE ReplaceItem
    <3>1. PICK from \in {sub.from, now + 1} :
             sub' = [sub EXCEPT !.from = from, !.item = @ + 1, !.itemAt = now + 1]
      BY <2>5 DEF ReplaceItem
    <3>2. sub'.itemAt = now + 1 /\ sub'.from = from /\ sub'.item = sub.item + 1
      BY <3>1 DEF TypeOK, Subscription
    <3>3. seen'.from <= sub'.from
      BY <2>1, <3>2, SeenKept DEF Past
    <3> QED BY <2>1, <2>2, <3>2, <3>3 DEF Past
  <2> QED BY <1>6, <2>3, <2>4, <2>5 DEF WindowRolls
<1>7. CASE PaymentFails \/ PaymentClears \/ SubscriptionEnds
  <2>1. /\ UNCHANGED <<now, batch, seen>> /\ sub'.from = sub.from
        /\ sub'.itemAt = sub.itemAt /\ sub'.item = sub.item /\ sub.status # "none"
    BY <1>7 DEF PaymentFails, PaymentClears, SubscriptionEnds, Live, TypeOK, Subscription
  <2> QED BY <2>1 DEF Past
<1> QED BY <1>2, <1>3, <1>4, <1>5, <1>6, <1>7 DEF Next

(* A step of the application alone: what the provider took stays as it is. *)
LEMMA ProviderQuiet ==
    ASSUME NEW b \in Batches, UNCHANGED <<sub, accepted, invoiced>>,
           batch'[b].at = batch[b].at, Taken(b), b \in blind => b \in blind'
    PROVE  Taken(b)' /\ (Stranded(b)' <=> Stranded(b))
  BY DEF Taken, Stranded, Live

LEMMA RowSet ==
    ASSUME row \in [Batches -> MeterRow], NEW b \in Batches, NEW s, NEW w,
           row' = [row EXCEPT ![b].state = s, ![b].why = w]
    PROVE  /\ row'[b].state = s /\ row'[b].why = w
           /\ \A c \in Batches \ {b} : row'[c] = row[c]
  BY DEF MeterRow

(* The task and the operator, but for the send and the release.            *)
LEMMA RowMoves ==
    ASSUME MeterInv, NEW b \in Batches,
           \/ Refuse(b) \/ Commit(b) \/ LoseReport(b) \/ Skip(b) \/ Decide(b),
           NEW c \in Batches
    PROVE  Shape(c)' /\ Taken(c)' /\ Told(c)'
<1> USE Fields DEF MeterInv, holder, taken, Unlock
<1>1. UNCHANGED <<batch, sub, accepted, blind, invoiced>>
  BY DEF Refuse, Commit, LoseReport, Skip, Decide, provider
<1>2. Taken(c)' /\ (Stranded(c)' <=> Stranded(c))
  BY <1>1, ProviderQuiet DEF RowInv
<1>3. Shape(c) /\ Told(c) /\ Shape(b) /\ Told(b)
  BY DEF RowInv
<1>4. row \in [Batches -> MeterRow]
  BY DEF TypeOK
<1>5. CASE Refuse(b)
  <2>1. PICK s \in {"non_billable", "needs_review"}, old \in BOOLEAN :
           row' = [row EXCEPT ![b].why = Refusal(b, old), ![b].state = s]
    BY <1>5 DEF Refuse
  <2>2. /\ row'[b].state = s /\ row'[b].why = Refusal(b, old)
        /\ \A d \in Batches \ {b} : row'[d] = row[d]
    BY <1>4, <2>1 DEF MeterRow
  <2>3. row[b].state = "pending" /\ lock = Free /\ UNCHANGED <<lock, seen>>
    BY <1>5 DEF Refuse, Locked, Claimable
  <2>4. Refusal(b, old) # "item_replaced"
    BY DEF Refusal
  <2> QED BY <1>1, <1>2, <1>3, <2>2, <2>3, <2>4 DEF Shape, Told
<1>6. CASE Commit(b)
  <2>1. /\ row'[b].state = "reported" /\ row'[b].why = "none"
        /\ \A d \in Batches \ {b} : row'[d] = row[d]
    BY <1>4, <1>6, RowSet DEF Commit
  <2>2. lock = b /\ lock' = Free /\ accepted[b] # 0
    BY <1>6 DEF Commit
  <2> QED BY <1>1, <1>2, <1>3, <2>1, <2>2 DEF Shape, Told
<1>7. CASE LoseReport(b) \/ Skip(b)
  <2>1. /\ row' = row
        /\ \/ UNCHANGED <<lock, seen>>
           \/ lock = b /\ lock' = Free /\ (accepted[b] = 0 \/ b \in Lossy)
    BY <1>7 DEF LoseReport, Skip, outbox
  <2> QED BY <1>1, <1>2, <1>3, <2>1 DEF Shape, Told
<1>8. CASE Decide(b)
  <2>1. row' = [row EXCEPT ![b].state = "decided", ![b].why = "none"]
    BY <1>8 DEF Decide
  <2>2. /\ row'[b].state = "decided" /\ row'[b].why = "none"
        /\ \A d \in Batches \ {b} : row'[d] = row[d]
    BY <1>4, <2>1, RowSet
  <2>3. row[b].state = "needs_review" /\ UNCHANGED <<lock, seen>>
    BY <1>8 DEF Decide
  <2> QED BY <1>1, <1>2, <1>3, <2>2, <2>3 DEF Shape, Told
<1> QED BY <1>5, <1>6, <1>7, <1>8

(* A release of what is stranded, or may be in a moment, is blind; of      *)
(* anything else it is right.                                              *)
LEMMA ReleaseMoves ==
    ASSUME MeterInv, NEW b \in Batches, Release(b), NEW c \in Batches
    PROVE  Shape(c)' /\ Taken(c)' /\ Told(c)'
<1> USE Fields DEF MeterInv, holder
<1>1. UNCHANGED <<batch, sub, accepted, invoiced, lock, seen>>
  BY DEF Release
<1>2. /\ \A d \in Batches \ {b} : d \in blind' <=> d \in blind
      /\ b \in blind' <=> lock = Marked \/ Stranded(b)
  BY DEF Release
<1>3. Shape(c) /\ Told(c) /\ Taken(c) /\ Shape(b) /\ Told(b) /\ Taken(b)
  BY DEF RowInv
<1>4. /\ row'[b].state = "reported" /\ row'[b].why = "none"
      /\ \A d \in Batches \ {b} : row'[d] = row[d]
  BY RowSet DEF Release, TypeOK
<1>5. row[b].state = "needs_review" /\ accepted[b] # 0 /\ lock # b
  BY <1>3 DEF Release, Shape
<1>6. accepted[b] = Missed => Stranded(b)
  BY <1>3, <1>5 DEF Taken, Stranded
<1>7. Taken(c)' /\ (Stranded(c)' <=> Stranded(c))
  BY <1>1, <1>2, <1>3, <1>6 DEF Taken, Stranded, Live
<1> QED BY <1>1, <1>2, <1>3, <1>4, <1>5, <1>7 DEF Shape, Told

(* The batch before it has a row.                                          *)
LEMMA BatchMoves ==
    ASSUME MeterInv, NEW b \in Batches, Submit(b) \/ Ingest(b), NEW c \in Batches
    PROVE  Shape(c)' /\ Taken(c)' /\ Told(c)'
<1> USE Fields DEF MeterInv, holder, taken
<1>1. UNCHANGED <<lock, seen, sub, accepted, blind, invoiced>>
  BY DEF Submit, Ingest, outbox, provider
<1>2. Shape(c) /\ Taken(c) /\ Told(c)
  BY DEF RowInv
<1>3. batch[b].stage # "in"
  BY DEF Submit, Ingest
<1>4. /\ \A d \in Batches \ {b} : batch'[d] = batch[d]
      /\ (batch'[b].at = batch[b].at \/ (Submit(b) /\ batch'[b].stage = "out"))
  <2>1. CASE Submit(b)
    BY <2>1 DEF Submit, TypeOK, BatchRow
  <2>2. CASE Ingest(b)
    <3>1. batch' = [batch EXCEPT ![b].stage = "in", ![b].counted = window]
      BY <2>2 DEF Ingest
    <3>2. batch[b] \in BatchRow
      BY DEF TypeOK
    <3>3. batch' = [batch EXCEPT ![b] = [batch[b] EXCEPT !.stage = "in", !.counted = window]]
      BY <3>1
    <3>4. batch'[b].at = batch[b].at /\ \A d \in Batches \ {b} : batch'[d] = batch[d]
      BY <3>2, <3>3 DEF TypeOK, BatchRow
    <3> QED BY <3>4
  <2> QED BY <2>1, <2>2
<1>5. /\ \A d \in Batches \ {b} : row'[d] = row[d]
      /\ \/ row' = row
         \/ Ingest(b) /\ row'[b].state = "pending" /\ row'[b].why = "none"
         \/ Ingest(b) /\ row'[b].state = "needs_review" /\ row'[b].why = "outside_window"
  <2>1. CASE Submit(b)
    BY <2>1 DEF Submit, outbox
  <2>2. CASE Ingest(b)
    <3>1. PICK u : \/ row' = row
                   \/ row' = [row EXCEPT ![b] = [state |-> "pending", units |-> u, why |-> "none"]]
                   \/ row' = [row EXCEPT ![b] = [state |-> "needs_review", units |-> u,
                                                why |-> "outside_window"]]
      BY <2>2 DEF Ingest
    <3> QED BY <2>2, <3>1 DEF TypeOK
  <2> QED BY <2>1, <2>2
<1>6. CASE c # b
  <2>1. Taken(c)' /\ (Stranded(c)' <=> Stranded(c))
    BY <1>1, <1>2, <1>4, <1>6, ProviderQuiet
  <2> QED BY <1>1, <1>2, <1>4, <1>5, <1>6, <2>1 DEF Shape, Told
<1>7. CASE c = b
  <2>1. accepted[b] = 0 /\ row[b].state = "absent" /\ row[b].why = "none" /\ lock # b
    BY <1>2, <1>3, <1>7 DEF Shape
  <2>2. Taken(b)' /\ ~Stranded(b)'
    BY <1>1, <1>2, <1>7, <2>1 DEF Taken, Stranded
  <2>3. batch'[b].stage # "in" => row' = row
    BY <1>5 DEF Ingest, Submit, outbox, TypeOK, BatchRow
  <2> QED BY <1>1, <1>5, <1>7, <2>1, <2>2, <2>3 DEF Shape, Told
<1> QED BY <1>6, <1>7

(* The gate passes: usage of the open period only, which no older item     *)
(* has taken before.                                                       *)
LEMMA PassMoves ==
    ASSUME MeterInv, NEW b \in Batches, Pass(b), NEW c \in Batches
    PROVE  Shape(c)' /\ Taken(c)' /\ Told(c)'
<1> USE Fields DEF MeterInv, taken
<1>1. Shape(c) /\ Taken(c) /\ Told(c) /\ Taken(b) /\ Shape(b)
  BY DEF RowInv
<1>2. /\ UNCHANGED <<batch, row, sub, accepted, blind, invoiced>>
      /\ lock' = b /\ seen' = sub /\ lock = Free
  BY DEF Pass, Locked, provider
<1>3. row[b].state = "pending" /\ batch[b].stage = "in"
  BY <1>1 DEF Pass, Locked, Claimable, Shape
<1>4. Covered(b)
  BY DEF Pass, Refusal
<1>5. Taken(c)' /\ (Stranded(c)' <=> Stranded(c))
  BY <1>1, <1>2, ProviderQuiet
<1>6. ~Stranded(b) \/ b \in blind
  BY <1>1, <1>4 DEF Taken, Stranded, Covered, Live
<1> QED BY <1>1, <1>2, <1>3, <1>4, <1>5, <1>6 DEF Shape, Told, Covered

(* The provider takes the event: for the period the gate saw, if that is   *)
(* open still, and blindly if it is not.                                   *)
LEMMA SendMoves ==
    ASSUME MeterInv, NEW b \in Batches, Send(b), NEW c \in Batches
    PROVE  Shape(c)' /\ Taken(c)' /\ Told(c)'
<1> USE Fields DEF MeterInv
<1>1. Shape(c) /\ Taken(c) /\ Told(c) /\ Taken(b) /\ Shape(b)
  BY DEF RowInv
<1>2. /\ UNCHANGED <<batch, row, sub, invoiced, lock, seen>>
      /\ lock = b /\ accepted[b] = 0
  BY DEF Send, outbox, holder
<1>3. row[b].state = "pending" /\ batch[b].stage = "in" /\ seen.from <= batch[b].at
  BY <1>1, <1>2 DEF Shape
<1>4. /\ accepted'[b] = IF Live /\ sub.from <= batch[b].at THEN sub.item ELSE Missed
      /\ \A d \in Batches \ {b} : accepted'[d] = accepted[d]
      /\ \A d \in Batches \ {b} : d \in blind' <=> d \in blind
      /\ MovedOn => b \in blind'
  BY DEF Send, TypeOK
<1>5. CASE c # b
  <2>1. Taken(c)' /\ (Stranded(c)' <=> Stranded(c))
    BY <1>1, <1>2, <1>4, <1>5 DEF Taken, Stranded, Live
  <2> QED BY <1>1, <1>2, <1>4, <1>5, <2>1 DEF Shape, Told
<1>6. CASE c = b /\ Live /\ sub.from <= batch[b].at
  <2>1. accepted'[b] = sub.item /\ sub.item # 0
    BY <1>4, <1>6 DEF Past, Live
  <2>2. Taken(b)' /\ ~Stranded(b)'
    BY <1>2, <1>6, <2>1 DEF Taken, Stranded, Live
  <2> QED BY <1>1, <1>2, <1>3, <1>6, <2>1, <2>2 DEF Shape, Told
<1>7. CASE c = b /\ ~(Live /\ sub.from <= batch[b].at)
  <2>1. accepted'[b] = Missed /\ b \in blind'
    BY <1>3, <1>4, <1>7 DEF MovedOn
  <2>2. b \notin invoiced
    BY <1>1, <1>2 DEF Taken
  <2> QED BY <1>1, <1>2, <1>3, <1>7, <2>1, <2>2 DEF Shape, Taken, Told
<1> QED BY <1>5, <1>6, <1>7

(* The beat and the plan change, before and without the provider.          *)
LEMMA SweepMoves ==
    ASSUME MeterInv, NEW c \in Batches,
           \/ Sweep \/ StartCheckout \/ WindowRolls
           \/ ReadPlan \/ MarkStranded \/ AbandonChange \/ UNCHANGED vars
    PROVE  Shape(c)' /\ Taken(c)' /\ Told(c)'
<1> USE Fields DEF MeterInv, holder, taken, Unlock
<1>1. UNCHANGED <<batch, sub, accepted, blind, invoiced>>
  BY DEF Sweep, StartCheckout, WindowRolls, ReadPlan, MarkStranded, AbandonChange, vars, provider
<1>2. Shape(c) /\ Taken(c) /\ Told(c)
  BY DEF RowInv
<1>3. Taken(c)' /\ (Stranded(c)' <=> Stranded(c))
  BY <1>1, <1>2, ProviderQuiet
<1>4. CASE Sweep
  <2>1. UNCHANGED <<lock, seen>>
    BY <1>4 DEF Sweep
  <2>2. \/ row'[c] = row[c]
        \/ /\ row'[c].state = "pending" /\ row'[c].why = "none"
           /\ row[c].state = "needs_review" /\ row[c].why = "no_customer_id"
    <3>1. row'[c] = IF c \in HeldForCustomer
                    THEN [row[c] EXCEPT !.state = "pending", !.why = "none"] ELSE row[c]
      BY <1>4 DEF Sweep
    <3>2. row[c] \in MeterRow
      BY DEF TypeOK
    <3>3. c \in HeldForCustomer => row[c].state = "needs_review" /\ row[c].why = "no_customer_id"
      BY DEF HeldForCustomer
    <3> QED BY <3>1, <3>2, <3>3 DEF MeterRow
  <2> QED BY <1>1, <1>2, <1>3, <2>1, <2>2 DEF Shape, Told
<1>5. CASE StartCheckout \/ WindowRolls \/ ReadPlan \/ AbandonChange \/ UNCHANGED vars
  <2>1. /\ row' = row
        /\ \/ UNCHANGED <<lock, seen>>
           \/ lock = Free /\ lock' = Change
           \/ lock \in {Change, Marked} /\ lock' = Free
    <3>1. CASE StartCheckout \/ WindowRolls
      BY <3>1 DEF StartCheckout, WindowRolls, outbox
    <3>2. CASE ReadPlan \/ AbandonChange
      BY <3>2 DEF ReadPlan, AbandonChange
    <3>3. CASE UNCHANGED vars
      BY <3>3 DEF vars
    <3> QED BY <1>5, <3>1, <3>2, <3>3
  <2> QED BY <1>1, <1>2, <1>3, <2>1 DEF Shape, Told
<1>6. CASE MarkStranded
  <2>1. lock = Change /\ lock' = Marked /\ seen' = seen
    BY <1>6 DEF MarkStranded
  <2>2. \/ row'[c] = row[c] /\ (row[c].state = "reported" => ~OfPeriod(c))
        \/ /\ row'[c].state = "needs_review" /\ row'[c].why = "item_replaced"
           /\ row[c].state = "reported"
    BY <1>6 DEF MarkStranded, TypeOK, MeterRow
  <2>3. batch[c].at < seen.from => batch[c].at < sub.from
    BY DEF Past
  <2>4. row[c].state = "reported" /\ ~OfPeriod(c) => c \in invoiced \/ c \in blind
    BY <1>2, <2>3 DEF Told, Stranded, Taken, OfPeriod
  <2> QED BY <1>1, <1>2, <1>3, <2>1, <2>2, <2>4 DEF Shape, Told
<1> QED BY <1>4, <1>5, <1>6

(* The provider.                                                           *)
LEMMA SubscriptionMoves ==
    ASSUME MeterInv, NEW c \in Batches,
           \/ Subscribe \/ Renew \/ PaymentFails \/ PaymentClears \/ SubscriptionEnds
           \/ ReplaceItem
    PROVE  Shape(c)' /\ Taken(c)' /\ Told(c)'
<1> USE Fields DEF MeterInv, holder, taken, Live
<1>1. UNCHANGED <<batch, row, accepted, blind>>
  BY DEF Subscribe, Renew, PaymentFails, PaymentClears, SubscriptionEnds, ReplaceItem, outbox
<1>2. Shape(c) /\ Taken(c) /\ Told(c) /\ batch[c].at <= now /\ sub \in Subscription
  BY DEF RowInv, Past, TypeOK
<1>3. CASE Subscribe
  <2>1. /\ sub.status \in {"none", "ended"} /\ sub'.item = sub.item + 1
        /\ sub'.itemAt = now + 1 /\ UNCHANGED <<lock, seen, invoiced>>
    BY <1>3 DEF Subscribe, outbox
  <2> QED BY <1>1, <1>2, <2>1 DEF Shape, Taken, Told, Stranded
<1>4. CASE Renew \/ SubscriptionEnds
  <2>1. /\ sub.status \in {"active", "unpaid"}
        /\ UNCHANGED <<lock, seen>> /\ invoiced' = invoiced \cup OnItem
        /\ sub'.item = sub.item /\ sub'.itemAt = sub.itemAt
    BY <1>2, <1>4 DEF Renew, SubscriptionEnds, Subscription, outbox
  <2>2. c \in OnItem <=> accepted[c] # 0 /\ accepted[c] = sub.item
    BY DEF OnItem
  <2> QED BY <1>1, <1>2, <2>1, <2>2 DEF Shape, Taken, Told, Stranded
<1>5. CASE PaymentFails \/ PaymentClears
  <2>1. /\ sub.status \in {"active", "unpaid"} /\ sub'.status \in {"active", "unpaid"}
        /\ UNCHANGED <<lock, seen, invoiced>> /\ sub'.item = sub.item
        /\ sub'.itemAt = sub.itemAt /\ sub'.from = sub.from
    BY <1>2, <1>5 DEF PaymentFails, PaymentClears, Subscription, outbox
  <2> QED BY <1>1, <1>2, <2>1 DEF Shape, Taken, Told, Stranded
<1>6. CASE ReplaceItem
  <2>1. PICK from \in {sub.from, now + 1} :
           sub' = [sub EXCEPT !.from = from, !.item = @ + 1, !.itemAt = now + 1]
    BY <1>6 DEF ReplaceItem
  <2>2. /\ sub'.item = sub.item + 1 /\ sub'.itemAt = now + 1
        /\ lock = Marked /\ lock' = Free /\ invoiced' = invoiced
    BY <1>2, <1>6, <2>1 DEF ReplaceItem, Unlock, Subscription
  <2> QED BY <1>1, <1>2, <2>2 DEF Shape, Taken, Told, Stranded
<1> QED BY <1>3, <1>4, <1>5, <1>6

-----------------------------------------------------------------------------
(* A row says what became of its event, whenever the operator releases     *)
(* rows and whatever the subscription does between the gate and the send:  *)
(* what is reported is on its way to an invoice, or was written so by      *)
(* somebody who could not see the change; and no row whose event was taken *)
(* is held, refused or pending, unless its report was lost                 *)
(* (report_skip_trace_meter_event, _mark_stranded_metered_usage, the       *)
(* settle script).                                                         *)
THEOREM RowsTrue == Spec => []RowsTellTheMeter
<1>1. MeterInv /\ [Next]_vars => MeterInv'
  <2> SUFFICES ASSUME MeterInv, [Next]_vars PROVE MeterInv'
    OBVIOUS
  <2>1. TypeOK' /\ Past'
    BY Typed, PastKept DEF MeterInv
  <2>2. ASSUME NEW c \in Batches PROVE Shape(c)' /\ Taken(c)' /\ Told(c)'
    <3>1. CASE \E b \in Batches : Submit(b) \/ Ingest(b)
      BY <3>1, BatchMoves
    <3>2. CASE \E b \in Batches : Pass(b)
      BY <3>2, PassMoves
    <3>3. CASE \E b \in Batches : Send(b)
      BY <3>3, SendMoves
    <3>4. CASE \E b \in Batches : \/ Refuse(b) \/ Commit(b) \/ LoseReport(b) \/ Skip(b)
                                 \/ Decide(b)
      BY <3>4, RowMoves
    <3>5. CASE \E b \in Batches : Release(b)
      BY <3>5, ReleaseMoves
    <3>6. CASE \/ Sweep \/ StartCheckout \/ WindowRolls
               \/ ReadPlan \/ MarkStranded \/ AbandonChange \/ UNCHANGED vars
      BY <3>6, SweepMoves
    <3>7. CASE \/ Subscribe \/ Renew \/ PaymentFails \/ PaymentClears \/ SubscriptionEnds
               \/ ReplaceItem
      BY <3>7, SubscriptionMoves
    <3> QED BY <3>1, <3>2, <3>3, <3>4, <3>5, <3>6, <3>7 DEF Next
  <2> QED BY <2>1, <2>2 DEF MeterInv, RowInv
<1>2. MeterInv => RowsTellTheMeter
  BY DEF MeterInv, RowInv, Told, RowsTellTheMeter
<1> QED BY InitInv, <1>1, <1>2, PTL DEF Spec

-----------------------------------------------------------------------------
(* The counter and the overage.                                            *)

UnitsOf(f, S) == UNION {{b} \X (1..f[b]) : b \in S}

LEMMA UnitsFinite ==
    ASSUME NEW f \in [Batches -> Nat], NEW S \in SUBSET Batches
    PROVE  IsFiniteSet(UnitsOf(f, S)) /\ Total(f, S) \in Nat
<1> DEFINE parts == {{b} \X (1..f[b]) : b \in S}
           part == [b \in S |-> {b} \X (1..f[b])]
<1>1. IsFiniteSet(S)
  BY MeterConstants, FS_Subset DEF MeterConstants
<1>2. part \in Surjection(S, parts)
  BY DEF Surjection
<1>3. IsFiniteSet(parts)
  BY <1>1, <1>2, FS_Surjection
<1>4. ASSUME NEW b \in S PROVE IsFiniteSet({b} \X (1..f[b]))
  <2>1. \A n \in Nat : IsFiniteSet(1..n)
    BY FS_Interval
  <2>2. IsFiniteSet({b}) /\ IsFiniteSet(1..f[b])
    BY <2>1, FS_Singleton
  <2> QED BY <2>2, FS_Product
<1>5. IsFiniteSet(UNION parts)
  BY <1>3, <1>4, FS_UNION
<1> QED BY <1>5, FS_CardinalityType DEF UnitsOf, Total

LEMMA TotalAdds ==
    ASSUME NEW f \in [Batches -> Nat], NEW S \in SUBSET Batches, NEW b \in Batches \ S
    PROVE  Total(f, S \cup {b}) = Total(f, S) + f[b]
<1> DEFINE N == {b} \X (1..f[b])
<1>1. UnitsOf(f, S \cup {b}) = UnitsOf(f, S) \cup N /\ UnitsOf(f, S) \cap N = {}
  BY DEF UnitsOf
<1>2. \A n \in Nat : IsFiniteSet(1..n) /\ Cardinality(1..n) = n
  BY FS_Interval
<1>3. f[b] \in Nat
  OBVIOUS
<1>4. IsFiniteSet({b}) /\ Cardinality({b}) = 1
  BY FS_Singleton
<1>5. IsFiniteSet(N) /\ Cardinality(N) = Cardinality({b}) * Cardinality(1..f[b])
  BY <1>2, <1>3, <1>4, FS_Product
<1>6. Cardinality(N) = f[b]
  BY <1>2, <1>3, <1>4, <1>5
<1>7. IsFiniteSet(UnitsOf(f, S)) /\ Cardinality(UnitsOf(f, S)) \in Nat
  BY UnitsFinite DEF Total, UnitsOf
<1> HIDE DEF N
<1>8. Cardinality(UnitsOf(f, S) \cup N)
        = Cardinality(UnitsOf(f, S)) + Cardinality(N) - Cardinality(UnitsOf(f, S) \cap N)
  BY <1>5, <1>7, FS_Union
<1>9. Cardinality(UnitsOf(f, S) \cap N) = 0
  BY <1>1, FS_EmptySet
<1>10. Cardinality(UnitsOf(f, S \cup {b})) = Cardinality(UnitsOf(f, S)) + f[b]
  <2>1. ASSUME NEW p \in Nat, NEW q \in Nat, NEW z, z = 0 PROVE p + q - z = p + q
    BY <2>1
  <2>2. Cardinality(UnitsOf(f, S) \cup N) = Cardinality(UnitsOf(f, S)) + f[b]
    BY <1>3, <1>6, <1>7, <1>8, <1>9, <2>1
  <2> QED BY <1>1, <2>2
<1> QED BY <1>10 DEF Total, UnitsOf

LEMMA TotalSame ==
    ASSUME NEW f, NEW g, NEW S, \A b \in S : f[b] = g[b]
    PROVE  Total(f, S) = Total(g, S)
<1>1. UnitsOf(f, S) = UnitsOf(g, S)
  BY DEF UnitsOf
<1> QED BY <1>1 DEF Total, UnitsOf

LEMMA TotalNone == \A f : Total(f, {}) = 0
<1>1. \A f : UnitsOf(f, {}) = {}
  BY DEF UnitsOf
<1> QED BY <1>1, FS_EmptySet DEF Total, UnitsOf

(* A batch that is not ingested has been asked for and billed nothing.     *)
Fresh(b) ==
    batch[b].stage # "in" =>
        /\ accepted[b] = 0 /\ lock # b
        /\ row[b].units = 0 /\ row[b].state = "absent" /\ row[b].why = "none"

(* The counter belongs to the last window anything was counted in.         *)
InOrder ==
    /\ window <= now /\ usedFrom <= window
    /\ \A b \in Batches : batch[b].stage = "in" => batch[b].counted <= usedFrom

(* What may be sent, or is, is dated in the window it was counted in, or   *)
(* later, if it is dated at all.                                           *)
WellDated(b) ==
    /\ row[b].state = "pending" \/ row[b].why = "no_customer_id" =>
         batch[b].at = 0 \/ batch[b].at >= batch[b].counted
    /\ accepted[b] # 0 \/ lock = b => batch[b].at >= batch[b].counted

Sums ==
    /\ used = Total(Lookups, CountedIn(usedFrom))
    /\ \A w \in Nat : Total(Billed, CountedIn(w)) = Over(Total(Lookups, CountedIn(w)))

CountInv ==
    TypeOK /\ InOrder /\ (\A b \in Batches : Fresh(b) /\ WellDated(b)) /\ Sums

LEMMA CountStarts == Init => CountInv
<1> SUFFICES ASSUME Init PROVE CountInv
  OBVIOUS
<1>1. TypeOK
  BY InitInv DEF MeterInv
<1>2. InOrder
  BY DEF Init, InOrder
<1>3. ASSUME NEW b \in Batches PROVE Fresh(b) /\ WellDated(b)
  BY MeterConstants DEF MeterConstants, Init, Fresh, WellDated
<1>4. Sums
  <2>1. \A w : CountedIn(w) = {}
    BY DEF Init, CountedIn
  <2>2. Over(0) = 0
    BY MeterConstants DEF MeterConstants, Over
  <2> QED BY <2>1, <2>2, TotalNone DEF Sums, Init
<1> QED BY <1>1, <1>2, <1>3, <1>4 DEF CountInv

(* What every step but a submission and an ingest leaves alone.            *)
LEMMA CountQuiet ==
    ASSUME TypeOK, InOrder, [Next]_vars, \A b \in Batches : ~Submit(b) /\ ~Ingest(b)
    PROVE  /\ UNCHANGED <<used, usedFrom, batch>>
           /\ window' <= now' /\ usedFrom' <= window'
           /\ \A b \in Batches : row'[b].units = row[b].units
<1> USE DEF provider, counter, outbox, holder, taken, Unlock
<1>1. now \in Nat /\ window \in Nat /\ usedFrom \in Nat /\ window <= now /\ usedFrom <= window
  BY DEF TypeOK, InOrder
<1>2. CASE Sweep
  <2>1. \A b \in Batches :
          \/ row'[b] = row[b]
          \/ row'[b] = [row[b] EXCEPT !.state = "pending", !.why = "none"]
    BY <1>2 DEF Sweep
  <2>2. \A b \in Batches : row'[b].units = row[b].units
    BY <2>1 DEF TypeOK, MeterRow
  <2> QED BY <1>1, <1>2, <2>2 DEF Sweep
<1>3. CASE MarkStranded
  <2>1. \A b \in Batches :
          \/ row'[b] = row[b]
          \/ row'[b] = [row[b] EXCEPT !.state = "needs_review", !.why = "item_replaced"]
    BY <1>3 DEF MarkStranded
  <2>2. \A b \in Batches : row'[b].units = row[b].units
    BY <2>1 DEF TypeOK, MeterRow
  <2> QED BY <1>1, <1>3, <2>2 DEF MarkStranded
<1>7. ASSUME NEW b \in Batches, Refuse(b) \/ Commit(b) \/ Decide(b) \/ Release(b)
      PROVE  \A c \in Batches : row'[c].units = row[c].units
  <2>1. \E s, w : \/ row' = [row EXCEPT ![b].state = s, ![b].why = w]
                 \/ row' = [row EXCEPT ![b].why = w, ![b].state = s]
    <3>1. CASE Refuse(b)
      BY <3>1 DEF Refuse
    <3>2. CASE Commit(b) \/ Release(b)
      BY <3>2 DEF Commit, Release
    <3>3. CASE Decide(b)
      BY <3>3 DEF Decide
    <3> QED BY <1>7, <3>1, <3>2, <3>3
  <2> QED BY <2>1 DEF TypeOK, MeterRow
<1>8. CASE \E b \in Batches : Refuse(b) \/ Commit(b) \/ Decide(b) \/ Release(b)
  BY <1>1, <1>7, <1>8 DEF Refuse, Commit, Decide, Release
<1>4. CASE \E b \in Batches : Pass(b) \/ Send(b) \/ LoseReport(b) \/ Skip(b)
  BY <1>1, <1>4 DEF Pass, Send, LoseReport, Skip
<1>5. CASE WindowRolls \/ StartCheckout \/ ReadPlan \/ AbandonChange \/ UNCHANGED vars
  BY <1>1, <1>5 DEF WindowRolls, StartCheckout, ReadPlan, AbandonChange, vars, Dated
<1>6. CASE \/ Subscribe \/ Renew \/ PaymentFails \/ PaymentClears \/ SubscriptionEnds
           \/ ReplaceItem
  BY <1>1, <1>6 DEF Subscribe, Renew, PaymentFails, PaymentClears, SubscriptionEnds,
                    ReplaceItem, Dated
<1> QED BY <1>2, <1>3, <1>4, <1>5, <1>6, <1>8 DEF Next

(* Nobody touches a row before its batch is ingested; a row becomes        *)
(* pending, or is held for a customer, only if it was one of these; an     *)
(* event is taken only from the holder of the lock, and a task becomes     *)
(* that only for a pending row whose usage is dated.                       *)
LEMMA RowQuiet ==
    ASSUME TypeOK, [Next]_vars, NEW c \in Batches, ~Submit(c), ~Ingest(c)
    PROVE  /\ batch[c].stage # "in" /\ Fresh(c) =>
                row'[c] = row[c] /\ accepted'[c] = accepted[c] /\ lock' # c
           /\ row'[c].state = "pending" \/ row'[c].why = "no_customer_id" =>
                row[c].state = "pending" \/ row[c].why = "no_customer_id"
           /\ accepted'[c] # 0 => accepted[c] # 0 \/ lock = c
           /\ lock' = c => lock = c \/ (row[c].state = "pending" /\ batch[c].at # 0)
<1> DEFINE Goal ==
             /\ batch[c].stage # "in" /\ Fresh(c) =>
                  row'[c] = row[c] /\ accepted'[c] = accepted[c] /\ lock' # c
             /\ row'[c].state = "pending" \/ row'[c].why = "no_customer_id" =>
                  row[c].state = "pending" \/ row[c].why = "no_customer_id"
             /\ accepted'[c] # 0 => accepted[c] # 0 \/ lock = c
             /\ lock' = c => lock = c \/ (row[c].state = "pending" /\ batch[c].at # 0)
<1> USE DEF provider, counter, outbox, holder, taken, Unlock
<1>0. c # Free /\ c # Change /\ c # Marked /\ row[c] \in MeterRow /\ row \in [Batches -> MeterRow]
  BY MeterConstants DEF MeterConstants, TypeOK
<1>1. ASSUME UNCHANGED <<row, accepted>>, lock' \in {lock, Free, Change, Marked} PROVE Goal
  BY <1>0, <1>1 DEF Fresh
<1>2. ASSUME NEW b \in Batches, b # c, UNCHANGED accepted, lock' \in {lock, Free},
             NEW s, NEW w,
             \/ row' = [row EXCEPT ![b].state = s, ![b].why = w]
             \/ row' = [row EXCEPT ![b].why = w, ![b].state = s]
      PROVE  Goal
  <2>1. row'[c] = row[c]
    BY <1>0, <1>2
  <2> QED BY <1>0, <1>2, <2>1 DEF Fresh
<1>3. ASSUME UNCHANGED accepted, lock' \in {lock, Free},
             NEW s, NEW w, s # "pending",
             \/ row' = [row EXCEPT ![c].state = s, ![c].why = w]
             \/ row' = [row EXCEPT ![c].why = w, ![c].state = s],
             w = "no_customer_id" => row[c].state = "pending",
             row[c].state # "absent" \/ lock = c
      PROVE  Goal
  <2>1. row'[c].state = s /\ row'[c].why = w
    BY <1>0, <1>3 DEF MeterRow
  <2> QED BY <1>0, <1>3, <2>1 DEF Fresh
<1>4. ASSUME NEW b \in Batches, Refuse(b) \/ Commit(b) \/ Decide(b) \/ Release(b) PROVE Goal
  <2>1. CASE Refuse(b)
    <3>1. PICK s \in {"non_billable", "needs_review"}, old \in BOOLEAN :
             row' = [row EXCEPT ![b].why = Refusal(b, old), ![b].state = s]
      BY <2>1 DEF Refuse
    <3>2. UNCHANGED <<accepted, lock>> /\ row[b].state = "pending"
      BY <2>1 DEF Refuse, Locked, Claimable
    <3> QED BY <1>2, <1>3, <3>1, <3>2
  <2>2. CASE Commit(b)
    <3>1. row' = [row EXCEPT ![b].state = "reported", ![b].why = "none"]
      BY <2>2 DEF Commit
    <3>2. UNCHANGED accepted /\ lock = b /\ lock' = Free
      BY <2>2 DEF Commit
    <3>3. CASE b # c
      BY <1>2, <3>1, <3>2, <3>3
    <3>4. CASE b = c
      <4>1. row'[c].state = "reported" /\ row'[c].why = "none"
        BY <1>0, <3>1, <3>4, RowSet
      <4> QED BY <3>2, <3>4, <4>1 DEF Fresh
    <3> QED BY <3>3, <3>4
  <2>3. CASE Decide(b) \/ Release(b)
    <3>1. PICK s \in {"decided", "reported"} :
             row' = [row EXCEPT ![b].state = s, ![b].why = "none"]
      BY <2>3 DEF Decide, Release
    <3>2. UNCHANGED <<accepted, lock>> /\ row[b].state = "needs_review"
      BY <2>3 DEF Decide, Release
    <3>3. CASE b # c
      BY <1>2, <3>1, <3>2, <3>3
    <3>4. CASE b = c
      <4>1. row'[c].state = s /\ row'[c].why = "none"
        BY <1>0, <3>1, <3>4, RowSet
      <4> QED BY <3>2, <3>4, <4>1 DEF Fresh
    <3> QED BY <3>3, <3>4
  <2> QED BY <1>4, <2>1, <2>2, <2>3
<1>5. ASSUME NEW b \in Batches, Pass(b) PROVE Goal
  <2>1. UNCHANGED <<row, accepted>> /\ lock' = b /\ row[b].state = "pending"
    BY <1>5 DEF Pass, Locked, Claimable
  <2>2. batch[b].at # 0
    BY <1>5 DEF Pass, Refusal
  <2> QED BY <2>1, <2>2 DEF Fresh
<1>10. ASSUME NEW b \in Batches, Send(b) PROVE Goal
  <2>1. UNCHANGED <<row, lock>> /\ lock = b
    BY <1>10 DEF Send
  <2>2. c # b => accepted'[c] = accepted[c]
    BY <1>10 DEF Send, TypeOK
  <2> QED BY <2>1, <2>2 DEF Fresh
<1>6. ASSUME NEW b \in Batches, Submit(b) \/ Ingest(b) PROVE Goal
  <2>1. b # c
    BY <1>6
  <2>2. UNCHANGED <<accepted, lock>>
    BY <1>6 DEF Submit, Ingest
  <2>3. row' = row \/ \E r : row' = [row EXCEPT ![b] = r]
    BY <1>6 DEF Submit, Ingest
  <2>4. row'[c] = row[c]
    BY <1>0, <2>1, <2>3
  <2> QED BY <2>2, <2>4 DEF Fresh
<1>7. ASSUME NEW b \in Batches, LoseReport(b) \/ Skip(b) PROVE Goal
  BY <1>1, <1>7 DEF LoseReport, Skip
<1>8. CASE Sweep \/ MarkStranded
  <2>1. UNCHANGED accepted /\ lock' \in {lock, Marked}
    BY <1>8 DEF Sweep, MarkStranded
  <2>2. \/ row'[c] = row[c]
        \/ row[c].state = "needs_review" /\ row[c].why = "no_customer_id"
        \/ /\ row[c].state = "reported"
           /\ row'[c].state = "needs_review" /\ row'[c].why = "item_replaced"
    BY <1>0, <1>8 DEF Sweep, MarkStranded, HeldForCustomer, MeterRow
  <2> QED BY <1>0, <2>1, <2>2 DEF Fresh
<1>9. CASE \/ WindowRolls \/ StartCheckout \/ ReadPlan \/ AbandonChange \/ Subscribe \/ Renew
           \/ PaymentFails \/ PaymentClears \/ SubscriptionEnds \/ ReplaceItem
           \/ UNCHANGED vars
  BY <1>1, <1>9 DEF WindowRolls, StartCheckout, ReadPlan, AbandonChange, Subscribe, Renew,
                    PaymentFails, PaymentClears, SubscriptionEnds, ReplaceItem, vars
<1> QED BY <1>4, <1>5, <1>6, <1>7, <1>8, <1>9, <1>10 DEF Next

(* A step that ingests nothing leaves every window as it was.              *)
LEMMA QuietCounts ==
    ASSUME CountInv, [Next]_vars, \A b \in Batches : ~Ingest(b)
    PROVE  InOrder' /\ Sums' /\ \A c \in Batches : Fresh(c)' /\ WellDated(c)'
<1> USE DEF CountInv
<1>0. \A c \in Batches : batch[c] \in BatchRow /\ Fresh(c) /\ WellDated(c)
  BY DEF TypeOK
<1>1. CASE \E b \in Batches : Submit(b)
  <2>1. PICK b \in Batches : Submit(b)
    BY <1>1
  <2>2. PICK at : batch' = [batch EXCEPT ![b].stage = "out", ![b].at = at]
    BY <2>1 DEF Submit
  <2>3. /\ batch[b].stage = "unsent" /\ now' = now + 1
        /\ UNCHANGED <<window, used, usedFrom, row, lock, accepted>>
    BY <2>1 DEF Submit, Dated, counter, outbox, provider, holder, taken
  <2>4. /\ batch'[b].stage = "out"
        /\ \A c \in Batches \ {b} : batch'[c] = batch[c]
    BY <1>0, <2>2 DEF TypeOK, BatchRow
  <2>5. InOrder'
    BY <2>3, <2>4 DEF InOrder, TypeOK
  <2>6. ASSUME NEW c \in Batches PROVE Fresh(c)' /\ WellDated(c)'
    BY <1>0, <2>3, <2>4 DEF Fresh, WellDated
  <2>7. Sums'
    <3>1. \A w : CountedIn(w)' = CountedIn(w)
      BY <2>3, <2>4 DEF CountedIn
    <3>2. Billed' = Billed
      BY <2>3 DEF Billed
    <3> QED BY <2>3, <3>1, <3>2 DEF Sums
  <2> QED BY <2>5, <2>6, <2>7
<1>2. CASE \A b \in Batches : ~Submit(b)
  <2>1. /\ UNCHANGED <<used, usedFrom, batch>>
        /\ window' <= now' /\ usedFrom' <= window'
        /\ \A b \in Batches : row'[b].units = row[b].units
    BY <1>2, CountQuiet
  <2>2. InOrder'
    BY <2>1 DEF InOrder
  <2>3. ASSUME NEW c \in Batches PROVE Fresh(c)' /\ WellDated(c)'
    <3>1. ~Submit(c) /\ ~Ingest(c)
      BY <1>2
    <3>2. Fresh(c)'
      BY <1>0, <2>1, <3>1, RowQuiet DEF Fresh
    <3>3. WellDated(c)'
      BY <1>0, <2>1, <3>1, RowQuiet DEF WellDated
    <3> QED BY <3>2, <3>3
  <2>4. Sums'
    <3>1. \A w : CountedIn(w)' = CountedIn(w)
      BY <2>1 DEF CountedIn
    <3>2. Billed' = Billed
      BY <2>1 DEF Billed
    <3> QED BY <2>1, <3>1, <3>2 DEF Sums
  <2> QED BY <2>2, <2>3, <2>4
<1> QED BY <1>1, <1>2

(* The ingest counts its batch in the window that is open, and bills what  *)
(* it adds to that window's overage.                                       *)
LEMMA IngestCounts ==
    ASSUME CountInv, NEW b \in Batches, Ingest(b)
    PROVE  InOrder' /\ Sums' /\ \A c \in Batches : Fresh(c)' /\ WellDated(c)'
<1> USE DEF CountInv
<1>0. \A c \in Batches : batch[c] \in BatchRow /\ row[c] \in MeterRow /\ Fresh(c) /\ WellDated(c)
  BY DEF TypeOK
<1>1. PICK n \in Nat : n = Lookups[b]
  BY MeterConstants DEF MeterConstants
<1>2. PICK units : units = Over(CountedBefore + n) - Over(CountedBefore)
  OBVIOUS
<1>3. /\ batch[b].stage = "out" /\ used' = CountedBefore + n
      /\ UNCHANGED <<now, window, lock, accepted>>
      /\ batch' = [batch EXCEPT ![b].stage = "in", ![b].counted = window]
      /\ usedFrom' = IF usedFrom < window THEN window ELSE usedFrom
  BY <1>1 DEF Ingest, provider, holder, taken
<1>4. /\ batch'[b].stage = "in" /\ batch'[b].counted = window /\ batch'[b].at = batch[b].at
      /\ \A c \in Batches \ {b} : batch'[c] = batch[c]
  BY <1>0, <1>3 DEF TypeOK, BatchRow
<1>5. /\ now \in Nat /\ window \in Nat /\ usedFrom \in Nat /\ used \in Nat
      /\ window <= now /\ usedFrom <= window
  BY DEF TypeOK, InOrder
<1>6. usedFrom' = window
  BY <1>3, <1>5
<1>7. /\ accepted[b] = 0 /\ lock # b
      /\ row[b].units = 0 /\ row[b].state = "absent" /\ row[b].why = "none"
  BY <1>0, <1>3 DEF Fresh
<1>8. \/ units = 0 /\ row' = row
      \/ \E s, w : /\ row' = [row EXCEPT ![b] = [state |-> s, units |-> units, why |-> w]]
                   /\ w # "no_customer_id" /\ (s = "pending" => ~OutsideWindow(b))
  BY <1>1, <1>2 DEF Ingest
<1>9. /\ row'[b].units = units /\ row'[b].why # "no_customer_id"
      /\ row'[b].state = "pending" => ~OutsideWindow(b)
      /\ \A c \in Batches \ {b} : row'[c] = row[c]
  <2>1. CASE units = 0 /\ row' = row
    BY <1>7, <2>1
  <2>2. ASSUME NEW s, NEW w, row' = [row EXCEPT ![b] = [state |-> s, units |-> units, why |-> w]],
               w # "no_customer_id", s = "pending" => ~OutsideWindow(b)
        PROVE  /\ row'[b].units = units /\ row'[b].why # "no_customer_id"
               /\ row'[b].state = "pending" => ~OutsideWindow(b)
               /\ \A c \in Batches \ {b} : row'[c] = row[c]
    <3>1. /\ row'[b] = [state |-> s, units |-> units, why |-> w]
          /\ \A c \in Batches \ {b} : row'[c] = row[c]
      BY <2>2 DEF TypeOK
    <3> QED BY <2>2, <3>1
  <2> QED BY <1>8, <2>1, <2>2
<1>10. InOrder'
  <2>1. \A c \in Batches : batch[c].stage = "in" => batch[c].counted <= window
    BY <1>0, <1>5 DEF InOrder, BatchRow
  <2>2. ASSUME NEW c \in Batches, batch'[c].stage = "in"
        PROVE  batch'[c].counted <= window
    BY <1>4, <1>5, <2>1, <2>2
  <2> QED BY <1>3, <1>4, <1>5, <1>6, <2>2 DEF InOrder
<1>11. ASSUME NEW c \in Batches PROVE Fresh(c)' /\ WellDated(c)'
  <2>1. CASE c # b
    BY <1>0, <1>3, <1>4, <1>9, <2>1 DEF Fresh, WellDated
  <2>2. CASE c = b
    <3>1. batch[b].at \in Nat
      BY <1>0 DEF BatchRow
    <3> QED BY <1>3, <1>4, <1>5, <1>7, <1>9, <2>2, <3>1 DEF Fresh, WellDated, OutsideWindow
  <2> QED BY <2>1, <2>2
<1>12. Sums'
  <2> DEFINE S == CountedIn(window)
  <2>1. S \in SUBSET Batches /\ b \in Batches \ S
    BY <1>3 DEF CountedIn
  <2>2. CountedIn(window)' = S \cup {b} /\ \A w : w # window => CountedIn(w)' = CountedIn(w)
    BY <1>3, <1>4 DEF CountedIn
  <2>3. CountedBefore = Total(Lookups, S)
    <3>1. CASE usedFrom = window
      BY <1>5, <3>1 DEF CountedBefore, Sums
    <3>2. CASE usedFrom < window
      <4>1. S = {}
        BY <1>0, <1>5, <3>2 DEF CountedIn, InOrder, BatchRow
      <4> QED BY <3>2, <4>1, TotalNone DEF CountedBefore
    <3> QED BY <1>5, <3>1, <3>2
  <2>4. PICK f, g : f = Billed /\ g = Billed'
    OBVIOUS
  <2>5. /\ g \in [Batches -> Nat] /\ f \in [Batches -> Nat]
        /\ g[b] = units /\ \A c \in Batches \ {b} : g[c] = f[c]
    <3>1. TypeOK'
      BY IngestTyped
    <3>2. \A c \in Batches : row[c].units \in Nat /\ row'[c].units \in Nat
      BY <3>1 DEF TypeOK, MeterRow
    <3> QED BY <1>9, <2>4, <3>2 DEF Billed
  <2>6. Lookups \in [Batches -> Nat]
    BY MeterConstants DEF MeterConstants
  <2> HIDE DEF S
  <2>7. Total(Lookups, S \cup {b}) = Total(Lookups, S) + n /\ Total(Lookups, S) \in Nat
    BY <1>1, <2>1, <2>6, TotalAdds, UnitsFinite
  <2>8. Total(g, S \cup {b}) = Total(f, S) + units
    BY <2>1, <2>5, TotalAdds, TotalSame
  <2>9. used' = Total(Lookups, CountedIn(usedFrom))'
    BY <1>3, <1>6, <2>2, <2>3, <2>7
  <2>10. \A w \in Nat : Total(f, CountedIn(w)) = Over(Total(Lookups, CountedIn(w)))
    BY <2>4 DEF Sums
  <2>11. ASSUME NEW w \in Nat
         PROVE  Total(g, CountedIn(w)') = Over(Total(Lookups, CountedIn(w)'))
    <3>1. CASE w = window
      <4>0. CountedIn(w)' = S \cup {b}
        BY <1>3, <1>4, <3>1 DEF CountedIn, S
      <4>1. Total(f, S) = Over(Total(Lookups, S))
        BY <1>5, <2>10 DEF S
      <4>2. units = Over(Total(Lookups, S) + n) - Over(Total(Lookups, S))
        BY <1>2, <2>3
      <4>3. Over(Total(Lookups, S)) \in Nat /\ Over(Total(Lookups, S) + n) \in Nat
        BY <2>7, MeterConstants DEF MeterConstants, Over
      <4>4. Total(f, S) + units = Over(Total(Lookups, S) + n)
        BY <4>1, <4>2, <4>3
      <4> QED BY <2>7, <2>8, <4>0, <4>4
    <3>2. CASE w # window
      <4>1. b \notin CountedIn(w) /\ CountedIn(w) \subseteq Batches
        BY <1>3 DEF CountedIn
      <4>2. Total(g, CountedIn(w)) = Total(f, CountedIn(w))
        BY <2>5, <4>1, TotalSame
      <4> QED BY <2>2, <2>10, <3>2, <4>2
    <3> QED BY <3>1, <3>2
  <2> QED BY <2>4, <2>9, <2>11 DEF Sums
<1> QED BY <1>10, <1>11, <1>12

(* The overage rows of a window add up to what was counted in it beyond    *)
(* the allowance, whatever the order and the delay of the batches and of   *)
(* their reports, and the provider takes no event dated before the window  *)
(* it was counted in (report_lookups_for_user,                             *)
(* usage_outside_counted_window, assert_billable).                         *)
THEOREM OverageAddsUp == Spec => []WindowsAddUp
<1>1. CountInv /\ [Next]_vars => CountInv'
  <2> SUFFICES ASSUME CountInv, [Next]_vars PROVE CountInv'
    OBVIOUS
  <2>1. TypeOK'
    BY Typed DEF CountInv
  <2>2. CASE \E b \in Batches : Ingest(b)
    BY <2>1, <2>2, IngestCounts DEF CountInv
  <2>3. CASE \A b \in Batches : ~Ingest(b)
    BY <2>1, <2>3, QuietCounts DEF CountInv
  <2> QED BY <2>2, <2>3
<1>2. CountInv => WindowsAddUp
  <2>1. Instants \subseteq Nat
    BY MeterConstants DEF MeterConstants, Instants
  <2> QED BY <2>1 DEF CountInv, Sums, WellDated, WindowsAddUp
<1> QED BY <1>1, <1>2, CountStarts, PTL DEF Spec
=============================================================================
