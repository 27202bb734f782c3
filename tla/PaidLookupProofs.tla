-------------------------- MODULE PaidLookupProofs --------------------------
(***************************************************************************)
(* Theorems about PaidLookup, for any number of rows, ticks and claims, any *)
(* keys and any caps: what a lookup is charged for, billed for and shown,  *)
(* and that every row keeps the contract of LookupContract.                *)
(*                                                                         *)
(* The argument.  From the post on, the rows of a claim are the rows its   *)
(* batch was sent with (ClaimGood), until the batch is recorded and they   *)
(* are booked to it together (RowGood).  Only a tick that still works on   *)
(* the claim, or one that found it stale, moves them, and never both: a    *)
(* claim somebody works on is fresh (TickGood).  What a tick read of a     *)
(* stale claim stays good enough until it resolves it (ViewGood): a batch  *)
(* of the claim itself was on the list it read, and a batch of another     *)
(* claim that could be mistaken for it was contested.  So an adoption      *)
(* finds the claim's own batch, and a release a claim without a batch.     *)
(***************************************************************************)
EXTENDS PaidLookup, FiniteSetTheorems, TLAPS

Booked == {"submitted", "completed", "unmatched"}

(* The rows of claim c, whatever became of them.                           *)
Carried(c) == {r \in Rows : row[r].claim = c}

(* A row is booked to the batch of its own claim, as that batch's queue    *)
(* row is recorded, and answered as it is ingested.                        *)
RowGood(r) ==
    /\ row[r].claim <= made
    /\ row[r].status \in Booked => row[r].queue = row[r].claim
    /\ row[r].status = "submitting" => queue[row[r].claim].status = "none"
    /\ row[r].status = "submitted" => queue[row[r].claim].status \in {"pending", "errored"}
    /\ row[r].status \in {"completed", "unmatched"} => queue[row[r].claim].status = "completed"
    /\ row[r].status = "completed" => Key[r] \in cache

(* A claim is near itself; its batch was sent with its rows, and is        *)
(* recorded and billed as it was sent.                                     *)
ClaimGood(c) ==
    /\ IF c > made THEN batch[c].state = "none" ELSE c \in window[c] \cap quiet[c]
    /\ IF batch[c].state = "none"
       THEN batch[c].sent = {} /\ batch[c].uploaded = {} /\ queue[c].status = "none"
       ELSE /\ batch[c].sent = Carried(c) /\ batch[c].sent # {}
            /\ batch[c].uploaded \subseteq batch[c].sent
    /\ queue[c].status # "none" => queue[c].sent = Cardinality(batch[c].sent)
    /\ queue[c].status # "completed" => queue[c].billed = {}
    /\ queue[c].billed \subseteq batch[c].uploaded

(* What a tick read before it resolves stale claims, as long as it does.   *)
ViewGood(v) ==
    /\ v.shown \subseteq Shown /\ v.known \subseteq Recorded
    /\ \A c \in Claims : v.held[c] # 0 =>
         /\ c <= made /\ c \notin fresh
         /\ c \in Listed => c \in v.listed
         /\ \A d \in Hits(c, v.held[c], v.shown, v.known) : d = c \/ d \in v.contested

(* A tick works on a claim of its own, which is fresh.                     *)
TickGood(t) ==
    /\ tick[t].claim # 0 <=> tick[t].pc \in {"post", "resubmit", "persist", "retry"}
    /\ tick[t].claim # 0 => tick[t].claim \in fresh
    /\ Posting(t) => batch[tick[t].claim].state = "none" /\ Mine(t) # {}
    /\ tick[t].pc \in {"persist", "retry"} => batch[tick[t].claim].state # "none"
    /\ tick[t].pc = "resolve" => ViewGood(tick[t].view)

TicksApart ==
    \A t, u \in Ticks : t # u /\ tick[t].claim # 0 => tick[t].claim # tick[u].claim

(* Of two claims for one answer the earlier one was charged in vain.       *)
AnswersApart ==
    \A r, q \in Rows :
        Key[r] = Key[q] /\ row[r].claim # 0 /\ row[r].claim < row[q].claim
          => row[r].status = "unmatched"

SpentWithinCaps == \A cap \in {AccountCap, GlobalCap} \ {0} : Spent <= cap

LookupInv ==
    /\ TypeOK /\ LeadShowsRow
    /\ \A r \in Rows : RowGood(r)
    /\ \A c \in Claims : ClaimGood(c)
    /\ \A t \in Ticks : TickGood(t)
    /\ TicksApart /\ AnswersApart /\ SpentWithinCaps

-----------------------------------------------------------------------------
(* Facts about a state.                                                    *)
USE DEF claimVars

LeadStatuses == {"not_attempted", "queued", "submitted", "answered", "errored"}

LEMMA LookupTypes ==
    ASSUME TypeOK
    PROVE  /\ row \in [Rows -> PendingRow] /\ lead \in [Rows -> LeadStatuses]
           /\ made \in Nat /\ made <= MaxClaims /\ fresh \subseteq Claims
           /\ \A c \in fresh : c <= made
           /\ \A r \in Rows :
                /\ row[r].status \in Statuses
                /\ row[r].claim \in Int /\ row[r].claim >= 0
                /\ row[r].status \in {"submitting"} \cup Booked <=> row[r].claim \in Claims
                /\ row[r].status \in Booked <=> row[r].queue \in Claims
                /\ row[r].claim \notin Claims => row[r].claim = 0
                /\ row[r].queue \notin Claims => row[r].queue = 0
           /\ 0 \notin Claims /\ Claims \subseteq Nat
  BY LookupConstants DEF LookupConstants, TypeOK, PendingRow, LeadStatuses, Claims, Booked

(* The rows a claim holds are all of its rows until its batch is recorded, *)
(* and none from then on.                                                  *)
LEMMA HeldUntilRecorded ==
    ASSUME LookupInv, NEW c \in Claims
    PROVE  HeldBy(c) = IF queue[c].status = "none" THEN Carried(c) ELSE {}
<1> USE DEF LookupInv
<1>1. ASSUME NEW r \in Rows, row[r].claim = c
      PROVE  /\ queue[c].status = "none" => row[r].status = "submitting" /\ row[r].queue = 0
             /\ queue[c].status # "none" => row[r].status # "submitting"
  BY <1>1, LookupTypes DEF RowGood, Booked
<1> QED BY <1>1 DEF HeldBy, In, Carried

LEMMA BatchFacts ==
    ASSUME LookupInv, NEW c \in Claims
    PROVE  /\ batch[c] \in Batch /\ queue[c] \in QueueRow
           /\ HeldBy(c) \subseteq Carried(c) /\ Carried(c) \subseteq Rows
           /\ batch[c].state # "none" => batch[c].sent = Carried(c) /\ c <= made
           /\ batch[c].state = "none" => queue[c].status = "none"
  BY LookupTypes DEF LookupInv, TypeOK, ClaimGood, HeldBy, In, Carried

-----------------------------------------------------------------------------
(* What a tick does to a claim when it resolves or books it.               *)

(* The batch of claim c is recorded, if it is not, and its rows are booked. *)
Books(c) ==
    /\ batch[c].state # "none"
    /\ \E url \in BOOLEAN : RecordQueue(c, Cardinality(batch[c].sent), url)
    /\ BookRows(HeldBy(c), c)
    /\ UNCHANGED batch

(* Rows of claim c, which has no batch, are let go.                        *)
Frees(c, S, st) ==
    /\ batch[c].state = "none" /\ S \subseteq HeldBy(c)
    /\ row' = [r \in Rows |-> IF r \in S THEN [row[r] EXCEPT !.status = st, !.claim = 0]
                              ELSE row[r]]
    /\ lead' = IF st = "errored" THEN SetLead(S, "errored") ELSE lead
    /\ UNCHANGED <<batch, queue>>

(* An adoption finds the claim's own batch (match_remote_queue,            *)
(* contested_queue_ids).                                                   *)
LEMMA AdoptsOwn ==
    ASSUME LookupInv, NEW t \in Ticks, NEW c \in Claims, At(t, "resolve"),
           tick[t].view.held[c] # 0, HeldBy(c) # {}, NEW q \in Adoptable(c, tick[t].view)
    PROVE  q = c /\ batch[c].state # "none" /\ queue[c].status = "none"
<1> DEFINE v == tick[t].view
           h == Hits(c, v.held[c], v.shown, v.known)
<1>1. ViewGood(v)
  BY DEF LookupInv, TickGood, At
<1>2. q \in h /\ q \notin v.contested
  BY DEF Adoptable
<1>3. q = c
  BY <1>1, <1>2 DEF ViewGood
<1>4. c \in v.shown /\ v.shown \subseteq Shown
  BY <1>1, <1>2, <1>3 DEF Hits, ViewGood
<1>5. batch[c].state # "none"
  BY <1>4 DEF Shown
<1> QED BY <1>3, <1>5, HeldUntilRecorded

(* A release finds a claim without a batch (_release_is_safe).             *)
LEMMA ReleasesUnsent ==
    ASSUME LookupInv, NEW t \in Ticks, NEW c \in Claims, At(t, "resolve"),
           tick[t].view.held[c] # 0, HeldBy(c) # {}, NeverAccepted(c, tick[t].view)
    PROVE  batch[c].state = "none"
<1> DEFINE v == tick[t].view
<1>1. ViewGood(v)
  BY DEF LookupInv, TickGood, At
<1>2. c <= made /\ (c \in Listed => c \in v.listed) /\ v.known \subseteq Recorded
  BY <1>1 DEF ViewGood
<1>3. c \in quiet[c]
  BY <1>2, LookupTypes DEF LookupInv, ClaimGood, Claims
<1>4. c \in v.listed => c \in v.known
  BY <1>3 DEF NeverAccepted, ReleaseIsSafe
<1>5. c \notin Recorded
  BY HeldUntilRecorded DEF Recorded
<1> QED BY <1>2, <1>4, <1>5 DEF Listed

LEMMA ResolveSteps ==
    ASSUME LookupInv, NEW t \in Ticks, NEW c \in Claims, Resolve(t, c)
    PROVE  \/ UNCHANGED <<row, lead, batch, queue>>
           \/ Books(c)
           \/ Frees(c, HeldBy(c), "queued")
<1> DEFINE v == tick[t].view
           S == HeldBy(c)
<1>1. At(t, "resolve") /\ v.held[c] # 0 /\ UNCHANGED batch
  BY DEF Resolve
<1>2. CASE S # {} /\ Adoptable(c, v) # {}
  <2>1. PICK q \in Adoptable(c, v) : RecordQueue(q, Cardinality(S), TRUE) /\ BookRows(S, q)
    BY <1>2 DEF Resolve, PinnedTo
  <2>2. q = c /\ batch[c].state # "none" /\ queue[c].status = "none"
    BY <1>1, <1>2, AdoptsOwn
  <2>3. S = batch[c].sent
    BY <2>2, HeldUntilRecorded, BatchFacts
  <2> QED BY <1>1, <2>1, <2>2, <2>3 DEF Books
<1>3. CASE S # {} /\ Adoptable(c, v) = {} /\ NeverAccepted(c, v)
  <2>1. ReleaseRows(S) /\ UNCHANGED <<lead, queue>>
    BY <1>3 DEF Resolve, PinnedTo
  <2>2. batch[c].state = "none"
    BY <1>1, <1>3, ReleasesUnsent
  <2> QED BY <1>1, <2>1, <2>2 DEF ReleaseRows, Frees
<1>4. CASE S = {} \/ (Adoptable(c, v) = {} /\ ~NeverAccepted(c, v))
  BY <1>1, <1>4 DEF Resolve, PinnedTo
<1> QED BY <1>2, <1>3, <1>4

-----------------------------------------------------------------------------
(* What one step does to one row and its lead.                             *)

Keeps(r) == row'[r] = row[r] /\ lead'[r] = lead[r]

ShowsAnswer(r) == lead'[r] = "answered" => Key[r] \in cache

(* It is queued, or settled without being queued.                          *)
Asked(r) ==
    /\ row[r].status = "none" /\ lead[r] = "not_attempted"
    /\ \/ row'[r] = row[r] /\ lead'[r] \in {"answered", "errored"} /\ ShowsAnswer(r)
       \/ row'[r] = [row[r] EXCEPT !.status = "queued"] /\ lead'[r] = "queued"

(* It ends without having been sent.                                       *)
Ended(r) ==
    /\ row[r].status = "queued"
    /\ \E st \in {"cancelled", "reused", "errored"} : row'[r] = [row[r] EXCEPT !.status = st]
    /\ lead'[r] \in {"not_attempted", "answered", "errored"} /\ ShowsAnswer(r)

Claimed(r) ==
    /\ row[r].status = "queued" /\ made' = made + 1 /\ made' \in Claims
    /\ row'[r] = [row[r] EXCEPT !.status = "submitting", !.claim = made']
    /\ lead'[r] = lead[r]
    /\ \A q \in Rows : Key[q] = Key[r] /\ row[q].claim # 0 => row[q].status = "unmatched"

(* Its claim, which has no batch, lets it go.                              *)
LetGo(r) ==
    /\ row[r].status = "submitting" /\ batch[row[r].claim].state = "none" /\ UNCHANGED batch
    /\ \/ /\ row'[r] = [row[r] EXCEPT !.status = "queued", !.claim = 0]
          /\ lead'[r] = lead[r]
       \/ /\ row'[r] = [row[r] EXCEPT !.status = "errored", !.claim = 0]
          /\ lead'[r] = "errored"

(* The batch of its claim is recorded, and it is booked.                   *)
BookedNow(r) ==
    /\ row[r].status = "submitting" /\ batch[row[r].claim].state # "none"
    /\ row'[r] = [row[r] EXCEPT !.status = "submitted", !.queue = row[r].claim]
    /\ lead'[r] = "submitted"
    /\ queue'[row[r].claim].status = "pending"

(* The batch of its claim is ingested.                                     *)
Answered(r) ==
    /\ row[r].status = "submitted" /\ queue'[row[r].claim].status = "completed"
    /\ \/ /\ row'[r] = [row[r] EXCEPT !.status = "completed"]
          /\ lead'[r] = "answered" /\ Key[r] \in cache'
       \/ /\ row'[r] = [row[r] EXCEPT !.status = "unmatched"]
          /\ lead'[r] = "errored"

RowStep(r) ==
    \/ Keeps(r) \/ Asked(r) \/ Ended(r) \/ Claimed(r) \/ LetGo(r) \/ BookedNow(r) \/ Answered(r)

RowsMove ==
    /\ row' \in [Rows -> PendingRow] /\ lead' \in [Rows -> LeadStatuses]
    /\ \A r \in Rows : RowStep(r)

LEMMA RowUpdates ==
    ASSUME NEW r \in PendingRow, NEW st \in Statuses, NEW c \in 0..MaxClaims
    PROVE  /\ [r EXCEPT !.status = st] \in PendingRow
           /\ [r EXCEPT !.status = st, !.claim = c] \in PendingRow
           /\ [r EXCEPT !.status = st, !.queue = c] \in PendingRow
  BY DEF PendingRow

LEMMA StillRows ==
    ASSUME LookupInv, UNCHANGED <<row, lead>>
    PROVE  RowsMove
  BY LookupTypes DEF LookupInv, RowsMove, RowStep, Keeps

LEMMA EnqueueRows ==
    ASSUME LookupInv, NEW q \in Rows, Enqueue(q)
    PROVE  RowsMove
<1> USE LookupTypes DEF LookupInv
<1>1. ASSUME NEW r \in Rows PROVE RowStep(r)
  BY <1>1 DEF Enqueue, RowStep, Keeps, Asked, ShowsAnswer
<1>2. row' \in [Rows -> PendingRow]
  BY DEF Enqueue, PendingRow, Statuses
<1>3. lead' \in [Rows -> LeadStatuses]
  BY DEF Enqueue, LeadStatuses
<1> QED BY <1>1, <1>2, <1>3 DEF RowsMove

LEMMA SweepRows ==
    ASSUME LookupInv, NEW t \in Ticks, Sweep(t)
    PROVE  RowsMove
<1> USE LookupTypes DEF LookupInv
<1>1. ASSUME NEW r \in Rows PROVE RowStep(r)
  BY <1>1 DEF Sweep, SetStatus, SetLead, Queued, In, RowStep, Keeps, Ended, ShowsAnswer
<1>2. row' \in [Rows -> PendingRow]
  BY DEF Sweep, SetStatus, PendingRow, Statuses
<1>3. lead' \in [Rows -> LeadStatuses]
  BY DEF Sweep, SetLead, LeadStatuses
<1> QED BY <1>1, <1>2, <1>3 DEF RowsMove

LEMMA SettleRows ==
    ASSUME LookupInv, NEW t \in Ticks, Settle(t)
    PROVE  RowsMove
<1> USE LookupTypes DEF LookupInv
<1>1. ASSUME NEW r \in Rows PROVE RowStep(r)
  BY <1>1 DEF Settle, Queued, In, RowStep, Keeps, Ended, ShowsAnswer
<1>2. row' \in [Rows -> PendingRow]
  BY DEF Settle, PendingRow, Statuses
<1>3. lead' \in [Rows -> LeadStatuses]
  BY DEF Settle, LeadStatuses
<1> QED BY <1>1, <1>2, <1>3 DEF RowsMove

(* What the day already bought of an answer that is claimed now was in     *)
(* vain (_hold_answers_in_flight).                                         *)
LEMMA BoughtInVain ==
    ASSUME LookupInv, NEW S \in SUBSET Rows, BuyableNow(S), NEW r \in S, NEW q \in Rows,
           Key[q] = Key[r], row[q].claim # 0
    PROVE  row[q].status = "unmatched"
<1>1. row[q].status \in {"submitting", "submitted", "completed", "unmatched"}
  BY DEF LookupInv, TypeOK
<1>2. q \notin InFlight /\ Key[q] \notin cache
  BY DEF BuyableNow
<1> QED BY <1>1, <1>2 DEF LookupInv, RowGood, InFlight, In

(* A pass takes up rows it claims, rows that are unfit and rows that must  *)
(* not be bought.                                                          *)
LEMMA TakeUpRows ==
    ASSUME LookupInv, NEW S \in SUBSET Queued, NEW E \in SUBSET (Queued \ S),
           NEW W \in SUBSET (Queued \ S), NEW c, TakeUp(S, c, E, W),
           S # {} => c = made + 1 /\ made' = made + 1 /\ made < MaxClaims,
           BuyableNow(S)
    PROVE  RowsMove
<1> USE LookupTypes DEF LookupInv
<1>0. \A r \in Rows : /\ r \in Queued => row[r].status = "queued"
                      /\ row[r] \in PendingRow
  BY DEF Queued, In
<1>1. S # {} => made' = c /\ c = made + 1 /\ c \in Claims
  BY LookupConstants DEF LookupConstants, Claims
<1>2. ASSUME NEW r \in Rows PROVE RowStep(r)
  <2>1. CASE r \in S
    <3>1. S \in SUBSET Rows
      BY DEF Queued, In
    <3>2. \A q \in Rows : Key[q] = Key[r] /\ row[q].claim # 0 => row[q].status = "unmatched"
      BY <2>1, <3>1, BoughtInVain
    <3> QED BY <1>0, <1>1, <2>1, <3>2 DEF TakeUp, RowStep, Claimed
  <2>2. CASE r \in E
    BY <1>0, <2>2 DEF TakeUp, RowStep, Ended, ShowsAnswer
  <2>3. CASE r \in W \ E
    BY <1>0, <2>3 DEF TakeUp, RowStep, Ended, ShowsAnswer
  <2>4. CASE r \notin S \cup E \cup W
    BY <2>4 DEF TakeUp, RowStep, Keeps
  <2> QED BY <2>1, <2>2, <2>3, <2>4
<1>3. row' \in [Rows -> PendingRow]
  <2>1. S # {} => c \in 0..MaxClaims
    BY <1>1 DEF Claims
  <2>2. {"submitting", "errored", "cancelled"} \subseteq Statuses
    BY DEF Statuses
  <2>3. \A r \in Rows : r \in S => [row[r] EXCEPT !.status = "submitting", !.claim = c] \in PendingRow
    BY <1>0, <2>1, <2>2, RowUpdates
  <2>4. \A r \in Rows : /\ [row[r] EXCEPT !.status = "errored"] \in PendingRow
                        /\ [row[r] EXCEPT !.status = "cancelled"] \in PendingRow
    <3>1. 0 \in 0..MaxClaims
      BY LookupConstants DEF LookupConstants
    <3> QED BY <1>0, <2>2, <3>1, RowUpdates
  <2> QED BY <1>0, <2>3, <2>4 DEF TakeUp
<1>4. lead' \in [Rows -> LeadStatuses]
  BY DEF TakeUp, LeadStatuses
<1> QED BY <1>2, <1>3, <1>4 DEF RowsMove

LEMMA ClaimRows ==
    ASSUME LookupInv, NEW t \in Ticks, Claim(t) \/ ClaimNothing(t)
    PROVE  RowsMove
<1>1. CASE Claim(t)
  <2>1. PICK S \in (SUBSET (Queued \cap wanted)) \ {{}} : \E unfit \in Unfit(S) :
                BuyableNow(S) /\ TakeUp(S, made + 1, unfit[1], unfit[2])
    BY <1>1 DEF Claim
  <2>2. PICK unfit \in Unfit(S) : BuyableNow(S) /\ TakeUp(S, made + 1, unfit[1], unfit[2])
    BY <2>1
  <2>3. unfit[1] \in SUBSET (Queued \ S) /\ unfit[2] \in SUBSET (Queued \ S)
    BY <2>1, <2>2 DEF Unfit
  <2>4. made < MaxClaims /\ made' = made + 1
    BY <1>1 DEF Claim
  <2> QED BY <2>1, <2>2, <2>3, <2>4, TakeUpRows
<1>2. CASE ClaimNothing(t)
  <2>1. PICK unfit \in Unfit({}) : TakeUp({}, 0, unfit[1], unfit[2])
    BY <1>2 DEF ClaimNothing
  <2>2. unfit[1] \in SUBSET (Queued \ {}) /\ unfit[2] \in SUBSET (Queued \ {})
    BY <2>1 DEF Unfit
  <2>3. BuyableNow({})
    BY DEF BuyableNow
  <2> QED BY <2>1, <2>2, <2>3, TakeUpRows
<1> QED BY <1>1, <1>2

LEMMA FreedRows ==
    ASSUME LookupInv, NEW c \in Claims, NEW S, NEW st \in {"queued", "errored"}, Frees(c, S, st)
    PROVE  RowsMove
<1> USE LookupTypes DEF LookupInv
<1>1. \A r \in S : r \in Rows /\ row[r].status = "submitting" /\ row[r].claim = c
  BY DEF Frees, HeldBy, In
<1>2. ASSUME NEW r \in Rows PROVE RowStep(r)
  BY <1>1, <1>2 DEF Frees, SetLead, RowStep, Keeps, LetGo
<1>3. row' \in [Rows -> PendingRow]
  <2>1. \A r \in Rows : row[r] \in PendingRow
    OBVIOUS
  <2>2. st \in Statuses /\ 0 \in 0..MaxClaims
    BY LookupConstants DEF LookupConstants, Statuses
  <2>3. \A r \in Rows : [row[r] EXCEPT !.status = st, !.claim = 0] \in PendingRow
    BY <2>1, <2>2, RowUpdates
  <2> QED BY <2>1, <2>3 DEF Frees
<1>4. lead' \in [Rows -> LeadStatuses]
  BY DEF Frees, SetLead, LeadStatuses
<1> QED BY <1>2, <1>3, <1>4 DEF RowsMove

LEMMA BookedRows ==
    ASSUME LookupInv, NEW c \in Claims, Books(c)
    PROVE  RowsMove
<1> USE LookupTypes DEF LookupInv
<1>1. \A r \in HeldBy(c) : r \in Rows /\ row[r].status = "submitting" /\ row[r].claim = c
  BY DEF HeldBy, In
<1>2. HeldBy(c) # {} => queue'[c].status = "pending"
  BY HeldUntilRecorded DEF Books, RecordQueue, TypeOK
<1>3. ASSUME NEW r \in Rows PROVE RowStep(r)
  <2>1. row[r].status = "submitting" => lead[r] = "queued"
    BY DEF LeadShowsRow
  <2> QED BY <1>1, <1>2, <1>3, <2>1 DEF Books, BookRows, RowStep, Keeps, BookedNow
<1>4. row' \in [Rows -> PendingRow]
  <2>1. \A r \in Rows : row[r] \in PendingRow
    OBVIOUS
  <2>2. "submitted" \in Statuses /\ c \in 0..MaxClaims
    BY DEF Statuses, Claims
  <2>3. \A r \in Rows : [row[r] EXCEPT !.status = "submitted", !.queue = c] \in PendingRow
    BY <2>1, <2>2, RowUpdates
  <2> QED BY <2>1, <2>3 DEF Books, BookRows
<1>5. lead' \in [Rows -> LeadStatuses]
  BY DEF Books, BookRows, LeadStatuses
<1> QED BY <1>3, <1>4, <1>5 DEF RowsMove

LEMMA IngestedRows ==
    ASSUME LookupInv, NEW c \in Claims, Ingest(c)
    PROVE  RowsMove
<1> USE LookupTypes DEF LookupInv
<1> DEFINE S == {r \in Rows : row[r].queue = c}
<1>1. PICK answered \in SUBSET (S \cap batch[c].uploaded) :
         /\ row' = [r \in Rows |->
                      IF r \in answered THEN [row[r] EXCEPT !.status = "completed"]
                      ELSE IF r \in S THEN [row[r] EXCEPT !.status = Unmatched(@)]
                      ELSE row[r]]
         /\ lead' = [r \in Rows |->
                       IF r \in answered THEN "answered"
                       ELSE IF r \in S /\ lead[r] \in {"queued", "submitted"} THEN "errored"
                       ELSE lead[r]]
         /\ cache' = cache \cup {Key[r] : r \in answered}
         /\ queue' = [queue EXCEPT ![c].status = "completed",
                                   ![c].billed = BilledOf(c, S, answered)]
  BY DEF Ingest
<1>2. queue[c].status = "pending"
  BY DEF Ingest, Ingestible
<1>3. \A r \in S : row[r].status = "submitted" /\ row[r].claim = c /\ lead[r] = "submitted"
  BY <1>2 DEF RowGood, LeadShowsRow, Booked, Claims
<1>4. queue'[c].status = "completed"
  BY <1>1 DEF TypeOK, QueueRow
<1>5. ASSUME NEW r \in Rows PROVE RowStep(r)
  BY <1>1, <1>3, <1>4, <1>5 DEF Unmatched, RowStep, Keeps, Answered
<1>6. row' \in [Rows -> PendingRow]
  BY <1>1 DEF Unmatched, PendingRow, Statuses
<1>7. lead' \in [Rows -> LeadStatuses]
  BY <1>1 DEF LeadStatuses
<1> QED BY <1>5, <1>6, <1>7 DEF RowsMove

(* The bookkeeping of a post books the rows of its claim.                  *)
LEMMA PersistBooks ==
    ASSUME LookupInv, NEW t \in Ticks, Persist(t)
    PROVE  tick[t].claim \in Claims /\ Books(tick[t].claim)
<1>1. tick[t].claim \in Claims /\ batch[tick[t].claim].state # "none"
  BY LookupTypes DEF Persist, LookupInv, TickGood
<1> QED BY <1>1 DEF Persist, Books

(* A post that was refused frees rows of its claim.                        *)
PostFails(t) ==
    PostNotDelivered(t) \/ PostRejected(t) \/ \E tail \in SUBSET Mine(t) : PostShort(t, tail)

LEMMA PostFrees ==
    ASSUME LookupInv, NEW t \in Ticks, PostFails(t)
    PROVE  /\ tick[t].claim \in Claims /\ Posting(t)
           /\ \E S \in SUBSET Mine(t), st \in {"queued", "errored"} : Frees(tick[t].claim, S, st)
<1> USE DEF PostFails
<1>1. Posting(t)
  BY DEF PostNotDelivered, PostRejected, PostShort, Posting, At
<1>2. tick[t].claim \in Claims /\ batch[tick[t].claim].state = "none"
  BY <1>1, LookupTypes DEF LookupInv, TickGood, Posting
<1>3. CASE PostNotDelivered(t)
  <2>1. Frees(tick[t].claim, Mine(t), "queued")
    BY <1>2, <1>3 DEF PostNotDelivered, ReleaseRows, Mine, Frees
  <2> QED BY <1>1, <1>2, <2>1
<1>4. CASE PostRejected(t)
  <2>1. Frees(tick[t].claim, Mine(t), "errored")
    BY <1>2, <1>4 DEF PostRejected, Mine, Frees
  <2> QED BY <1>1, <1>2, <2>1
<1>5. ASSUME NEW tail \in SUBSET Mine(t), PostShort(t, tail)
      PROVE  Frees(tick[t].claim, tail, "queued")
  BY <1>2, <1>5 DEF PostShort, ReleaseRows, Mine, Frees
<1> QED BY <1>1, <1>2, <1>3, <1>4, <1>5

(* Every step moves every row in one of these ways.                        *)
LEMMA NextRows ==
    ASSUME LookupInv, [Next]_vars
    PROVE  RowsMove
<1>1. CASE UNCHANGED <<row, lead>>
  BY <1>1, StillRows
<1>2. ASSUME NEW r \in Rows, Enqueue(r) PROVE RowsMove
  BY <1>2, EnqueueRows
<1>3. ASSUME NEW t \in Ticks, Sweep(t) \/ Settle(t) PROVE RowsMove
  BY <1>3, SweepRows, SettleRows
<1>4. ASSUME NEW t \in Ticks, Claim(t) \/ ClaimNothing(t) PROVE RowsMove
  BY <1>4, ClaimRows
<1>5. ASSUME NEW t \in Ticks, NEW c \in Claims, Resolve(t, c) PROVE RowsMove
  BY <1>1, <1>5, ResolveSteps, BookedRows, FreedRows
<1>6. ASSUME NEW t \in Ticks, Persist(t) PROVE RowsMove
  BY <1>6, PersistBooks, BookedRows
<1>7. ASSUME NEW t \in Ticks, PostFails(t) PROVE RowsMove
  BY <1>7, PostFrees, FreedRows
<1>8. ASSUME NEW c \in Claims, Ingest(c) PROVE RowsMove
  BY <1>8, IngestedRows
<1>9. ASSUME NEW t \in Ticks,
             StartTick(t) \/ LeaveReconcile(t) \/ SkipSweep(t) \/ PostAccepted(t)
               \/ PostUnknown(t) \/ Die(t)
      PROVE UNCHANGED <<row, lead>>
  BY <1>9 DEF StartTick, LeaveReconcile, SkipSweep, PostAccepted, PostUnknown, Die
<1>10. ASSUME NEW c \in Claims,
              Age(c) \/ ProviderCompletes(c) \/ LoseMessage(c) \/ IngestFails(c)
       PROVE UNCHANGED <<row, lead>>
  BY <1>10 DEF Age, ProviderCompletes, LoseMessage, IngestFails
<1>11. ASSUME NEW r \in Rows, StopWanting(r) PROVE UNCHANGED <<row, lead>>
  BY <1>11 DEF StopWanting
<1>12. CASE UNCHANGED vars
  BY <1>1, <1>12 DEF vars
<1>13. CASE Next
  BY <1>1, <1>2, <1>3, <1>4, <1>5, <1>6, <1>7, <1>8, <1>9, <1>10, <1>11, <1>13
     DEF Next, TickStep, PostFails
<1> QED BY <1>12, <1>13

-----------------------------------------------------------------------------
(* What one step does to the batch and the queue row of one claim.         *)

SameClaim(c) == batch'[c] = batch[c] /\ queue'[c] = queue[c]

(* The provider accepts it, from a tick that still works on it.            *)
Accepted(c) ==
    /\ batch[c].state = "none" /\ c \in fresh
    /\ \E U \in SUBSET Carried(c) :
         batch'[c] = [state |-> "open", sent |-> Carried(c), uploaded |-> U]
    /\ Carried(c) # {} /\ \A r \in Carried(c) : row[r].status = "submitting"
    /\ queue'[c] = queue[c] /\ UNCHANGED <<row, lead>>

Completed(c) ==
    /\ batch[c].state = "open" /\ batch'[c] = [batch[c] EXCEPT !.state = "complete"]
    /\ queue'[c] = queue[c] /\ UNCHANGED <<row, lead>>

(* It is recorded as it was sent, and all of its rows are booked.          *)
RecordedNow(c) ==
    /\ batch[c].state # "none" /\ queue[c].status = "none"
    /\ batch'[c] = batch[c]
    /\ \E url \in BOOLEAN :
         queue'[c] = [status |-> "pending", url |-> url,
                      sent |-> Cardinality(batch[c].sent), billed |-> {}]
    /\ \A r \in Carried(c) : row'[r].status = "submitted"

(* It is ingested: every row has its outcome, and what is billed was       *)
(* charged.                                                                *)
IngestedNow(c) ==
    /\ queue[c].status = "pending" /\ batch'[c] = batch[c]
    /\ \E B \in SUBSET batch[c].uploaded :
         queue'[c] = [queue[c] EXCEPT !.status = "completed", !.billed = B]
    /\ \A r \in Carried(c) : row'[r].status \in {"completed", "unmatched"}

GivenUp(c) ==
    /\ queue[c].status = "pending" /\ batch'[c] = batch[c]
    /\ queue'[c] = [queue[c] EXCEPT !.status = "errored"] /\ UNCHANGED <<row, lead>>

ClaimStep(c) ==
    \/ SameClaim(c) \/ Accepted(c) \/ Completed(c) \/ RecordedNow(c) \/ IngestedNow(c)
    \/ GivenUp(c)

BatchesMove ==
    /\ batch' = [c \in Claims |-> batch'[c]] /\ queue' = [c \in Claims |-> queue'[c]]
    /\ \A c \in Claims : ClaimStep(c)

LEMMA StillBatches ==
    ASSUME LookupInv, UNCHANGED <<batch, queue>>
    PROVE  BatchesMove
  BY DEF LookupInv, TypeOK, BatchesMove, ClaimStep, SameClaim

LEMMA AcceptsBatch ==
    ASSUME LookupInv, NEW t \in Ticks, Posting(t), Accepts(t), UNCHANGED <<row, lead, queue>>
    PROVE  BatchesMove
<1> DEFINE c == tick[t].claim
<1> USE DEF LookupInv
<1>1. c \in fresh /\ c \in Claims /\ batch[c].state = "none" /\ Mine(t) # {}
  BY LookupTypes DEF TickGood, Posting
<1>2. Mine(t) = Carried(c)
  BY <1>1, HeldUntilRecorded DEF Mine, ClaimGood
<1>3. \A r \in Carried(c) : row[r].status = "submitting"
  BY <1>2 DEF Mine, HeldBy, In
<1>4. Accepted(c)
  <2>1. PICK U \in SUBSET Mine(t) :
          batch' = [batch EXCEPT ![c] = [state |-> "open", sent |-> Mine(t), uploaded |-> U]]
    BY DEF Accepts
  <2>2. batch'[c] = [state |-> "open", sent |-> Carried(c), uploaded |-> U]
    BY <1>1, <1>2, <2>1 DEF TypeOK
  <2> QED BY <1>1, <1>2, <1>3, <2>2 DEF Accepted
<1>5. \A d \in Claims : d # c => SameClaim(d)
  BY DEF Accepts, SameClaim, TypeOK
<1> QED BY <1>4, <1>5 DEF BatchesMove, ClaimStep, Accepts, TypeOK

LEMMA BooksBatch ==
    ASSUME LookupInv, NEW c \in Claims, Books(c)
    PROVE  BatchesMove
<1> USE DEF LookupInv, TypeOK
<1>1. \A d \in Claims : d # c => SameClaim(d)
  BY DEF Books, RecordQueue, SameClaim
<1>2. CASE queue[c].status # "none"
  BY <1>1, <1>2 DEF Books, RecordQueue, SameClaim, BatchesMove, ClaimStep
<1>3. CASE queue[c].status = "none"
  <2>1. HeldBy(c) = Carried(c)
    BY <1>3, HeldUntilRecorded
  <2>2. \A r \in Carried(c) : row'[r].status = "submitted"
    BY <2>1 DEF Books, BookRows, Carried, PendingRow
  <2>3. RecordedNow(c)
    BY <1>3, <2>2 DEF Books, RecordQueue, RecordedNow
  <2> QED BY <1>1, <1>3, <2>3 DEF BatchesMove, ClaimStep, Books, RecordQueue
<1> QED BY <1>2, <1>3

(* Of a batch the provider took in full, every row was charged; of one it  *)
(* took in part, only answers are billed (report_usage_from_webhook).      *)
LEMMA BilledCharged ==
    ASSUME LookupInv, NEW c \in Claims, queue[c].status = "pending",
           NEW S \in SUBSET Carried(c), NEW answered \in SUBSET (S \cap batch[c].uploaded)
    PROVE  BilledOf(c, S, answered) \subseteq batch[c].uploaded
<1> USE DEF LookupInv
<1>1. /\ batch[c].sent = Carried(c) /\ batch[c].uploaded \subseteq batch[c].sent
      /\ queue[c].sent = Cardinality(batch[c].sent)
  BY DEF ClaimGood
<1>2. IsFiniteSet(batch[c].sent)
  BY <1>1, LookupConstants, FS_Subset DEF LookupConstants, Carried
<1>3. /\ Cardinality(batch[c].uploaded) \in Nat /\ Cardinality(batch[c].sent) \in Nat
      /\ Cardinality(batch[c].uploaded) <= Cardinality(batch[c].sent)
      /\ Cardinality(batch[c].sent) = Cardinality(batch[c].uploaded)
           => batch[c].sent = batch[c].uploaded
  BY <1>1, <1>2, FS_Subset, FS_CardinalityType
<1>4. CASE Cardinality(batch[c].uploaded) >= queue[c].sent
  BY <1>1, <1>3, <1>4 DEF BilledOf
<1>5. CASE ~(Cardinality(batch[c].uploaded) >= queue[c].sent)
  BY <1>5 DEF BilledOf
<1> QED BY <1>4, <1>5

LEMMA IngestsBatch ==
    ASSUME LookupInv, NEW c \in Claims, Ingest(c)
    PROVE  BatchesMove /\ IngestedNow(c)
<1> USE DEF LookupInv, TypeOK
<1> DEFINE S == {r \in Rows : row[r].queue = c}
<1>1. PICK answered \in SUBSET (S \cap batch[c].uploaded) :
         /\ row' = [r \in Rows |->
                      IF r \in answered THEN [row[r] EXCEPT !.status = "completed"]
                      ELSE IF r \in S THEN [row[r] EXCEPT !.status = Unmatched(@)]
                      ELSE row[r]]
         /\ queue' = [queue EXCEPT ![c].status = "completed",
                                   ![c].billed = BilledOf(c, S, answered)]
  BY DEF Ingest
<1>2. queue[c].status = "pending" /\ UNCHANGED batch
  BY DEF Ingest, Ingestible
<1>3. S = Carried(c)
  BY <1>2, LookupTypes DEF RowGood, Booked, Carried
<1>4. BilledOf(c, S, answered) \subseteq batch[c].uploaded
  BY <1>2, <1>3, BilledCharged
<1>5. \A r \in Carried(c) : row'[r].status \in {"completed", "unmatched"}
  BY <1>1, <1>3 DEF Unmatched, Carried, PendingRow
<1>6. IngestedNow(c)
  BY <1>1, <1>2, <1>4, <1>5 DEF IngestedNow
<1>7. \A d \in Claims : d # c => SameClaim(d)
  BY <1>1, <1>2 DEF SameClaim
<1> QED BY <1>1, <1>2, <1>6, <1>7 DEF BatchesMove, ClaimStep

LEMMA NextBatches ==
    ASSUME LookupInv, [Next]_vars
    PROVE  BatchesMove
<1>1. CASE UNCHANGED <<batch, queue>>
  BY <1>1, StillBatches
<1>2. ASSUME NEW t \in Ticks, NEW c \in Claims, Resolve(t, c) PROVE BatchesMove
  BY <1>1, <1>2, ResolveSteps, BooksBatch DEF Frees
<1>3. ASSUME NEW t \in Ticks, PostAccepted(t) \/ PostUnknown(t) PROVE BatchesMove
  BY <1>1, <1>3, AcceptsBatch DEF PostAccepted, PostUnknown
<1>4. ASSUME NEW t \in Ticks, Persist(t) PROVE BatchesMove
  BY <1>4, PersistBooks, BooksBatch
<1>5. ASSUME NEW c \in Claims, Ingest(c) PROVE BatchesMove
  BY <1>5, IngestsBatch
<1>6. ASSUME NEW c \in Claims, ProviderCompletes(c) PROVE BatchesMove
  BY <1>6 DEF ProviderCompletes, BatchesMove, ClaimStep, Completed, SameClaim, LookupInv, TypeOK,
     Batch
<1>7. ASSUME NEW c \in Claims, IngestFails(c) PROVE BatchesMove
  BY <1>7 DEF IngestFails, BatchesMove, ClaimStep, GivenUp, SameClaim, LookupInv, TypeOK,
     QueueRow
<1>8. ASSUME NEW t \in Ticks,
             StartTick(t) \/ LeaveReconcile(t) \/ SkipSweep(t) \/ Sweep(t) \/ Settle(t)
               \/ Claim(t) \/ ClaimNothing(t) \/ PostFails(t) \/ Die(t)
      PROVE UNCHANGED <<batch, queue>>
  BY <1>8 DEF StartTick, LeaveReconcile, SkipSweep, Sweep, Settle, Claim, ClaimNothing,
     PostFails, PostNotDelivered, PostRejected, PostShort, Die
<1>9. ASSUME NEW c \in Claims, Age(c) \/ LoseMessage(c) PROVE UNCHANGED <<batch, queue>>
  BY <1>9 DEF Age, LoseMessage
<1>10. ASSUME NEW r \in Rows, Enqueue(r) \/ StopWanting(r) PROVE UNCHANGED <<batch, queue>>
  BY <1>10 DEF Enqueue, StopWanting
<1>11. CASE UNCHANGED vars
  BY <1>1, <1>11 DEF vars
<1>12. CASE Next
  BY <1>1, <1>2, <1>3, <1>4, <1>5, <1>6, <1>7, <1>8, <1>9, <1>10, <1>12
     DEF Next, TickStep, PostFails
<1> QED BY <1>11, <1>12

-----------------------------------------------------------------------------
(* What one step does to the claims as such.                               *)

(* Claims are made one at a time; the window of a stale one is settled.    *)
ClaimsMove ==
    /\ made' \in {made, made + 1} /\ made' \in 0..MaxClaims
    /\ fresh' \subseteq fresh \cup {made + 1} /\ fresh' \subseteq 1..made'
    /\ made' # made => fresh \subseteq fresh'
    /\ window' \in [Claims -> SUBSET Claims] /\ quiet' \in [Claims -> SUBSET Claims]
    /\ \A c \in Claims :
         /\ c <= made => window[c] \subseteq window'[c] /\ quiet[c] \subseteq quiet'[c]
         /\ c <= made /\ c \notin fresh => window'[c] = window[c]
         /\ made < c /\ c <= made' => c \in window'[c] \cap quiet'[c] /\ c \in fresh'

LEMMA OnlyClaimsMake ==
    ASSUME [Next]_vars
    PROVE  \/ UNCHANGED claimVars
           \/ \E t \in Ticks : Claim(t)
           \/ \E c \in Claims : Age(c)
<1>1. ASSUME NEW t \in Ticks,
             StartTick(t) \/ LeaveReconcile(t) \/ SkipSweep(t) \/ Sweep(t) \/ Settle(t)
               \/ ClaimNothing(t) \/ PostFails(t) \/ Die(t) \/ PostAccepted(t)
               \/ PostUnknown(t) \/ Persist(t) \/ (\E c \in Claims : Resolve(t, c))
      PROVE UNCHANGED claimVars
  BY <1>1 DEF StartTick, LeaveReconcile, SkipSweep, Sweep, Settle, ClaimNothing, PostAccepted,
     PostUnknown, PostFails, PostNotDelivered, PostRejected, PostShort, Die, Persist, Resolve
<1>2. ASSUME NEW c \in Claims,
             ProviderCompletes(c) \/ LoseMessage(c) \/ Ingest(c) \/ IngestFails(c)
      PROVE UNCHANGED claimVars
  BY <1>2 DEF ProviderCompletes, LoseMessage, Ingest, IngestFails
<1>3. ASSUME NEW r \in Rows, Enqueue(r) \/ StopWanting(r) PROVE UNCHANGED claimVars
  BY <1>3 DEF Enqueue, StopWanting
<1>4. CASE UNCHANGED vars
  BY <1>4 DEF vars
<1>5. CASE Next
  BY <1>1, <1>2, <1>3, <1>5 DEF Next, TickStep, PostFails
<1> QED BY <1>4, <1>5

LEMMA NextClaims ==
    ASSUME LookupInv, [Next]_vars
    PROVE  ClaimsMove
<1> USE LookupTypes DEF LookupInv
<1>1. CASE UNCHANGED claimVars
  BY <1>1 DEF TypeOK, ClaimsMove
<1>2. ASSUME NEW t \in Ticks, Claim(t) PROVE ClaimsMove
  <2>1. made' = made + 1 /\ made' \in Claims /\ fresh' = fresh \cup {made'}
    BY <1>2, LookupConstants DEF LookupConstants, Claim, Claims
  <2>2. PICK near \in SUBSET fresh : \E seen \in SUBSET near :
          window' = [d \in Claims |-> IF d = made + 1 THEN seen \cup {made + 1}
                                      ELSE IF d \in near THEN window[d] \cup {made + 1}
                                      ELSE window[d]]
    BY <1>2 DEF Claim
  <2>3. quiet' = [d \in Claims |-> IF d = made + 1 THEN fresh \cup {made + 1}
                                   ELSE IF d \in fresh THEN quiet[d] \cup {made + 1}
                                   ELSE quiet[d]]
    BY <1>2 DEF Claim
  <2>4. window' \in [Claims -> SUBSET Claims] /\ quiet' \in [Claims -> SUBSET Claims]
    <3>1. \A d \in Claims : window[d] \subseteq Claims /\ quiet[d] \subseteq Claims
      BY DEF TypeOK
    <3>2. made + 1 \in Claims /\ near \subseteq Claims
      BY <2>1
    <3>3. \A seen \in SUBSET near, d \in Claims :
            (IF d = made + 1 THEN seen \cup {made + 1}
             ELSE IF d \in near THEN window[d] \cup {made + 1} ELSE window[d]) \in SUBSET Claims
      BY <3>1, <3>2
    <3>4. \A d \in Claims :
            (IF d = made + 1 THEN fresh \cup {made + 1}
             ELSE IF d \in fresh THEN quiet[d] \cup {made + 1} ELSE quiet[d]) \in SUBSET Claims
      BY <3>1, <3>2
    <3>5. PICK seen \in SUBSET near :
            window' = [d \in Claims |-> IF d = made + 1 THEN seen \cup {made + 1}
                                        ELSE IF d \in near THEN window[d] \cup {made + 1}
                                        ELSE window[d]]
      BY <2>2
    <3>6. window' \in [Claims -> SUBSET Claims]
      BY ONLY <3>3, <3>5
    <3>7. quiet' \in [Claims -> SUBSET Claims]
      BY ONLY <2>3, <3>4
    <3> QED BY <3>6, <3>7
  <2>5. fresh' \subseteq 1..made' /\ made' \in 0..MaxClaims
    BY <2>1 DEF Claims
  <2>6. ASSUME NEW c \in Claims
        PROVE  /\ c <= made => window[c] \subseteq window'[c] /\ quiet[c] \subseteq quiet'[c]
               /\ c <= made /\ c \notin fresh => window'[c] = window[c]
               /\ made < c /\ c <= made' => c \in window'[c] \cap quiet'[c] /\ c \in fresh'
    BY <2>1, <2>2, <2>3 DEF Claims
  <2> QED BY <2>1, <2>4, <2>5, <2>6 DEF ClaimsMove
<1>3. ASSUME NEW c \in Claims, Age(c) PROVE ClaimsMove
  BY <1>3 DEF Age, TypeOK, ClaimsMove, Claims
<1> QED BY <1>1, <1>2, <1>3, OnlyClaimsMake

LEMMA NextCache ==
    ASSUME LookupInv, [Next]_vars
    PROVE  cache \subseteq cache' /\ cache' \subseteq {Key[r] : r \in Rows}
<1>1. CASE UNCHANGED cache
  BY <1>1 DEF LookupInv, TypeOK
<1>2. ASSUME NEW c \in Claims, Ingest(c)
      PROVE  cache \subseteq cache' /\ cache' \subseteq {Key[r] : r \in Rows}
  BY <1>2 DEF Ingest, LookupInv, TypeOK
<1>3. ASSUME NEW t \in Ticks,
             StartTick(t) \/ LeaveReconcile(t) \/ SkipSweep(t) \/ Sweep(t) \/ Settle(t) \/ Claim(t)
               \/ ClaimNothing(t) \/ PostFails(t) \/ Die(t) \/ PostAccepted(t)
               \/ PostUnknown(t) \/ Persist(t) \/ (\E c \in Claims : Resolve(t, c))
      PROVE UNCHANGED cache
  BY <1>3 DEF StartTick, LeaveReconcile, SkipSweep, Sweep, Settle, Claim, ClaimNothing,
     PostAccepted, PostUnknown, PostFails, PostNotDelivered, PostRejected, PostShort, Die, Persist,
     Resolve
<1>4. ASSUME NEW c \in Claims,
             Age(c) \/ ProviderCompletes(c) \/ LoseMessage(c) \/ IngestFails(c)
      PROVE UNCHANGED cache
  BY <1>4 DEF Age, ProviderCompletes, LoseMessage, IngestFails
<1>5. ASSUME NEW r \in Rows, Enqueue(r) \/ StopWanting(r) PROVE UNCHANGED cache
  BY <1>5 DEF Enqueue, StopWanting
<1>6. CASE UNCHANGED vars
  BY <1>1, <1>6 DEF vars
<1>7. CASE Next
  BY <1>1, <1>2, <1>3, <1>4, <1>5, <1>7 DEF Next, TickStep, PostFails
<1> QED BY <1>6, <1>7

-----------------------------------------------------------------------------
(* Rows, claims and answers stay good.                                     *)

LEMMA LeadsStayTrue ==
    ASSUME LookupInv, [Next]_vars
    PROVE  LeadShowsRow'
<1> USE NextRows, NextCache, LookupTypes DEF LookupInv
<1> SUFFICES ASSUME NEW r \in Rows
             PROVE  /\ lead'[r] = "queued" <=> row'[r].status \in {"queued", "submitting"}
                    /\ lead'[r] = "submitted" <=> row'[r].status = "submitted"
                    /\ lead'[r] = "answered" => Key[r] \in cache'
  BY DEF LeadShowsRow
<1>1. /\ lead[r] = "queued" <=> row[r].status \in {"queued", "submitting"}
      /\ lead[r] = "submitted" <=> row[r].status = "submitted"
      /\ lead[r] = "answered" => Key[r] \in cache
      /\ row[r] \in PendingRow
  BY DEF LeadShowsRow
<1>2. RowStep(r)
  BY DEF RowsMove
<1>3. CASE Keeps(r)
  BY <1>1, <1>3 DEF Keeps
<1>4. CASE Asked(r) \/ Ended(r)
  BY <1>1, <1>4 DEF Asked, Ended, ShowsAnswer, PendingRow
<1>5. CASE Claimed(r) \/ LetGo(r)
  BY <1>1, <1>5 DEF Claimed, LetGo, PendingRow
<1>6. CASE BookedNow(r) \/ Answered(r)
  BY <1>1, <1>6 DEF BookedNow, Answered, PendingRow
<1> QED BY <1>2, <1>3, <1>4, <1>5, <1>6 DEF RowStep

(* The shape of a row: its claim, and its queue id, as its status says.    *)
LEMMA RowShape ==
    ASSUME LookupInv, [Next]_vars, NEW r \in Rows
    PROVE  /\ row'[r].status \in {"submitting", "submitted", "completed", "unmatched"}
                <=> row'[r].claim # 0
           /\ row'[r].status \in {"submitted", "completed", "unmatched"} <=> row'[r].queue # 0
<1> USE LookupTypes DEF LookupInv
<1>1. /\ row[r].status \in {"submitting", "submitted", "completed", "unmatched"}
           <=> row[r].claim # 0
      /\ row[r].status \in {"submitted", "completed", "unmatched"} <=> row[r].queue # 0
      /\ row[r] \in PendingRow
  BY DEF TypeOK
<1>2. RowStep(r)
  BY NextRows DEF RowsMove
<1>3. CASE Keeps(r) \/ Asked(r) \/ Ended(r)
  BY <1>1, <1>3 DEF Keeps, Asked, Ended, PendingRow
<1>4. CASE Claimed(r) \/ LetGo(r)
  BY <1>1, <1>4 DEF Claimed, LetGo, PendingRow
<1>5. CASE BookedNow(r) \/ Answered(r)
  BY <1>1, <1>5 DEF BookedNow, Answered, PendingRow
<1> QED BY <1>2, <1>3, <1>4, <1>5 DEF RowStep

(* The queue row of a claim changes only together with the claim's rows.   *)
LEMMA QueueFollowsRows ==
    ASSUME LookupInv, [Next]_vars, NEW r \in Rows, row[r].claim \in Claims, Keeps(r)
    PROVE  \/ queue'[row[r].claim].status = queue[row[r].claim].status
           \/ /\ queue[row[r].claim].status = "pending" /\ row[r].status = "submitted"
              /\ queue'[row[r].claim].status = "errored"
<1> DEFINE c == row[r].claim
<1> USE DEF LookupInv
<1>1. r \in Carried(c) /\ queue[c] \in QueueRow /\ row'[r] = row[r] /\ RowGood(r)
  BY DEF Carried, TypeOK, Keeps
<1>2. ClaimStep(c)
  BY NextBatches DEF BatchesMove
<1>3. row[r].status \in {"submitting"} \cup Booked
  BY LookupTypes
<1>4. CASE SameClaim(c) \/ Accepted(c) \/ Completed(c)
  BY <1>4 DEF SameClaim, Accepted, Completed
<1>5. CASE RecordedNow(c)
  BY <1>1, <1>3, <1>5 DEF RecordedNow, RowGood
<1>6. CASE IngestedNow(c)
  BY <1>1, <1>3, <1>6 DEF IngestedNow, RowGood
<1>7. CASE GivenUp(c)
  BY <1>1, <1>3, <1>7 DEF GivenUp, RowGood, QueueRow, Booked
<1> QED BY <1>2, <1>4, <1>5, <1>6, <1>7 DEF ClaimStep

LEMMA RowsStayGood ==
    ASSUME LookupInv, [Next]_vars, NEW r \in Rows
    PROVE  RowGood(r)'
<1> USE LookupTypes DEF LookupInv
<1>1. RowGood(r) /\ row[r] \in PendingRow /\ cache \subseteq cache' /\ made <= made'
      /\ made' \in Nat
  BY NextCache, NextClaims DEF ClaimsMove
<1>2. RowStep(r)
  BY NextRows DEF RowsMove
<1>3. CASE Keeps(r)
  <2>1. row'[r] = row[r] /\ row'[r].claim <= made'
    BY <1>1, <1>3 DEF Keeps, RowGood
  <2>2. row[r].status \in {"submitting"} \cup Booked =>
          \/ queue'[row[r].claim].status = queue[row[r].claim].status
          \/ /\ queue[row[r].claim].status = "pending" /\ row[r].status = "submitted"
             /\ queue'[row[r].claim].status = "errored"
    BY <1>3, QueueFollowsRows
  <2> QED BY <1>1, <2>1, <2>2 DEF RowGood, Booked
<1>4. CASE Asked(r) \/ Ended(r) \/ LetGo(r)
  <2>1. row'[r].status \notin {"submitting"} \cup Booked
    BY <1>1, <1>4 DEF Asked, Ended, LetGo, PendingRow, Booked
  <2>2. row'[r].claim \in {row[r].claim, 0}
    BY <1>1, <1>4 DEF Asked, Ended, LetGo, PendingRow
  <2>3. row'[r].claim <= made'
    BY <1>1, <2>2 DEF RowGood
  <2> QED BY <2>1, <2>3 DEF RowGood, Booked
<1>5. CASE Claimed(r)
  <2>1. made' \in Claims /\ made' > made /\ row'[r].status = "submitting" /\ row'[r].claim = made'
    BY <1>5 DEF Claimed, PendingRow
  <2>2. batch[made'].state = "none" /\ queue[made'].status = "none" /\ made' \notin fresh
    BY <2>1 DEF ClaimGood
  <2>3. ClaimStep(made')
    BY <2>1, NextBatches DEF BatchesMove
  <2>4. queue'[made'].status = "none"
    BY <2>2, <2>3 DEF ClaimStep, SameClaim, Accepted, Completed, RecordedNow, IngestedNow, GivenUp
  <2> QED BY <2>1, <2>4 DEF RowGood, Booked
<1>6. CASE BookedNow(r)
  <2>1. /\ row'[r].status = "submitted" /\ row'[r].claim = row[r].claim
        /\ row'[r].queue = row[r].claim /\ queue'[row[r].claim].status = "pending"
    BY <1>1, <1>6 DEF BookedNow, PendingRow
  <2> QED BY <1>1, <2>1 DEF RowGood, Booked
<1>7. CASE Answered(r)
  <2>1. /\ row'[r].status \in {"completed", "unmatched"} /\ row'[r].claim = row[r].claim
        /\ row'[r].queue = row[r].queue /\ queue'[row[r].claim].status = "completed"
        /\ row'[r].status = "completed" => Key[r] \in cache'
    BY <1>1, <1>7 DEF Answered, PendingRow
  <2>2. row[r].status = "submitted"
    BY <1>7 DEF Answered
  <2> QED BY <1>1, <2>1, <2>2 DEF RowGood, Booked
<1> QED BY <1>2, <1>3, <1>4, <1>5, <1>6, <1>7 DEF RowStep

(* The rows of a claim stay its rows, once it has a batch.                 *)
LEMMA CarriedStays ==
    ASSUME LookupInv, [Next]_vars, NEW c \in Claims, c <= made,
           batch[c].state # "none" \/ batch' # batch
    PROVE  Carried(c)' = Carried(c)
<1> USE LookupTypes DEF LookupInv
<1> SUFFICES ASSUME NEW r \in Rows
             PROVE  row'[r].claim = c <=> row[r].claim = c
  BY DEF Carried
<1>1. row[r] \in PendingRow
  OBVIOUS
<1>2. RowStep(r)
  BY NextRows DEF RowsMove
<1>3. CASE Keeps(r) \/ Asked(r) \/ Ended(r) \/ BookedNow(r) \/ Answered(r)
  BY <1>1, <1>3 DEF Keeps, Asked, Ended, BookedNow, Answered, PendingRow
<1>4. CASE Claimed(r)
  BY <1>1, <1>4 DEF Claimed, PendingRow, Claims
<1>5. CASE LetGo(r)
  BY <1>1, <1>5 DEF LetGo, PendingRow, Claims
<1> QED BY <1>2, <1>3, <1>4, <1>5 DEF RowStep

LEMMA ClaimsStayGood ==
    ASSUME LookupInv, [Next]_vars, NEW c \in Claims
    PROVE  ClaimGood(c)'
<1> USE LookupTypes DEF LookupInv
<1>1. ClaimGood(c) /\ batch[c] \in Batch /\ queue[c] \in QueueRow
  BY DEF TypeOK
<1>2. ClaimsMove /\ made <= made' /\ made' \in Nat
  BY NextClaims DEF ClaimsMove
<1>3. ClaimStep(c)
  BY NextBatches DEF BatchesMove
<1>4. IF c > made' THEN batch'[c].state = "none" ELSE c \in window'[c] \cap quiet'[c]
  <2>1. CASE c > made
    <3>1. batch[c].state = "none" /\ queue[c].status = "none" /\ c \notin fresh
      BY <1>1, <2>1 DEF ClaimGood
    <3>2. batch'[c].state = "none"
      BY <1>3, <3>1 DEF ClaimStep, SameClaim, Accepted, Completed, RecordedNow, IngestedNow,
         GivenUp
    <3> QED BY <1>2, <2>1, <3>2 DEF ClaimsMove, Claims
  <2>2. CASE ~(c > made)
    <3>1. c \in window[c] \cap quiet[c] /\ c <= made
      BY <1>1, <2>2 DEF ClaimGood, Claims
    <3> QED BY <1>2, <3>1 DEF ClaimsMove, Claims
  <2> QED BY <2>1, <2>2
<1>5. batch[c].state # "none" => c <= made
  BY BatchFacts
<1>6. CASE SameClaim(c)
  <2>1. batch[c].state # "none" => Carried(c)' = Carried(c)
    BY <1>5, CarriedStays
  <2> QED BY <1>1, <1>4, <1>6, <2>1 DEF SameClaim, ClaimGood
<1>7. CASE Accepted(c)
  <2>1. Carried(c)' = Carried(c)
    BY <1>7 DEF Accepted, Carried
  <2> QED BY <1>1, <1>4, <1>7, <2>1 DEF Accepted, ClaimGood
<1>8. CASE Completed(c)
  <2>1. Carried(c)' = Carried(c)
    BY <1>8 DEF Completed, Carried
  <2> QED BY <1>1, <1>4, <1>8, <2>1 DEF Completed, ClaimGood, Batch
<1>9. CASE RecordedNow(c)
  <2>1. Carried(c)' = Carried(c)
    BY <1>5, <1>9, CarriedStays DEF RecordedNow
  <2> QED BY <1>1, <1>4, <1>9, <2>1 DEF RecordedNow, ClaimGood
<1>10. CASE IngestedNow(c)
  <2>1. batch[c].state # "none"
    BY <1>1, <1>10 DEF IngestedNow, ClaimGood
  <2>2. Carried(c)' = Carried(c)
    BY <1>5, <2>1, CarriedStays
  <2> QED BY <1>1, <1>4, <1>10, <2>1, <2>2 DEF IngestedNow, ClaimGood, QueueRow
<1>11. CASE GivenUp(c)
  <2>1. Carried(c)' = Carried(c)
    BY <1>11 DEF GivenUp, Carried
  <2> QED BY <1>1, <1>4, <1>11, <2>1 DEF GivenUp, ClaimGood, QueueRow
<1> QED BY <1>3, <1>6, <1>7, <1>8, <1>9, <1>10, <1>11 DEF ClaimStep

LEMMA AnswersStayApart ==
    ASSUME LookupInv, [Next]_vars
    PROVE  AnswersApart'
<1> USE LookupTypes DEF LookupInv
<1> SUFFICES ASSUME NEW r \in Rows, NEW q \in Rows, Key[r] = Key[q], row'[r].claim # 0,
                    row'[r].claim < row'[q].claim
             PROVE  row'[r].status = "unmatched"
  BY DEF AnswersApart
<1>1. \A s \in Rows : RowStep(s) /\ row[s] \in PendingRow /\ RowGood(s)
  BY NextRows DEF RowsMove
<1>2. ASSUME NEW s \in Rows, row'[s].claim # 0
      PROVE  Claimed(s) \/ row'[s].claim = row[s].claim
  <2>1. RowStep(s) /\ row[s] \in PendingRow
    BY <1>1
  <2>2. CASE Keeps(s) \/ Asked(s) \/ Ended(s)
    BY <2>1, <2>2 DEF Keeps, Asked, Ended, PendingRow
  <2>3. CASE LetGo(s) \/ BookedNow(s) \/ Answered(s)
    BY <1>2, <2>1, <2>3 DEF LetGo, BookedNow, Answered, PendingRow
  <2> QED BY <2>1, <2>2, <2>3 DEF RowStep
<1>3. ASSUME NEW s \in Rows, Claimed(s)
      PROVE  /\ row'[s].claim = made' /\ made' = made + 1 /\ row[s].claim = 0
             /\ \A u \in Rows : Key[u] = Key[s] /\ row[u].claim # 0 => row[u].status = "unmatched"
  BY <1>1, <1>3 DEF Claimed, PendingRow, Booked
<1>4. row'[q].claim # 0 /\ row'[q].claim <= made + 1
  <2>1. RowGood(q)' /\ made' \in {made, made + 1}
    BY RowsStayGood, NextClaims DEF ClaimsMove
  <2>2. row'[q] \in PendingRow /\ row'[r] \in PendingRow
    BY NextRows DEF RowsMove
  <2> QED BY <2>1, <2>2 DEF RowGood, PendingRow
<1>5. row'[r].claim = row[r].claim
  <2>1. row'[r] \in PendingRow /\ row'[q] \in PendingRow
    BY NextRows DEF RowsMove
  <2> QED BY <1>2, <1>3, <1>4, <2>1 DEF PendingRow
<1>6. row[r].status = "unmatched"
  <2>1. CASE Claimed(q)
    BY <1>3, <1>5, <2>1
  <2>2. CASE row'[q].claim = row[q].claim
    BY <1>5, <2>2 DEF AnswersApart
  <2> QED BY <1>2, <1>4, <2>1, <2>2
<1> QED BY <1>1, <1>6
     DEF RowStep, Keeps, Asked, Ended, Claimed, LetGo, BookedNow, Answered, PendingRow

(* The day's spending grows only by what a claim takes up within the caps. *)
LEMMA SpendingStaysWithinCaps ==
    ASSUME LookupInv, [Next]_vars
    PROVE  SpentWithinCaps'
<1> USE LookupTypes DEF LookupInv
<1> DEFINE P == {r \in Rows : row[r].claim # 0}
           Q == {r \in Rows : row'[r].claim # 0}
<1>1. \A r \in Rows : RowStep(r) /\ row[r] \in PendingRow
  BY NextRows DEF RowsMove
<1>2. IsFiniteSet(Rows) /\ AccountCap \in Nat /\ GlobalCap \in Nat
  BY LookupConstants DEF LookupConstants
<1>3. IsFiniteSet(P) /\ IsFiniteSet(Q) /\ Cardinality(P) \in Nat /\ Cardinality(Q) \in Nat
  BY <1>2, FS_Subset, FS_CardinalityType
<1>4. Spent = Cardinality(P) /\ Spent' = Cardinality(Q)
  BY DEF Spent
<1>5. CASE \A r \in Rows : ~Claimed(r)
  <2>1. ASSUME NEW r \in Q PROVE r \in P
    <3>1. CASE Keeps(r) \/ Asked(r) \/ Ended(r)
      BY <1>1, <3>1 DEF Keeps, Asked, Ended, PendingRow
    <3>2. CASE LetGo(r) \/ BookedNow(r) \/ Answered(r)
      BY <1>1, <3>2 DEF LetGo, BookedNow, Answered, PendingRow
    <3> QED BY <1>1, <1>5, <3>1, <3>2 DEF RowStep
  <2>2. Cardinality(Q) <= Cardinality(P)
    BY <1>3, <2>1, FS_Subset
  <2> QED BY <1>2, <1>3, <1>4, <2>2 DEF SpentWithinCaps
<1>6. CASE \E r \in Rows : Claimed(r)
  <2>1. made' # made
    BY <1>6 DEF Claimed
  <2>2. PICK t \in Ticks : Claim(t)
    BY <2>1, OnlyClaimsMake DEF Age
  <2>3. PICK S \in SUBSET (Queued \cap wanted) :
          WithinCaps(S) /\ \E unfit \in Unfit(S) : TakeUp(S, made + 1, unfit[1], unfit[2])
    BY <2>2 DEF Claim
  <2>4. S \subseteq Rows /\ Q \subseteq P \cup S
    BY <1>1, <2>3 DEF TakeUp, Queued, In, PendingRow
  <2>5. IsFiniteSet(S) /\ Cardinality(S) \in Nat /\ IsFiniteSet(P \cup S)
    BY <1>2, <1>3, <2>4, FS_Subset, FS_CardinalityType, FS_Union
  <2>6. Cardinality(P \cup S) <= Cardinality(P) + Cardinality(S)
    <3>1. Cardinality(P \cup S) = Cardinality(P) + Cardinality(S) - Cardinality(P \cap S)
      BY <1>3, <2>5, FS_Union
    <3>2. Cardinality(P \cap S) \in Nat
      BY <1>3, FS_Subset, FS_CardinalityType
    <3> QED BY <1>3, <2>5, <3>1, <3>2
  <2>7. Cardinality(Q) <= Cardinality(P \cup S) /\ Cardinality(P \cup S) \in Nat
    BY <2>4, <2>5, FS_Subset, FS_CardinalityType
  <2> QED BY <1>2, <1>3, <1>4, <2>3, <2>5, <2>6, <2>7 DEF SpentWithinCaps, WithinCaps
<1> QED BY <1>5, <1>6

-----------------------------------------------------------------------------
(* Ticks stay good.                                                        *)

(* Only the tick that works on a claim, or one that found it stale, lets   *)
(* its rows go.                                                            *)
LEMMA WhoLetsGo ==
    ASSUME LookupInv, [Next]_vars, NEW r \in Rows, LetGo(r)
    PROVE  \/ row[r].claim \notin fresh
           \/ \E t \in Ticks : PostFails(t) /\ tick[t].claim = row[r].claim
<1> USE LookupTypes DEF LookupInv
<1>0. row[r].status = "submitting" /\ row'[r] # row[r] /\ row'[r].status # "submitted"
      /\ row[r].queue \notin Claims
  <2>1. row[r].status = "submitting" /\ row[r] \in PendingRow
    BY DEF LetGo
  <2>2. row'[r].status \in {"queued", "errored"}
    BY <2>1 DEF LetGo, PendingRow
  <2> QED BY <2>1, <2>2 DEF Booked
<1>1. CASE UNCHANGED row
  BY <1>0, <1>1
<1>2. ASSUME NEW q \in Rows, Enqueue(q) PROVE FALSE
  BY <1>0, <1>2 DEF Enqueue
<1>3. ASSUME NEW t \in Ticks, Sweep(t) \/ Settle(t) PROVE FALSE
  BY <1>0, <1>3 DEF Sweep, Settle, SetStatus, Queued, In
<1>4. ASSUME NEW t \in Ticks, NEW S \in SUBSET Queued, NEW E \in SUBSET Queued,
             NEW W \in SUBSET Queued, NEW c, TakeUp(S, c, E, W)
      PROVE FALSE
  BY <1>0, <1>4 DEF TakeUp, Queued, In
<1>5. ASSUME NEW t \in Ticks, Claim(t) PROVE FALSE
  <2>1. PICK S \in SUBSET (Queued \cap wanted) : \E unfit \in Unfit(S) :
               TakeUp(S, made + 1, unfit[1], unfit[2])
    BY <1>5 DEF Claim
  <2> QED BY <1>4, <2>1 DEF Unfit
<1>6. ASSUME NEW t \in Ticks, ClaimNothing(t) PROVE FALSE
  <2>1. PICK unfit \in Unfit({}) : TakeUp({}, 0, unfit[1], unfit[2])
    BY <1>6 DEF ClaimNothing
  <2> QED BY <1>4, <2>1 DEF Unfit
<1>7. ASSUME NEW c \in Claims, Books(c) PROVE FALSE
  BY <1>0, <1>7 DEF Books, BookRows, PendingRow
<1>8. ASSUME NEW t \in Ticks, NEW c \in Claims, Resolve(t, c)
      PROVE  row[r].claim \notin fresh
  <2>1. c \notin fresh
    BY <1>8 DEF Resolve, TickGood, ViewGood, At
  <2>2. Frees(c, HeldBy(c), "queued")
    BY <1>0, <1>7, <1>8, ResolveSteps
  <2>3. row[r].claim = c
    BY <1>0, <2>2 DEF Frees, HeldBy
  <2> QED BY <2>1, <2>3
<1>9. ASSUME NEW t \in Ticks, Persist(t) PROVE FALSE
  BY <1>7, <1>9, PersistBooks
<1>10. ASSUME NEW t \in Ticks, PostFails(t) PROVE tick[t].claim = row[r].claim
  <2>1. PICK S \in SUBSET Mine(t), st \in {"queued", "errored"} : Frees(tick[t].claim, S, st)
    BY <1>10, PostFrees
  <2> QED BY <1>0, <2>1 DEF Frees, Mine, HeldBy
<1>11. ASSUME NEW c \in Claims, Ingest(c) PROVE FALSE
  BY <1>0, <1>11 DEF Ingest
<1>12. ASSUME NEW t \in Ticks,
             StartTick(t) \/ LeaveReconcile(t) \/ SkipSweep(t) \/ PostAccepted(t)
               \/ PostUnknown(t) \/ Die(t)
      PROVE UNCHANGED row
  BY <1>12 DEF StartTick, LeaveReconcile, SkipSweep, PostAccepted, PostUnknown, Die
<1>13. ASSUME NEW c \in Claims,
              Age(c) \/ ProviderCompletes(c) \/ LoseMessage(c) \/ IngestFails(c)
       PROVE UNCHANGED row
  BY <1>13 DEF Age, ProviderCompletes, LoseMessage, IngestFails
<1>14. ASSUME NEW q \in Rows, StopWanting(q) PROVE UNCHANGED row
  BY <1>14 DEF StopWanting
<1>15. CASE UNCHANGED vars
  BY <1>1, <1>15 DEF vars
<1>16. CASE Next
  BY <1>1, <1>2, <1>3, <1>5, <1>6, <1>8, <1>9, <1>10, <1>11, <1>12, <1>13, <1>14, <1>16
     DEF Next, TickStep, PostFails
<1> QED BY <1>15, <1>16

(* Only the tick that works on a claim gets its batch accepted.            *)
LEMMA WhoGetsAccepted ==
    ASSUME LookupInv, [Next]_vars, NEW c \in Claims, Accepted(c)
    PROVE  \E t \in Ticks : (PostAccepted(t) \/ PostUnknown(t)) /\ tick[t].claim = c
<1>1. batch'[c].state = "open" /\ batch[c].state = "none"
  BY DEF Accepted
<1>2. ASSUME NEW t \in Ticks, PostAccepted(t) \/ PostUnknown(t) PROVE tick[t].claim = c
  <2>1. Accepts(t)
    BY <1>1, <1>2 DEF PostAccepted, PostUnknown
  <2> QED BY <1>1, <2>1 DEF Accepts, LookupInv, TypeOK
<1>3. ASSUME NEW d \in Claims, ProviderCompletes(d) PROVE FALSE
  BY <1>1, <1>3 DEF ProviderCompletes, LookupInv, TypeOK, Batch
<1>4. ASSUME NEW t \in Ticks,
             StartTick(t) \/ LeaveReconcile(t) \/ SkipSweep(t) \/ Sweep(t) \/ Settle(t) \/ Claim(t)
               \/ ClaimNothing(t) \/ PostFails(t) \/ Die(t) \/ Persist(t)
               \/ (\E d \in Claims : Resolve(t, d))
      PROVE UNCHANGED batch
  BY <1>4 DEF StartTick, LeaveReconcile, SkipSweep, Sweep, Settle, Claim, ClaimNothing,
     PostFails, PostNotDelivered, PostRejected, PostShort, Die, Persist, Resolve
<1>5. ASSUME NEW d \in Claims, Age(d) \/ LoseMessage(d) \/ Ingest(d) \/ IngestFails(d)
      PROVE UNCHANGED batch
  BY <1>5 DEF Age, LoseMessage, Ingest, IngestFails
<1>6. ASSUME NEW r \in Rows, Enqueue(r) \/ StopWanting(r) PROVE UNCHANGED batch
  BY <1>6 DEF Enqueue, StopWanting
<1>7. CASE UNCHANGED vars
  BY <1>1, <1>7 DEF vars
<1>8. CASE Next
  BY <1>1, <1>2, <1>3, <1>4, <1>5, <1>6, <1>8 DEF Next, TickStep, PostFails
<1> QED BY <1>7, <1>8

(* What a tick read stays good enough whatever others do.                  *)
LEMMA ViewStaysGood ==
    ASSUME LookupInv, [Next]_vars, NEW v \in View, ViewGood(v)
    PROVE  ViewGood(v)'
<1> USE LookupTypes DEF LookupInv
<1>1. ClaimsMove /\ made \in Nat /\ made' \in Nat
  BY NextClaims DEF ClaimsMove
<1>2. ASSUME NEW d \in Claims
      PROVE  /\ batch[d].state = "complete" => /\ batch'[d].state = "complete"
                                               /\ batch'[d].uploaded = batch[d].uploaded
             /\ queue[d].status # "none" => queue'[d].status # "none"
             /\ d \notin fresh /\ batch[d].state = "none" => batch'[d].state = "none"
  <2>1. ClaimStep(d) /\ batch[d] \in Batch /\ queue[d] \in QueueRow
    BY NextBatches DEF BatchesMove, TypeOK
  <2> QED BY <2>1 DEF ClaimStep, SameClaim, Accepted, Completed, RecordedNow, IngestedNow, GivenUp,
             Batch, QueueRow
<1>3. v.shown \subseteq Shown' /\ v.known \subseteq Recorded'
  BY <1>2 DEF ViewGood, Shown, Recorded
<1>4. ASSUME NEW c \in Claims, v.held[c] # 0
      PROVE  /\ c <= made' /\ c \notin fresh'
             /\ c \in Listed' => c \in v.listed
             /\ \A d \in Hits(c, v.held[c], v.shown, v.known)' : d = c \/ d \in v.contested
  <2>1. /\ c <= made /\ c \notin fresh /\ (c \in Listed => c \in v.listed)
        /\ \A d \in Hits(c, v.held[c], v.shown, v.known) : d = c \/ d \in v.contested
    BY <1>4 DEF ViewGood
  <2>2. c <= made' /\ c \notin fresh'
    BY <1>1, <2>1 DEF ClaimsMove, Claims
  <2>3. c \in Listed' => c \in v.listed
    BY <1>2, <2>1 DEF Listed
  <2>4. window'[c] = window[c]
    BY <1>1, <2>1 DEF ClaimsMove
  <2>5. \A d \in v.shown : batch'[d].uploaded = batch[d].uploaded
    BY <1>2 DEF ViewGood, Shown
  <2>6. Hits(c, v.held[c], v.shown, v.known)' \subseteq Hits(c, v.held[c], v.shown, v.known)
    BY <2>4, <2>5 DEF Hits
  <2> QED BY <2>1, <2>2, <2>3, <2>6
<1> QED BY <1>3, <1>4 DEF ViewGood

(* A post that was answered, or not, is over.                              *)
LEMMA PostMovesOn ==
    ASSUME LookupInv, NEW t \in Ticks, tick'[t] = tick[t]
    PROVE  ~PostFails(t) /\ ~PostAccepted(t) /\ ~PostUnknown(t)
<1>1. tick \in [Ticks -> [pc : Places, claim : 0..made, view : View]]
  BY DEF LookupInv, TypeOK
<1>2. EndTick(t) => tick'[t].pc = "idle"
  BY <1>1 DEF EndTick
<1>3. ASSUME NEW p, GoTo(t, p) PROVE tick'[t].pc = p
  BY <1>1, <1>3 DEF GoTo
<1>4. ~PostNotDelivered(t) /\ ~PostUnknown(t)
  BY <1>2 DEF PostNotDelivered, PostUnknown, Posting
<1>5. ~PostAccepted(t) /\ (\A tail : ~PostShort(t, tail))
  BY <1>3 DEF PostAccepted, PostShort, Posting, At
<1>6. ~PostRejected(t)
  BY <1>1, <1>2 DEF PostRejected, Posting, At
<1> QED BY <1>4, <1>5, <1>6 DEF PostFails

(* A tick that does nothing now stays good whatever the others do.         *)
LEMMA StillTick ==
    ASSUME LookupInv, [Next]_vars, NEW u \in Ticks, tick'[u] = tick[u]
    PROVE  TickGood(u)'
<1> USE LookupTypes DEF LookupInv
<1> DEFINE c == tick[u].claim
<1>1. TickGood(u) /\ tick \in [Ticks -> [pc : Places, claim : 0..made, view : View]]
  BY DEF TypeOK
<1>2. c # 0 => c \in fresh'
  BY <1>1, OnlyClaimsMake DEF TickGood, Claim, Age
<1>3. ASSUME NEW t \in Ticks, t # u, c # 0 PROVE tick[t].claim # c
  BY <1>3 DEF TicksApart
<1>4. ~PostFails(u) /\ ~PostAccepted(u) /\ ~PostUnknown(u)
  BY PostMovesOn
<1>5. c # 0 => c \in Claims /\ ClaimStep(c)
  BY <1>1, NextBatches DEF BatchesMove, TickGood
<1>6. tick[u].pc \in {"persist", "retry"} => batch'[c].state # "none"
  <2>1. tick[u].pc \in {"persist", "retry"} => c # 0 /\ batch[c].state # "none"
    BY <1>1 DEF TickGood
  <2>2. c \in Claims => batch[c] \in Batch
    BY DEF TypeOK
  <2> QED BY <1>5, <2>1, <2>2 DEF ClaimStep, SameClaim, Accepted, Completed, RecordedNow,
             IngestedNow, GivenUp, Batch
<1>7. CASE Posting(u)
  <2>1. c # 0 /\ c \in fresh /\ c \in Claims /\ batch[c].state = "none" /\ HeldBy(c) # {}
    BY <1>1, <1>7 DEF TickGood, Posting, Mine
  <2>2. ~Accepted(c)
    BY <1>3, <1>4, <2>1, WhoGetsAccepted
  <2>3. batch'[c].state = "none"
    BY <1>5, <2>1, <2>2, BatchFacts
       DEF ClaimStep, SameClaim, Completed, RecordedNow, IngestedNow, GivenUp
  <2>4. PICK r \in HeldBy(c) : TRUE
    BY <2>1
  <2>5. r \in Rows /\ row[r].status = "submitting" /\ row[r].claim = c /\ row[r].queue = 0
    BY <2>4 DEF HeldBy, In
  <2>6. ~LetGo(r)
    BY <1>3, <1>4, <2>1, <2>5, WhoLetsGo
  <2>7. row'[r] = row[r]
    BY <2>1, <2>5, <2>6, NextRows
       DEF RowsMove, RowStep, Keeps, Asked, Ended, Claimed, BookedNow, Answered
  <2>8. r \in HeldBy(c)'
    BY <2>5, <2>7 DEF HeldBy, In
  <2> QED BY <1>1, <1>2, <1>7, <2>3, <2>8 DEF TickGood, Posting, Mine, HeldBy, In
<1>8. CASE ~Posting(u)
  <2>1. tick[u].pc = "resolve" => ViewGood(tick[u].view)'
    BY <1>1, ViewStaysGood DEF TickGood
  <2> QED BY <1>1, <1>2, <1>6, <1>8, <2>1 DEF TickGood, Posting
<1> QED BY <1>7, <1>8

-----------------------------------------------------------------------------
(* What a step of tick t leaves: the others still, and t good.             *)
TickMoves(t) ==
    /\ tick' \in [Ticks -> [pc : Places, claim : 0..made', view : View]]
    /\ \A u \in Ticks \ {t} : tick'[u] = tick[u]
    /\ tick'[t].claim \in {0, tick[t].claim} \/ tick'[t].claim = made + 1
    /\ TickGood(t)'

TickType == tick \in [Ticks -> [pc : Places, claim : 0..made, view : View]]

(* It works on no claim and has read nothing it will use.                  *)
LEMMA TickRests ==
    ASSUME LookupInv, [Next]_vars, NEW t \in Ticks, made' = made,
           NEW p \in {"idle", "sweep", "settle", "claim"}, NEW v \in View,
           tick' = [tick EXCEPT ![t] = [pc |-> p, claim |-> 0, view |-> v]]
    PROVE  TickMoves(t)
<1>1. [pc |-> p, claim |-> 0, view |-> v] \in [pc : Places, claim : 0..made', view : View]
  <2>1. 0 \in 0..made' /\ p \in Places
    BY LookupTypes DEF LookupInv, Places
  <2> QED BY <2>1
<1>2. TickType
  BY DEF LookupInv, TypeOK, TickType
<1>3. tick'[t] = [pc |-> p, claim |-> 0, view |-> v]
  BY <1>2 DEF TickType
<1> QED BY <1>1, <1>2, <1>3 DEF TickType, TickMoves, TickGood, Posting

LEMMA NoViewType == NoView \in View
  BY DEF NoView, View

GoToWith(t, p, c) == tick' = [tick EXCEPT ![t].pc = p, ![t].claim = c]

LEMMA TickUpdates ==
    ASSUME TickType, NEW t \in Ticks, NEW p, NEW c
    PROVE  /\ GoTo(t, p) => tick' = [tick EXCEPT ![t] = [pc |-> p, claim |-> tick[t].claim,
                                                        view |-> tick[t].view]]
           /\ GoToWith(t, p, c) => tick' = [tick EXCEPT ![t] = [pc |-> p, claim |-> c,
                                                               view |-> tick[t].view]]
<1>1. tick[t] \in [pc : Places, claim : 0..made, view : View]
  BY DEF TickType
<1>2. [tick[t] EXCEPT !.pc = p] = [pc |-> p, claim |-> tick[t].claim, view |-> tick[t].view]
  BY <1>1
<1>3. ASSUME NEW x, NEW v
      PROVE  [[pc |-> p, claim |-> x, view |-> v] EXCEPT !.claim = c]
               = [pc |-> p, claim |-> c, view |-> v]
  OBVIOUS
<1>4. [tick EXCEPT ![t].pc = p] = [tick EXCEPT ![t] = [tick[t] EXCEPT !.pc = p]]
  BY DEF TickType
<1>5. [tick EXCEPT ![t].pc = p, ![t].claim = c]
        = [tick EXCEPT ![t] = [[tick[t] EXCEPT !.pc = p] EXCEPT !.claim = c]]
  BY DEF TickType
<1> QED BY <1>2, <1>3, <1>4, <1>5 DEF GoTo, GoToWith

(* The steps after which a tick works on no claim.                         *)
LEMMA RestingSteps ==
    ASSUME LookupInv, [Next]_vars, NEW t \in Ticks, made' = made,
           \/ LeaveReconcile(t) \/ SkipSweep(t) \/ Sweep(t) \/ Settle(t) \/ EndTick(t)
           \/ GoToWith(t, "claim", 0)
    PROVE  TickMoves(t)
<1>1. TickType /\ TickGood(t) /\ tick[t].view \in View
  BY DEF LookupInv, TypeOK, TickType
<1>2. CASE LeaveReconcile(t) \/ EndTick(t)
  <2>1. NoView \in View
    BY NoViewType
  <2>2. \E p \in {"idle", "sweep"} :
          tick' = [tick EXCEPT ![t] = [pc |-> p, claim |-> 0, view |-> NoView]]
    BY <1>2 DEF LeaveReconcile, EndTick
  <2> QED BY <2>1, <2>2, TickRests
<1>3. CASE SkipSweep(t) \/ Sweep(t) \/ Settle(t)
  <2>1. tick[t].pc \in {"sweep", "settle"} /\ \E p \in {"settle", "claim"} : GoTo(t, p)
    BY <1>3 DEF SkipSweep, Sweep, Settle, At
  <2>2. tick[t].claim = 0
    BY <1>1, <2>1 DEF TickGood
  <2>3. PICK p \in {"settle", "claim"} :
          tick' = [tick EXCEPT ![t] = [pc |-> p, claim |-> 0, view |-> tick[t].view]]
    BY <1>1, <2>1, <2>2, TickUpdates
  <2> QED BY <1>1, <2>3, TickRests
<1>4. CASE GoToWith(t, "claim", 0)
  <2>1. tick' = [tick EXCEPT ![t] = [pc |-> "claim", claim |-> 0, view |-> tick[t].view]]
    BY <1>1, <1>4, TickUpdates
  <2> QED BY <1>1, <2>1, TickRests
<1> QED BY <1>2, <1>3, <1>4

(* A batch that could be taken for another claim's is contested, if that   *)
(* claim's rows are its own (contested_queue_ids).                         *)
LEMMA MistakenIsContested ==
    ASSUME LookupInv, NEW c \in Claims, NEW d \in Claims, d # c,
           NEW held, held = [e \in Claims |-> Cardinality(HeldBy(e))],
           held[c] # 0, d \in Hits(c, held[c], Shown, Recorded)
    PROVE  d \in Contested(held)
<1> USE LookupTypes DEF LookupInv
<1> DEFINE Suits(e) == /\ held[e] # 0 /\ d \in window[e]
                       /\ d \in Shown => d \in Hits(e, held[e], Shown, Recorded)
           T == {e \in Claims : Suits(e)}
<1>1. /\ d \in Shown /\ d \notin Recorded /\ Cardinality(batch[d].uploaded) >= 1
      /\ d \in window[c]
  BY DEF Hits
<1>2. batch[d].state # "none" /\ queue[d].status = "none" /\ d <= made
  BY <1>1, BatchFacts DEF Shown, Recorded
<1>3. /\ HeldBy(d) = batch[d].sent /\ batch[d].sent # {} /\ batch[d].sent \subseteq Rows
      /\ batch[d].uploaded \subseteq batch[d].sent /\ d \in window[d]
  <2>1. ClaimGood(d) /\ ~(d > made)
    BY <1>2
  <2>2. HeldBy(d) = Carried(d)
    BY <1>2, HeldUntilRecorded
  <2>3. batch[d].sent = Carried(d) /\ batch[d].sent # {} /\ d \in window[d]
        /\ batch[d].uploaded \subseteq batch[d].sent
    BY <1>2, <2>1 DEF ClaimGood
  <2> QED BY <2>2, <2>3 DEF Carried
<1>4. IsFiniteSet(batch[d].sent)
  BY <1>3, LookupConstants, FS_Subset DEF LookupConstants
<1>5. /\ Cardinality(batch[d].sent) \in Nat /\ Cardinality(batch[d].uploaded) \in Nat
      /\ Cardinality(batch[d].uploaded) <= Cardinality(batch[d].sent)
  BY <1>3, <1>4, FS_Subset, FS_CardinalityType
<1>6. held[d] = Cardinality(batch[d].sent)
  BY <1>3
<1>7. Suits(d)
  BY <1>1, <1>3, <1>5, <1>6 DEF Hits
<1>8. Suits(c)
  BY <1>1
<1>9. Cardinality(T) > 1
  <2>1. IsFiniteSet(Claims)
    BY LookupConstants, FS_Interval DEF LookupConstants, Claims
  <2>2. IsFiniteSet({c}) /\ Cardinality({c}) = 1 /\ IsFiniteSet({c} \cup {d})
        /\ Cardinality({c} \cup {d}) = 2
    <3>1. IsFiniteSet({c}) /\ Cardinality({c}) = 1
      BY FS_Singleton
    <3>2. /\ IsFiniteSet({c} \cup {d})
          /\ Cardinality({c} \cup {d}) = IF d \in {c} THEN Cardinality({c}) ELSE Cardinality({c}) + 1
      BY <3>1, FS_AddElement
    <3>3. d \notin {c}
      OBVIOUS
    <3>4. Cardinality({c} \cup {d}) = Cardinality({c}) + 1
      BY ONLY <3>2, <3>3
    <3> QED BY ONLY <3>1, <3>2, <3>4
  <2>3. {c} \cup {d} \subseteq T /\ T \subseteq Claims
    BY <1>7, <1>8
  <2>4. IsFiniteSet(T) /\ Cardinality(T) \in Nat /\ Cardinality({c} \cup {d}) <= Cardinality(T)
    BY <2>1, <2>3, FS_Subset, FS_CardinalityType
  <2> QED BY <2>2, <2>4
<1>10. d \in Listed \ Recorded
  BY <1>1, <1>2 DEF Listed
<1> QED BY <1>9, <1>10 DEF Contested

LEMMA StartMoves ==
    ASSUME LookupInv, [Next]_vars, NEW t \in Ticks, StartTick(t)
    PROVE  TickMoves(t)
<1> USE LookupTypes DEF LookupInv
<1> DEFINE held == [c \in Claims |-> Cardinality(HeldBy(c))]
           stale == [c \in Claims |-> IF c \in fresh THEN 0 ELSE held[c]]
           v == [held |-> stale, listed |-> Listed, shown |-> Shown, known |-> Recorded,
                 contested |-> Contested(held)]
<1>1. TickType /\ TickGood(t) /\ tick[t].view \in View /\ made' = made
  BY DEF TypeOK, TickType, StartTick
<1>2. CASE GoTo(t, "sweep")
  <2>1. tick[t].claim = 0
    BY <1>1 DEF StartTick, At, TickGood
  <2>2. tick' = [tick EXCEPT ![t] = [pc |-> "sweep", claim |-> 0, view |-> tick[t].view]]
    BY <1>1, <1>2, <2>1, TickUpdates
  <2> QED BY <1>1, <2>2, TickRests
<1>3. CASE tick' = [tick EXCEPT ![t] = [pc |-> "resolve", claim |-> 0, view |-> v]]
  <2>1. \A c \in Claims : /\ HeldBy(c) \subseteq Rows /\ held[c] = Cardinality(HeldBy(c))
                          /\ held[c] \in Nat /\ (held[c] # 0 => HeldBy(c) # {})
    <3>1. ASSUME NEW c \in Claims PROVE HeldBy(c) \subseteq Rows
      BY DEF HeldBy, In
    <3>2. ASSUME NEW c \in Claims PROVE IsFiniteSet(HeldBy(c))
      BY <3>1, LookupConstants, FS_Subset DEF LookupConstants
    <3> QED BY <3>1, <3>2, FS_CardinalityType, FS_EmptySet
  <2>2. v \in View
    <3>1. stale \in [Claims -> Nat]
      BY <2>1
    <3>2. Listed \subseteq Claims /\ Shown \subseteq Claims /\ Recorded \subseteq Claims
          /\ Contested(held) \subseteq Claims
      BY DEF Listed, Shown, Recorded, Contested
    <3> QED BY <3>1, <3>2 DEF View
  <2>3. ASSUME NEW c \in Claims, v.held[c] # 0
        PROVE  /\ c <= made /\ c \notin fresh
               /\ \A d \in Hits(c, v.held[c], Shown, Recorded) : d = c \/ d \in Contested(held)
    <3>1. c \notin fresh /\ v.held[c] = held[c] /\ HeldBy(c) # {}
      BY <2>1, <2>3
    <3>2. PICK r \in HeldBy(c) : TRUE
      BY <3>1
    <3>3. c <= made
      BY <3>2 DEF HeldBy, In, RowGood
    <3>4. ASSUME NEW d \in Hits(c, held[c], Shown, Recorded), d # c
          PROVE  d \in Contested(held)
      <4>1. d \in Claims
        BY DEF Hits, Shown
      <4> HIDE DEF held
      <4> QED BY <2>3, <3>1, <3>4, <4>1, MistakenIsContested DEF held
    <3> QED BY <3>1, <3>3, <3>4
  <2>4. ViewGood(v)
    <3> HIDE DEF stale, held
    <3> QED BY <2>3 DEF ViewGood
  <2>5. PICK w \in View : w = v
    BY <2>2
  <2>6. ViewGood(w)'
    <3> HIDE DEF v
    <3> QED BY <2>4, <2>5, ViewStaysGood
  <2>7. tick' = [tick EXCEPT ![t] = [pc |-> "resolve", claim |-> 0, view |-> w]]
    <3> HIDE DEF v
    <3> QED BY <1>3, <2>5
  <2>8. [pc |-> "resolve", claim |-> 0, view |-> w] \in [pc : Places, claim : 0..made', view : View]
    <3>1. 0 \in 0..made' /\ "resolve" \in Places
      BY <1>1 DEF Places
    <3> QED BY <2>5, <3>1
  <2>9. tick'[t] = [pc |-> "resolve", claim |-> 0, view |-> w]
    BY <1>1, <2>7 DEF TickType
  <2> HIDE DEF v
  <2> QED BY <1>1, <2>6, <2>7, <2>8, <2>9 DEF TickType, TickMoves, TickGood, Posting
<1> QED BY <1>2, <1>3 DEF StartTick

(* A resolved claim leaves less to decide, and its batch is known.         *)
Narrower(w, v, c, K) ==
    /\ w \in View
    /\ w.held = [v.held EXCEPT ![c] = 0] /\ w.known = v.known \cup K
    /\ w.listed = v.listed /\ w.shown = v.shown /\ w.contested = v.contested

LEMMA NarrowerStaysGood ==
    ASSUME LookupInv, [Next]_vars, NEW v \in View, NEW w, NEW c \in Claims,
           NEW K \in SUBSET Claims, ViewGood(v), Narrower(w, v, c, K),
           \A q \in K : queue'[q].status # "none"
    PROVE  ViewGood(w)'
<1>1. ViewGood(v)'
  BY ViewStaysGood
<1>2. w.shown \subseteq Shown' /\ w.known \subseteq Recorded'
  BY <1>1 DEF ViewGood, Narrower, Recorded
<1>3. ASSUME NEW d \in Claims, w.held[d] # 0
      PROVE  /\ d <= made' /\ d \notin fresh' /\ (d \in Listed' => d \in w.listed)
             /\ \A e \in Hits(d, w.held[d], w.shown, w.known)' : e = d \/ e \in w.contested
  <2>1. d # c /\ w.held[d] = v.held[d] /\ w.known = v.known \cup K
    BY <1>3 DEF Narrower, View
  <2>2. Hits(d, w.held[d], w.shown, w.known)' \subseteq Hits(d, v.held[d], v.shown, v.known)'
    BY <2>1 DEF Hits, Narrower
  <2> QED BY <1>1, <1>3, <2>1, <2>2 DEF ViewGood, Narrower
<1> QED BY <1>2, <1>3 DEF ViewGood

LEMMA ResolveMoves ==
    ASSUME LookupInv, [Next]_vars, NEW t \in Ticks, NEW c \in Claims, Resolve(t, c)
    PROVE  TickMoves(t)
<1> USE DEF LookupInv
<1>1. /\ TickType /\ TickGood(t) /\ made' = made
      /\ tick[t] \in [pc : Places, claim : 0..made, view : View]
  BY DEF TypeOK, TickType, Resolve
<1>2. tick[t].pc = "resolve" /\ tick[t].claim = 0 /\ ViewGood(tick[t].view)
  BY <1>1 DEF Resolve, At, TickGood
<1>3. PICK v \in View : v = tick[t].view
  BY <1>1
<1>4. \E w \in View, K \in SUBSET Claims :
        /\ tick' = [tick EXCEPT ![t] = [pc |-> "resolve", claim |-> 0, view |-> w]]
        /\ Narrower(w, v, c, K) /\ \A q \in K : queue'[q].status # "none"
  <2>1. CASE Resolved(t, c)
    <3>1. PICK w : w = [v EXCEPT !.held = [v.held EXCEPT ![c] = 0]]
      OBVIOUS
    <3>2. w \in View /\ Narrower(w, v, c, {})
      BY <3>1 DEF View, Narrower
    <3>3. tick' = [tick EXCEPT ![t] = [tick[t] EXCEPT !.view =
                                        [tick[t].view EXCEPT !.held =
                                           [tick[t].view.held EXCEPT ![c] = 0]]]]
      BY <2>1 DEF Resolved
    <3>4. [tick[t] EXCEPT !.view = w] = [pc |-> "resolve", claim |-> 0, view |-> w]
      BY <1>1, <1>2
    <3>5. tick' = [tick EXCEPT ![t] = [tick[t] EXCEPT !.view = w]]
      BY <1>3, <3>1, <3>3
    <3>6. tick' = [tick EXCEPT ![t] = [pc |-> "resolve", claim |-> 0, view |-> w]]
      BY <3>4, <3>5
    <3>7. {} \in SUBSET Claims /\ \A q \in {} : queue'[q].status # "none"
      OBVIOUS
    <3> QED BY ONLY <3>2, <3>6, <3>7
  <2>2. CASE \E q \in Adoptable(c, v) :
               /\ RecordQueue(q, Cardinality(PinnedTo(c)), TRUE)
               /\ tick' = [tick EXCEPT ![t].view.held[c] = 0, ![t].view.known = @ \cup {q}]
    <3>1. PICK q \in Adoptable(c, v) :
               /\ RecordQueue(q, Cardinality(PinnedTo(c)), TRUE)
               /\ tick' = [tick EXCEPT ![t].view.held[c] = 0, ![t].view.known = @ \cup {q}]
      BY <2>2
    <3>2. q \in Claims
      BY <1>2, <1>3, <3>1 DEF Adoptable, Hits, ViewGood, Shown
    <3>3. queue'[q].status # "none"
      BY <3>1, <3>2 DEF RecordQueue, TypeOK
    <3>4. PICK w : w = [v EXCEPT !.held = [v.held EXCEPT ![c] = 0], !.known = v.known \cup {q}]
      OBVIOUS
    <3>5. w \in View /\ Narrower(w, v, c, {q})
      BY <3>2, <3>4 DEF View, Narrower
    <3>6. tick' = [tick EXCEPT ![t] = [tick[t] EXCEPT !.view =
                                        [tick[t].view EXCEPT !.held =
                                           [tick[t].view.held EXCEPT ![c] = 0],
                                           !.known = tick[t].view.known \cup {q}]]]
      BY <1>1, <3>1 DEF TickType, View
    <3>7. [tick[t] EXCEPT !.view = w] = [pc |-> "resolve", claim |-> 0, view |-> w]
      BY <1>1, <1>2
    <3>8. tick' = [tick EXCEPT ![t] = [tick[t] EXCEPT !.view = w]]
      BY <1>3, <3>4, <3>6
    <3>9. tick' = [tick EXCEPT ![t] = [pc |-> "resolve", claim |-> 0, view |-> w]]
      BY <3>7, <3>8
    <3>10. {q} \in SUBSET Claims /\ \A d \in {q} : queue'[d].status # "none"
      BY <3>2, <3>3
    <3> QED BY ONLY <3>5, <3>9, <3>10
  <2> QED BY <1>3, <2>1, <2>2 DEF Resolve
<1>5. PICK w \in View, K \in SUBSET Claims :
        /\ tick' = [tick EXCEPT ![t] = [pc |-> "resolve", claim |-> 0, view |-> w]]
        /\ Narrower(w, v, c, K) /\ \A q \in K : queue'[q].status # "none"
  BY <1>4
<1>6. ViewGood(w)'
  BY <1>2, <1>3, <1>5, NarrowerStaysGood
<1>7. [pc |-> "resolve", claim |-> 0, view |-> w] \in [pc : Places, claim : 0..made', view : View]
  BY <1>1, LookupTypes DEF Places
<1>8. tick'[t] = [pc |-> "resolve", claim |-> 0, view |-> w]
  BY <1>1, <1>5 DEF TickType
<1> QED BY <1>1, <1>5, <1>6, <1>7, <1>8 DEF TickType, TickMoves, TickGood, Posting

LEMMA ClaimMoves ==
    ASSUME LookupInv, [Next]_vars, NEW t \in Ticks, Claim(t)
    PROVE  TickMoves(t)
<1> USE LookupTypes DEF LookupInv
<1>1. TickType /\ TickGood(t) /\ tick[t].view \in View
  BY DEF TypeOK, TickType
<1>2. /\ made' = made + 1 /\ made' \in Claims /\ fresh' = fresh \cup {made + 1}
      /\ UNCHANGED batch /\ GoToWith(t, "post", made + 1)
  BY LookupConstants DEF LookupConstants, Claim, Claims, GoToWith
<1>3. batch[made + 1].state = "none"
  BY <1>2 DEF ClaimGood, Claims
<1>4. PICK S \in (SUBSET (Queued \cap wanted)) \ {{}} :
        \E unfit \in Unfit(S) : TakeUp(S, made + 1, unfit[1], unfit[2])
  BY <1>2 DEF Claim
<1>5. PICK r \in S : r \in Rows /\ row[r].status = "queued" /\ row[r] \in PendingRow
  <2>1. S # {} /\ S \subseteq Queued
    BY <1>4
  <2>2. \A r \in Queued : r \in Rows /\ row[r].status = "queued" /\ row[r] \in PendingRow
    BY DEF Queued, In
  <2> QED BY <2>1, <2>2
<1>6. row'[r].status = "submitting" /\ row'[r].claim = made + 1 /\ row'[r].queue = 0
  <2>1. row'[r] = [row[r] EXCEPT !.status = "submitting", !.claim = made + 1]
    BY <1>4, <1>5 DEF TakeUp
  <2>2. row[r].queue = 0
    BY <1>5 DEF Booked
  <2> QED BY <1>5, <2>1, <2>2 DEF PendingRow
<1>7. tick' = [tick EXCEPT ![t] = [pc |-> "post", claim |-> made + 1, view |-> tick[t].view]]
  BY <1>1, <1>2, TickUpdates
<1>8. tick'[t] = [pc |-> "post", claim |-> made + 1, view |-> tick[t].view]
  BY <1>1, <1>7 DEF TickType
<1>9. r \in Mine(t)'
  BY <1>5, <1>6, <1>8 DEF Mine, HeldBy, In
<1>10. tick' \in [Ticks -> [pc : Places, claim : 0..made', view : View]]
  <2>1. [pc |-> "post", claim |-> made + 1, view |-> tick[t].view]
          \in [pc : Places, claim : 0..made', view : View]
    BY <1>1, <1>2 DEF Places
  <2>2. \A u \in Ticks : tick[u] \in [pc : Places, claim : 0..made', view : View]
    BY <1>1, <1>2 DEF TickType
  <2> QED BY <1>1, <1>7, <2>1, <2>2 DEF TickType
<1>11. TickGood(t)'
  BY <1>2, <1>3, <1>8, <1>9 DEF TickGood, Posting, Claims
<1> QED BY <1>1, <1>7, <1>8, <1>10, <1>11 DEF TickType, TickMoves

(* A tick moves on with the claim it works on.                             *)
LEMMA TickGoesOn ==
    ASSUME LookupInv, [Next]_vars, NEW t \in Ticks, UNCHANGED claimVars,
           NEW p \in {"resubmit", "persist", "retry"}, GoTo(t, p), tick[t].claim # 0,
           p = "resubmit" => batch'[tick[t].claim].state = "none" /\ Mine(t)' # {},
           p # "resubmit" => batch'[tick[t].claim].state # "none"
    PROVE  TickMoves(t)
<1> USE LookupTypes DEF LookupInv
<1>1. /\ TickType /\ TickGood(t)
      /\ tick[t] \in [pc : Places, claim : 0..made, view : View]
  BY DEF TypeOK, TickType
<1>2. tick' = [tick EXCEPT ![t] = [pc |-> p, claim |-> tick[t].claim, view |-> tick[t].view]]
  BY <1>1, TickUpdates
<1>3. tick'[t] = [pc |-> p, claim |-> tick[t].claim, view |-> tick[t].view]
  BY <1>1, <1>2 DEF TickType
<1>4. tick' \in [Ticks -> [pc : Places, claim : 0..made', view : View]]
  <2>1. [pc |-> p, claim |-> tick[t].claim, view |-> tick[t].view]
          \in [pc : Places, claim : 0..made', view : View]
    BY <1>1 DEF Places
  <2> QED BY <1>1, <1>2, <2>1 DEF TickType
<1>5. TickGood(t)'
  BY <1>1, <1>3 DEF TickGood, Posting
<1> QED BY <1>1, <1>2, <1>3, <1>4, <1>5 DEF TickType, TickMoves

LEMMA PostMoves ==
    ASSUME LookupInv, [Next]_vars, NEW t \in Ticks,
           PostAccepted(t) \/ PostUnknown(t) \/ PostFails(t) \/ Persist(t)
    PROVE  TickMoves(t)
<1> USE LookupTypes DEF LookupInv
<1>1. TickType /\ TickGood(t) /\ UNCHANGED claimVars
  BY DEF TypeOK, TickType, PostAccepted, PostUnknown, PostFails, PostNotDelivered, PostRejected,
     PostShort, Persist
<1>2. CASE EndTick(t) \/ GoToWith(t, "claim", 0)
  BY <1>1, <1>2, RestingSteps
<1>3. CASE PostAccepted(t)
  <2>1. Posting(t) /\ Accepts(t) /\ GoTo(t, "persist") /\ tick[t].claim \in Claims
    BY <1>1, <1>3 DEF PostAccepted, TickGood, Posting
  <2>2. batch'[tick[t].claim].state # "none"
    BY <2>1 DEF Accepts, TypeOK
  <2> QED BY <1>1, <2>1, <2>2, TickGoesOn
<1>4. ASSUME NEW tail \in SUBSET Mine(t), PostShort(t, tail) PROVE TickMoves(t)
  <2>1. /\ tick[t].pc = "post" /\ tail # Mine(t) /\ ReleaseRows(tail) /\ UNCHANGED batch
        /\ GoTo(t, "resubmit")
    BY <1>4 DEF PostShort, At
  <2>2. tick[t].claim # 0 /\ batch'[tick[t].claim].state = "none"
    BY <1>1, <2>1 DEF TickGood, Posting
  <2>3. PICK r \in Mine(t) : r \notin tail
    BY <2>1
  <2>4. r \in Rows /\ row'[r] = row[r]
    BY <2>1, <2>3 DEF ReleaseRows, Mine, HeldBy, In
  <2>5. tick'[t].claim = tick[t].claim
    BY <1>1, <2>1 DEF GoTo, TickType
  <2>6. r \in Mine(t)'
    BY <2>3, <2>4, <2>5 DEF Mine, HeldBy, In
  <2> QED BY <1>1, <2>1, <2>2, <2>6, TickGoesOn
<1>5. CASE Persist(t) /\ GoTo(t, "retry")
  <2>1. tick[t].claim # 0 /\ batch'[tick[t].claim].state # "none"
    BY <1>1, <1>5 DEF Persist, TickGood
  <2> QED BY <1>1, <1>5, <2>1, TickGoesOn
<1>6. PostUnknown(t) \/ PostNotDelivered(t) => EndTick(t)
  BY DEF PostUnknown, PostNotDelivered
<1>7. PostRejected(t) => EndTick(t) \/ GoToWith(t, "claim", 0)
  BY DEF PostRejected, GoToWith
<1>8. Persist(t) => GoToWith(t, "claim", 0) \/ GoTo(t, "retry")
  BY DEF Persist, GoToWith
<1> QED BY <1>2, <1>3, <1>4, <1>5, <1>6, <1>7, <1>8 DEF PostFails

(* Every step is a step of one tick, or leaves the ticks as they are.      *)
LEMMA NextTicks ==
    ASSUME LookupInv, [Next]_vars
    PROVE  UNCHANGED tick \/ \E t \in Ticks : TickMoves(t)
<1>1. ASSUME NEW t \in Ticks, StartTick(t) \/ (\E c \in Claims : Resolve(t, c)) \/ Claim(t)
      PROVE  TickMoves(t)
  BY <1>1, StartMoves, ResolveMoves, ClaimMoves
<1>2. ASSUME NEW t \in Ticks,
             PostAccepted(t) \/ PostUnknown(t) \/ PostFails(t) \/ Persist(t)
      PROVE  TickMoves(t)
  BY <1>2, PostMoves
<1>3. ASSUME NEW t \in Ticks,
             LeaveReconcile(t) \/ SkipSweep(t) \/ Sweep(t) \/ Settle(t) \/ ClaimNothing(t) \/ Die(t)
      PROVE  TickMoves(t)
  <2>1. made' = made
    BY <1>3 DEF LeaveReconcile, SkipSweep, Sweep, Settle, ClaimNothing, Die
  <2>2. ClaimNothing(t) \/ Die(t) => EndTick(t)
    BY DEF ClaimNothing, Die
  <2> QED BY <1>3, <2>1, <2>2, RestingSteps
<1>4. ASSUME NEW c \in Claims,
             Age(c) \/ ProviderCompletes(c) \/ LoseMessage(c) \/ Ingest(c) \/ IngestFails(c)
      PROVE UNCHANGED tick
  BY <1>4 DEF Age, ProviderCompletes, LoseMessage, Ingest, IngestFails
<1>5. ASSUME NEW r \in Rows, Enqueue(r) \/ StopWanting(r) PROVE UNCHANGED tick
  BY <1>5 DEF Enqueue, StopWanting
<1>6. CASE UNCHANGED vars
  BY <1>6 DEF vars
<1>7. CASE Next
  BY <1>1, <1>2, <1>3, <1>4, <1>5, <1>7 DEF Next, TickStep, PostFails
<1> QED BY <1>6, <1>7

LEMMA TicksStayGood ==
    ASSUME LookupInv, [Next]_vars
    PROVE  /\ tick' \in [Ticks -> [pc : Places, claim : 0..made', view : View]]
           /\ \A t \in Ticks : TickGood(t)'
           /\ TicksApart'
<1> USE LookupTypes DEF LookupInv
<1>1. TickType /\ made' \in {made, made + 1}
  BY NextClaims DEF TypeOK, TickType, ClaimsMove
<1>2. CASE UNCHANGED tick
  <2>1. tick' \in [Ticks -> [pc : Places, claim : 0..made', view : View]]
    <3>1. \A u \in Ticks : tick[u] \in [pc : Places, claim : 0..made', view : View]
      BY <1>1 DEF TickType
    <3> QED BY <1>1, <1>2, <3>1 DEF TickType
  <2>2. \A t \in Ticks : TickGood(t)'
    BY <1>2, StillTick
  <2> QED BY <1>2, <2>1, <2>2 DEF TicksApart
<1>3. ASSUME NEW t \in Ticks, TickMoves(t)
      PROVE  (\A u \in Ticks : TickGood(u)') /\ TicksApart'
  <2>1. \A u \in Ticks \ {t} : tick'[u] = tick[u] /\ TickGood(u)'
    BY <1>3, StillTick DEF TickMoves
  <2>2. \A u \in Ticks : tick[u].claim <= made
    BY <1>1 DEF TickType
  <2>3. tick'[t].claim \in {0, tick[t].claim} \/ tick'[t].claim = made + 1
    BY <1>3 DEF TickMoves
  <2>4. TicksApart'
    BY <1>1, <2>1, <2>2, <2>3 DEF TicksApart, TickType
  <2> QED BY <1>3, <2>1, <2>4 DEF TickMoves
<1> QED BY <1>2, <1>3, NextTicks DEF TickMoves

-----------------------------------------------------------------------------
(* Types, and the counter.                                                 *)

(* Only an ingest moves the counter, by what its batch is billed.          *)
LEMMA NextUsed ==
    ASSUME LookupInv, [Next]_vars
    PROVE  \/ used' = used /\ \A c \in Claims : ~IngestedNow(c)
           \/ \E c \in Claims : /\ IngestedNow(c) /\ \A d \in Claims \ {c} : SameClaim(d)
                                /\ used' = used + Cardinality(queue'[c].billed)
<1> USE DEF LookupInv, TypeOK
<1>1. ASSUME NEW c \in Claims, Ingest(c)
      PROVE  /\ IngestedNow(c) /\ \A d \in Claims \ {c} : SameClaim(d)
             /\ used' = used + Cardinality(queue'[c].billed)
  <2>1. IngestedNow(c)
    BY <1>1, IngestsBatch
  <2>2. PICK B : /\ queue' = [queue EXCEPT ![c].status = "completed", ![c].billed = B]
                 /\ used' = used + Cardinality(B) /\ UNCHANGED batch
    BY <1>1 DEF Ingest
  <2> QED BY <2>1, <2>2 DEF SameClaim, QueueRow
<1>2. ASSUME UNCHANGED used,
             \A c \in Claims : queue[c].status = "pending" => queue'[c].status # "completed"
      PROVE  used' = used /\ \A c \in Claims : ~IngestedNow(c)
  BY <1>2 DEF IngestedNow, QueueRow
<1>3. ASSUME UNCHANGED <<used, queue>>
      PROVE  used' = used /\ \A c \in Claims : ~IngestedNow(c)
  BY <1>2, <1>3
<1>4. ASSUME NEW q \in Claims, NEW n, NEW url, RecordQueue(q, n, url), UNCHANGED used
      PROVE  used' = used /\ \A c \in Claims : ~IngestedNow(c)
  BY <1>2, <1>4 DEF RecordQueue
<1>5. ASSUME NEW t \in Ticks, NEW c \in Claims, Resolve(t, c)
      PROVE  used' = used /\ \A d \in Claims : ~IngestedNow(d)
  <2> HIDE DEF LookupInv, TypeOK
  <2>1. UNCHANGED used
    BY <1>5 DEF Resolve
  <2>2. UNCHANGED queue \/ \E url : RecordQueue(c, Cardinality(batch[c].sent), url)
    BY <1>5, ResolveSteps DEF Books, Frees
  <2> QED BY <1>3, <1>4, <2>1, <2>2
<1>6. ASSUME NEW t \in Ticks, Persist(t)
      PROVE  used' = used /\ \A d \in Claims : ~IngestedNow(d)
  BY <1>4, <1>6, PersistBooks DEF Persist
<1>7. ASSUME NEW c \in Claims, IngestFails(c)
      PROVE  used' = used /\ \A d \in Claims : ~IngestedNow(d)
  BY <1>2, <1>7 DEF IngestFails
<1>8. ASSUME NEW t \in Ticks,
             StartTick(t) \/ LeaveReconcile(t) \/ SkipSweep(t) \/ Sweep(t) \/ Settle(t)
               \/ Claim(t) \/ ClaimNothing(t) \/ PostFails(t) \/ Die(t)
               \/ PostAccepted(t) \/ PostUnknown(t)
      PROVE UNCHANGED <<used, queue>>
  BY <1>8 DEF StartTick, LeaveReconcile, SkipSweep, Sweep, Settle, Claim, ClaimNothing,
     PostFails, PostNotDelivered, PostRejected, PostShort, Die, PostAccepted, PostUnknown
<1>9. ASSUME NEW c \in Claims, Age(c) \/ LoseMessage(c) \/ ProviderCompletes(c)
      PROVE UNCHANGED <<used, queue>>
  BY <1>9 DEF Age, LoseMessage, ProviderCompletes
<1>10. ASSUME NEW r \in Rows, Enqueue(r) \/ StopWanting(r) PROVE UNCHANGED <<used, queue>>
  BY <1>10 DEF Enqueue, StopWanting
<1>11. CASE UNCHANGED vars
  BY <1>3, <1>11 DEF vars
<1>12. CASE Next
  <2> HIDE DEF LookupInv, TypeOK
  <2> QED BY <1>1, <1>3, <1>5, <1>6, <1>7, <1>8, <1>9, <1>10, <1>12 DEF Next, TickStep, PostFails
<1> QED BY <1>11, <1>12

LEMMA BatchTypes ==
    ASSUME LookupInv, [Next]_vars
    PROVE  batch' \in [Claims -> Batch] /\ queue' \in [Claims -> QueueRow]
<1> USE DEF LookupInv
<1>1. ASSUME NEW c \in Claims PROVE batch'[c] \in Batch /\ queue'[c] \in QueueRow
  <2>1. ClaimStep(c) /\ batch[c] \in Batch /\ queue[c] \in QueueRow /\ ClaimGood(c)
    BY NextBatches DEF BatchesMove, TypeOK
  <2>2. Carried(c) \subseteq Rows
    BY DEF Carried
  <2>3. IsFiniteSet(batch[c].sent) /\ Cardinality(batch[c].sent) \in Nat
    BY <2>1, LookupConstants, FS_Subset, FS_CardinalityType DEF LookupConstants, Batch
  <2>4. CASE SameClaim(c) \/ Completed(c)
    BY <2>1, <2>4 DEF SameClaim, Completed, Batch
  <2>8. CASE Accepted(c)
    BY <2>1, <2>2, <2>8 DEF Accepted, Batch
  <2>5. CASE RecordedNow(c)
    BY <2>1, <2>3, <2>5 DEF RecordedNow, QueueRow
  <2>6. CASE IngestedNow(c)
    BY <2>1, <2>6 DEF IngestedNow, QueueRow, Batch
  <2>7. CASE GivenUp(c)
    BY <2>1, <2>7 DEF GivenUp, QueueRow
  <2> QED BY <2>1, <2>4, <2>5, <2>6, <2>7, <2>8 DEF ClaimStep
<1>2. batch' = [c \in Claims |-> batch'[c]] /\ queue' = [c \in Claims |-> queue'[c]]
  BY NextBatches DEF BatchesMove
<1> QED BY <1>1, <1>2

LEMMA OtherTypes ==
    ASSUME LookupInv, [Next]_vars
    PROVE  wanted' \subseteq Rows /\ msgs' \subseteq Claims
<1> USE DEF LookupInv, TypeOK
<1>1. CASE UNCHANGED <<wanted, msgs>>
  BY <1>1
<1>2. ASSUME NEW t \in Ticks, StartTick(t) PROVE wanted' \subseteq Rows /\ msgs' \subseteq Claims
  BY <1>2 DEF StartTick, Redrivable
<1>3. ASSUME NEW t \in Ticks, NEW c \in Claims, Resolve(t, c)
      PROVE  wanted' \subseteq Rows /\ msgs' \subseteq Claims
  <2>1. ASSUME HeldBy(c) # {}, NEW q \in Adoptable(c, tick[t].view) PROVE q \in Claims
    <3> HIDE DEF LookupInv, TypeOK
    <3>1. At(t, "resolve") /\ tick[t].view.held[c] # 0
      BY <1>3 DEF Resolve
    <3> QED BY <2>1, <3>1, AdoptsOwn
  <2>2. msgs' = msgs \/ \E q \in Adoptable(c, tick[t].view) : HeldBy(c) # {} /\ msgs' = msgs \cup {q}
    BY <1>3 DEF Resolve, PinnedTo
  <2> QED BY <1>3, <2>1, <2>2 DEF Resolve
<1>4. ASSUME NEW c \in Claims,
             ProviderCompletes(c) \/ LoseMessage(c) \/ Ingest(c) \/ IngestFails(c)
      PROVE  wanted' \subseteq Rows /\ msgs' \subseteq Claims
  BY <1>4 DEF ProviderCompletes, LoseMessage, Ingest, IngestFails
<1>5. ASSUME NEW r \in Rows, Enqueue(r) \/ StopWanting(r)
      PROVE  wanted' \subseteq Rows /\ msgs' \subseteq Claims
  BY <1>5 DEF Enqueue, StopWanting
<1>6. ASSUME NEW t \in Ticks,
             LeaveReconcile(t) \/ SkipSweep(t) \/ Sweep(t) \/ Settle(t)
               \/ Claim(t) \/ ClaimNothing(t) \/ PostFails(t) \/ Die(t)
               \/ PostAccepted(t) \/ PostUnknown(t) \/ Persist(t)
      PROVE UNCHANGED <<wanted, msgs>>
  BY <1>6 DEF LeaveReconcile, SkipSweep, Sweep, Settle, Claim, ClaimNothing, PostFails,
     PostNotDelivered, PostRejected, PostShort, Die, PostAccepted, PostUnknown, Persist
<1>7. ASSUME NEW c \in Claims, Age(c) PROVE UNCHANGED <<wanted, msgs>>
  BY <1>7 DEF Age
<1>8. CASE UNCHANGED vars
  BY <1>1, <1>8 DEF vars
<1>9. CASE Next
  <2> HIDE DEF LookupInv, TypeOK
  <2> QED BY <1>1, <1>2, <1>3, <1>4, <1>5, <1>6, <1>7, <1>9 DEF Next, TickStep, PostFails
<1> QED BY <1>8, <1>9

(* The counter stays a number.                                             *)
LEMMA UsedType ==
    ASSUME LookupInv, [Next]_vars
    PROVE  used' \in Nat
<1>1. used \in Nat
  BY DEF LookupInv, TypeOK
<1>2. ASSUME NEW c \in Claims PROVE Cardinality(queue'[c].billed) \in Nat
  <2>1. queue'[c].billed \in SUBSET Rows
    BY BatchTypes DEF QueueRow
  <2> QED BY <2>1, LookupConstants, FS_Subset, FS_CardinalityType DEF LookupConstants
<1> QED BY <1>1, <1>2, NextUsed

LEMMA TypesStay ==
    ASSUME LookupInv, [Next]_vars
    PROVE  TypeOK'
<1>1. row' \in [Rows -> PendingRow] /\ lead' \in [Rows -> LeadStatuses]
  BY NextRows DEF RowsMove
<1>2. cache' \subseteq {Key[r] : r \in Rows}
  BY NextCache
<1>3. /\ made' \in 0..MaxClaims /\ fresh' \subseteq 1..made'
      /\ window' \in [Claims -> SUBSET Claims] /\ quiet' \in [Claims -> SUBSET Claims]
  BY NextClaims DEF ClaimsMove
<1>4. batch' \in [Claims -> Batch] /\ queue' \in [Claims -> QueueRow]
  BY BatchTypes
<1>5. tick' \in [Ticks -> [pc : Places, claim : 0..made', view : View]]
  BY TicksStayGood
<1> QED BY <1>1, <1>2, <1>3, <1>4, <1>5, OtherTypes, UsedType, RowShape DEF TypeOK, LeadStatuses

-----------------------------------------------------------------------------
(* The inductive invariant.                                                *)

LEMMA LookupStarts == Init => LookupInv
<1> SUFFICES ASSUME Init PROVE LookupInv
  OBVIOUS
<1> USE LookupConstants DEF LookupConstants, Init
<1>1. \A r \in Rows : /\ row[r].status \in {"none", "queued"} /\ row[r].claim = 0
                      /\ row[r].queue = 0
  OBVIOUS
<1>2. TypeOK
  <2>1. row \in [Rows -> PendingRow]
    BY DEF PendingRow, Statuses
  <2>2. batch \in [Claims -> Batch] /\ queue \in [Claims -> QueueRow]
    BY DEF Batch, QueueRow
  <2>3. tick \in [Ticks -> [pc : Places, claim : 0..made, view : View]]
    BY NoViewType DEF Places
  <2> QED BY <1>1, <2>1, <2>2, <2>3 DEF TypeOK
<1>3. LeadShowsRow
  BY DEF LeadShowsRow
<1>4. \A r \in Rows : RowGood(r)
  BY <1>1 DEF RowGood, Booked
<1>5. \A c \in Claims : ClaimGood(c)
  BY DEF ClaimGood, Claims
<1>6. \A t \in Ticks : TickGood(t)
  BY DEF TickGood, Posting
<1>7. TicksApart /\ AnswersApart
  BY <1>1 DEF TicksApart, AnswersApart
<1>8. SpentWithinCaps
  <2>1. {r \in Rows : row[r].claim # 0} = {}
    BY <1>1
  <2>2. Spent = 0
    BY <2>1, FS_EmptySet DEF Spent
  <2> QED BY <2>2 DEF SpentWithinCaps
<1> QED BY <1>2, <1>3, <1>4, <1>5, <1>6, <1>7, <1>8 DEF LookupInv

LEMMA LookupGoesOn ==
    ASSUME LookupInv, [Next]_vars
    PROVE  LookupInv'
<1>1. TypeOK' /\ LeadShowsRow'
  BY TypesStay, LeadsStayTrue
<1>2. \A r \in Rows : RowGood(r)'
  BY RowsStayGood
<1>3. \A c \in Claims : ClaimGood(c)'
  BY ClaimsStayGood
<1>4. (\A t \in Ticks : TickGood(t)') /\ TicksApart'
  BY TicksStayGood
<1>5. AnswersApart' /\ SpentWithinCaps'
  BY AnswersStayApart, SpendingStaysWithinCaps
<1> QED BY <1>1, <1>2, <1>3, <1>4, <1>5 DEF LookupInv

(* In every reachable state the rows, claims, batches and ticks of the     *)
(* paid lookups agree with one another as LookupInv says.                  *)
THEOREM LookupsAgree == Spec => []LookupInv
  BY LookupStarts, LookupGoesOn, PTL DEF Spec

(* The types hold: of a row too, whose queue id says it was booked and     *)
(* whose claim says it is or was at the provider.                          *)
THEOREM TypeCorrect == Spec => []TypeOK
<1>1. LookupInv => TypeOK
  BY DEF LookupInv
<1> QED BY <1>1, LookupsAgree, PTL

(* A lead says its lookup is under way exactly while its pending row is,   *)
(* and shows an answer only if the account has it, although ticks, posts   *)
(* and ingests of other claims overlap.                                    *)
THEOREM LeadsShowRows == Spec => []LeadShowsRow
<1>1. LookupInv => LeadShowsRow
  BY DEF LookupInv
<1> QED BY <1>1, LookupsAgree, PTL

(* A row is only ever booked to the batch that carried it, by the live     *)
(* bookkeeping, by its retry and by an adoption alike.                     *)
THEOREM OwnBatchOnly == Spec => []AnswersFromOwnBatch
<1>1. ASSUME LookupInv, NEW r \in Rows, row[r].queue # 0
      PROVE  r \in batch[row[r].queue].sent
  <2>1. row[r].queue \in Claims /\ row[r].status \in Booked /\ row[r].claim = row[r].queue
    BY <1>1, LookupTypes DEF LookupInv, RowGood
  <2>2. batch[row[r].queue].state # "none"
    BY <1>1, <2>1, BatchFacts DEF LookupInv, RowGood, Booked
  <2>3. batch[row[r].queue].sent = Carried(row[r].queue)
    BY <1>1, <2>1, <2>2, BatchFacts
  <2> QED BY <2>1, <2>3 DEF Carried
<1>2. LookupInv => AnswersFromOwnBatch
  BY <1>1 DEF AnswersFromOwnBatch
<1> QED BY <1>2, LookupsAgree, PTL

(* Whatever is charged was carried by that claim.                          *)
LEMMA ChargedCarried ==
    ASSUME LookupInv, NEW c \in Claims, NEW r \in Charged(c)
    PROVE  r \in Rows /\ row[r].claim = c
  BY DEF LookupInv, ClaimGood, Charged, Carried

(* An answer is charged a second time only if the lookup that was charged  *)
(* first ended without one: the hold on answers in flight, the cache and   *)
(* the reconciliation together never buy it twice.                         *)
THEOREM NoAnswerTwice == Spec => []RepurchasedOnlyUnanswered
<1>1. ASSUME LookupInv, NEW r \in Rows, NEW q \in Rows, NEW c \in Claims, NEW d \in Claims,
             c < d, r \in Charged(c), q \in Charged(d), Key[r] = Key[q]
      PROVE  row[r].status = "unmatched"
  BY <1>1, ChargedCarried, LookupTypes DEF LookupInv, AnswersApart
<1>2. LookupInv => RepurchasedOnlyUnanswered
  BY <1>1 DEF RepurchasedOnlyUnanswered
<1> QED BY <1>2, LookupsAgree, PTL

(* The provider never charges more in a day than a cap allows, although    *)
(* claims are released, reconciled and answered while the day lasts.       *)
THEOREM ChargesWithinCaps == Spec => []ChargedWithinCap
<1>1. ASSUME LookupInv, NEW cap \in {AccountCap, GlobalCap} \ {0}
      PROVE  Cardinality({p \in Claims \X Rows : p[2] \in Charged(p[1])}) <= cap
  <2> DEFINE P == {p \in Claims \X Rows : p[2] \in Charged(p[1])}
             Q == {r \in Rows : row[r].claim # 0}
             f == [p \in P |-> p[2]]
  <2>1. \A p \in P : p \in Claims \X Rows /\ p[2] \in Rows /\ row[p[2]].claim = p[1] /\ p[1] # 0
    <3> SUFFICES ASSUME NEW p \in P
                 PROVE  /\ p \in Claims \X Rows /\ p[2] \in Rows
                        /\ row[p[2]].claim = p[1] /\ p[1] # 0
      OBVIOUS
    <3>1. p \in Claims \X Rows /\ p[1] \in Claims /\ p[2] \in Charged(p[1])
      OBVIOUS
    <3>2. 0 \notin Claims
      BY DEF Claims
    <3>3. p[2] \in Rows /\ row[p[2]].claim = p[1]
      BY <1>1, <3>1, ChargedCarried
    <3> QED BY <3>1, <3>2, <3>3
  <2>2. f \in Injection(P, Q)
    <3>1. f \in [P -> Q]
      BY <2>1
    <3>2. ASSUME NEW a \in P, NEW b \in P, f[a] = f[b] PROVE a = b
      BY <2>1, <3>2
    <3> QED BY <3>1, <3>2 DEF Injection, IsInjective
  <2>3. IsFiniteSet(Q) /\ Cardinality(Q) \in Nat
    BY LookupConstants, FS_Subset, FS_CardinalityType DEF LookupConstants
  <2>4. IsFiniteSet(P) /\ Cardinality(P) <= Cardinality(Q)
    BY <2>2, <2>3, FS_Injection
  <2>5. Cardinality(P) \in Nat /\ cap \in Nat
    BY <2>4, LookupConstants, FS_CardinalityType DEF LookupConstants
  <2>6. Cardinality(Q) <= cap
    BY <1>1 DEF LookupInv, SpentWithinCaps, Spent
  <2> QED BY <2>3, <2>4, <2>5, <2>6
<1>2. LookupInv => ChargedWithinCap
  BY <1>1 DEF ChargedWithinCap
<1> QED BY <1>2, LookupsAgree, PTL

BilledPairs == {p \in Claims \X Rows : p[2] \in queue[p[1]].billed}
Counted == used = Cardinality(BilledPairs)

LEMMA CountedStarts == Init => Counted
<1> SUFFICES ASSUME Init PROVE Counted
  OBVIOUS
<1>1. BilledPairs = {}
  BY DEF Init, BilledPairs
<1> QED BY <1>1, FS_EmptySet DEF Init, Counted

LEMMA CountedGoesOn ==
    ASSUME LookupInv, Counted, [Next]_vars
    PROVE  Counted'
<1> USE DEF LookupInv
<1>1. \A c \in Claims : /\ queue[c] \in QueueRow /\ queue'[c] \in QueueRow /\ ClaimStep(c)
                        /\ queue[c].status # "completed" => queue[c].billed = {}
  BY BatchTypes, NextBatches DEF BatchesMove, TypeOK, ClaimGood
<1>2. ASSUME NEW c \in Claims, ~IngestedNow(c)
      PROVE  queue'[c].billed = queue[c].billed
  <2>1. queue[c] \in QueueRow /\ ClaimStep(c)
    BY <1>1
  <2>2. CASE SameClaim(c) \/ Accepted(c) \/ Completed(c)
    BY <2>2 DEF SameClaim, Accepted, Completed
  <2>3. CASE RecordedNow(c)
    BY <1>1, <2>3 DEF RecordedNow
  <2>4. CASE GivenUp(c)
    BY <2>1, <2>4 DEF GivenUp, QueueRow
  <2> QED BY <1>2, <2>1, <2>2, <2>3, <2>4 DEF ClaimStep
<1>3. CASE used' = used /\ \A c \in Claims : ~IngestedNow(c)
  <2>1. BilledPairs' = BilledPairs
    BY <1>2, <1>3 DEF BilledPairs
  <2> QED BY <1>3, <2>1 DEF Counted
<1>4. ASSUME NEW c \in Claims, IngestedNow(c), \A d \in Claims \ {c} : SameClaim(d),
             used' = used + Cardinality(queue'[c].billed)
      PROVE  Counted'
  <2> DEFINE B == queue'[c].billed
             N == {c} \X B
  <2>1. queue[c].billed = {}
    BY <1>1, <1>4 DEF IngestedNow
  <2>2. B \subseteq Rows /\ \A d \in Claims \ {c} : queue'[d].billed = queue[d].billed
    BY <1>1, <1>4 DEF QueueRow, SameClaim
  <2>3. BilledPairs' = BilledPairs \cup N /\ BilledPairs \cap N = {}
    BY <2>1, <2>2 DEF BilledPairs
  <2>4. IsFiniteSet(B) /\ Cardinality(B) \in Nat
    BY <2>2, LookupConstants, FS_Subset, FS_CardinalityType DEF LookupConstants
  <2>5. IsFiniteSet(N) /\ Cardinality(N) = Cardinality(B)
    <3>1. IsFiniteSet({c}) /\ Cardinality({c}) = 1
      BY FS_Singleton
    <3>2. IsFiniteSet(N) /\ Cardinality(N) = Cardinality({c}) * Cardinality(B)
      BY <2>4, <3>1, FS_Product
    <3> QED BY <2>4, <3>1, <3>2
  <2>6. IsFiniteSet(BilledPairs)
    <3>1. IsFiniteSet(Claims) /\ IsFiniteSet(Rows)
      BY LookupConstants, FS_Interval DEF LookupConstants, Claims
    <3>2. IsFiniteSet(Claims \X Rows) /\ BilledPairs \subseteq Claims \X Rows
      BY <3>1, FS_Product DEF BilledPairs
    <3> QED BY <3>2, FS_Subset
  <2>7. Cardinality(BilledPairs') = Cardinality(BilledPairs) + Cardinality(B)
    <3>1. Cardinality(BilledPairs \cup N)
            = Cardinality(BilledPairs) + Cardinality(N) - Cardinality(BilledPairs \cap N)
      BY <2>5, <2>6, FS_Union
    <3>2. Cardinality(BilledPairs \cap N) = 0 /\ Cardinality(BilledPairs) \in Nat
      BY <2>3, <2>6, FS_EmptySet, FS_CardinalityType
    <3> QED BY <2>3, <2>4, <2>5, <3>1, <3>2
  <2> QED BY <1>4, <2>7 DEF Counted
<1> QED BY <1>3, <1>4, NextUsed

(* A customer is billed for a lookup only if the provider charged for it,  *)
(* and the counter is exactly what the batches billed, once each, although *)
(* an ingest message may be delivered again and a batch adopted late.      *)
THEOREM BilledOnceIfBought == Spec => []BilledWasBought
<1>1. Spec => []Counted
  <2>1. LookupInv /\ Counted /\ [Next]_vars => Counted'
    BY CountedGoesOn
  <2> QED BY <2>1, CountedStarts, LookupsAgree, PTL DEF Spec
<1>2. LookupInv /\ Counted => BilledWasBought
  BY DEF LookupInv, ClaimGood, Charged, Counted, BilledPairs, BilledWasBought
<1> QED BY <1>1, <1>2, LookupsAgree, PTL

-----------------------------------------------------------------------------
(* Every row keeps its contract.                                           *)

ChargedNow == UNION {Charged(c) : c \in Claims}

LEMMA ChargedOnce ==
    ASSUME LookupInv, NEW r \in Rows
    PROVE  r \in ChargedNow <=> row[r].claim \in Claims /\ r \in batch[row[r].claim].uploaded
  BY ChargedCarried DEF ChargedNow, Charged

(* What was charged stays charged, and more is charged only of rows that   *)
(* are out, when their batch is accepted.                                  *)
LEMMA ChargesMove ==
    ASSUME LookupInv, [Next]_vars, NEW r \in Rows
    PROVE  \/ r \in ChargedNow' <=> r \in ChargedNow
           \/ /\ r \notin ChargedNow /\ r \in ChargedNow' /\ Keeps(r)
              /\ row[r].status = "submitting"
<1> USE DEF LookupInv
<1>1. \A c \in Claims : ClaimStep(c) /\ batch[c] \in Batch /\ ClaimGood(c)
  BY NextBatches DEF BatchesMove, TypeOK
<1>2. ASSUME NEW c \in Claims, ~Accepted(c)
      PROVE  batch'[c].uploaded = batch[c].uploaded
  <2>1. ClaimStep(c) /\ batch[c] \in Batch
    BY <1>1
  <2> QED BY <1>2, <2>1 DEF ClaimStep, SameClaim, Completed, RecordedNow, IngestedNow, GivenUp, Batch
<1>3. ASSUME NEW c \in Claims, Accepted(c)
      PROVE  /\ batch[c].uploaded = {}
             /\ \A q \in batch'[c].uploaded : q \in Rows /\ row[q].claim = c
             /\ \A q \in batch'[c].uploaded : row[q].status = "submitting" /\ Keeps(q)
  BY <1>1, <1>3 DEF Accepted, Carried, Keeps, ClaimGood
<1>4. CASE \E c \in Claims : Accepted(c) /\ r \in batch'[c].uploaded
  <2>1. PICK c \in Claims : Accepted(c) /\ r \in batch'[c].uploaded
    BY <1>4
  <2>2. row[r].claim = c /\ r \notin batch[c].uploaded /\ row[r].status = "submitting" /\ Keeps(r)
    BY <1>3, <2>1
  <2>3. r \notin ChargedNow
    <3> HIDE DEF LookupInv
    <3> QED BY <2>2, ChargedOnce
  <2>4. r \in ChargedNow'
    BY <2>1 DEF ChargedNow, Charged
  <2> QED BY <2>2, <2>3, <2>4
<1>5. CASE \A c \in Claims : Accepted(c) => r \notin batch'[c].uploaded
  <2>1. \A c \in Claims : r \in batch'[c].uploaded <=> r \in batch[c].uploaded
    BY <1>2, <1>3, <1>5
  <2> QED BY <2>1 DEF ChargedNow, Charged
<1> QED BY <1>4, <1>5

LEMMA RowKeepsContract ==
    ASSUME LookupInv, [Next]_vars, NEW r \in Rows
    PROVE  \/ /\ r \in ChargedNow' <=> r \in ChargedNow
              /\ \/ Phase(r)' = Phase(r)
                 \/ Phase(r) = "none" /\ Phase(r)' \in {"waiting", "done"}
                 \/ Phase(r) = "waiting" /\ Phase(r)' \in {"out", "done"}
                 \/ r \notin ChargedNow /\ Phase(r) = "out" /\ Phase(r)' \in {"waiting", "done"}
                 \/ Phase(r) = "out" /\ Phase(r)' = "booked"
                 \/ Phase(r) = "booked" /\ Phase(r)' = "done"
           \/ /\ Phase(r) = "out" /\ Phase(r)' = "out"
              /\ r \notin ChargedNow /\ r \in ChargedNow'
<1>1. RowStep(r) /\ row[r] \in PendingRow
  BY NextRows DEF RowsMove, LookupInv, TypeOK
<1>2. CASE ~(r \in ChargedNow' <=> r \in ChargedNow)
  BY <1>2, ChargesMove DEF Phase, Keeps
<1>3. CASE Keeps(r) /\ (r \in ChargedNow' <=> r \in ChargedNow)
  BY <1>3 DEF Phase, Keeps
<1>4. CASE Asked(r) /\ (r \in ChargedNow' <=> r \in ChargedNow)
  BY <1>1, <1>4 DEF Phase, Asked, PendingRow
<1>5. CASE Ended(r) /\ (r \in ChargedNow' <=> r \in ChargedNow)
  BY <1>1, <1>5 DEF Phase, Ended, PendingRow
<1>6. CASE Claimed(r) /\ (r \in ChargedNow' <=> r \in ChargedNow)
  BY <1>1, <1>6 DEF Phase, Claimed, PendingRow
<1>7. CASE LetGo(r) /\ (r \in ChargedNow' <=> r \in ChargedNow)
  <2>1. r \notin ChargedNow
    BY <1>7, ChargedOnce DEF LetGo, LookupInv, ClaimGood
  <2> QED BY <1>1, <1>7, <2>1 DEF Phase, LetGo, PendingRow
<1>8. CASE (BookedNow(r) \/ Answered(r)) /\ (r \in ChargedNow' <=> r \in ChargedNow)
  BY <1>1, <1>8 DEF Phase, BookedNow, Answered, PendingRow
<1> QED BY <1>1, <1>2, <1>3, <1>4, <1>5, <1>6, <1>7, <1>8 DEF RowStep

(* Each row keeps the contract of a paid lookup, whatever ticks, posts and *)
(* ingests do in between: once charged it is never released, failed or     *)
(* withdrawn, so never sent again; it can only be booked and answered.     *)
THEOREM LookupsKeepContract == Spec => KeepsContract

<1>1. Init => Contract!Init
  <2> SUFFICES ASSUME Init PROVE Contract!Init
    OBVIOUS
  <2>1. \A r \in Rows : Phase(r) \in {"none", "waiting"}
    BY DEF Init, Phase
  <2>2. UNION {Charged(c) : c \in Claims} = {}
    BY DEF Init, Charged
  <2> QED BY <2>1, <2>2 DEF Contract!Init
<1>2. LookupInv /\ [Next]_vars => [Contract!Next]_(Contract!cvars)
  <2> SUFFICES ASSUME LookupInv, [Next]_vars, NEW r \in Rows
               PROVE  Contract!Move(r) \/ Contract!Charge(r) \/ Contract!Stay(r)
    BY DEF Contract!Next
  <2> QED BY RowKeepsContract
          DEF ChargedNow, Contract!Move, Contract!Ask, Contract!Send, Contract!TakeBack,
              Contract!Book, Contract!Answer, Contract!Goes, Contract!Charge, Contract!Stay
<1> QED BY <1>1, <1>2, LookupsAgree, PTL DEF Spec, KeepsContract, Contract!Spec
=============================================================================
