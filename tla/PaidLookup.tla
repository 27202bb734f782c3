----------------------------- MODULE PaidLookup -----------------------------
(***************************************************************************)
(* A paid contact lookup, from the row a run queues to the answer its lead *)
(* shows: the queue, the dispatcher ticks that claim rows and post them to *)
(* the provider, the reconciliation of posts whose outcome is unknown, and *)
(* the ingest that books answers and bills them (skip_trace_dispatcher.py, *)
(* skip_trace_claim.py, skip_trace_capacity.py, tracerfy_ingest.py,        *)
(* api/billing/skip_trace_usage.py).                                       *)
(*                                                                         *)
(* One account, one trace type (a credit a lookup), one rolling day and    *)
(* one answer-cache window.  Ticks may overlap.  A claim is identified by  *)
(* a number in the order of its submitted_at, and at most one post of a    *)
(* claim is accepted, so the provider's batch, its queue id and the        *)
(* skip_trace_queues row carry the claim's number too.  Time is only       *)
(* whether a claim is stale yet and which claims are near one another.     *)
(***************************************************************************)
EXTENDS Integers, FiniteSets

CONSTANTS
    Rows,        \* pending_skip_trace_rows, one per lead
    Key,         \* [Rows -> answer keys]: rows of one key buy one answer
    Again,       \* rows of a lead an earlier run delivered
    Early,       \* bound: rows queued before the first tick
    Fickle,      \* bound: rows whose lead may stop being wanted
    Ticks,       \* dispatcher tasks that may run at the same time
    MaxClaims,   \* bound: claims made in the day
    Lossy,       \* bound: batches whose ingest messages may be lost or fail
    AccountCap,  \* the account's daily credit cap; 0 is no cap
    GlobalCap    \* the daily credit cap of everyone together; 0 is no cap

ASSUME LookupConstants ==
    /\ IsFiniteSet(Rows) /\ Again \subseteq Rows 
    /\ Early \subseteq Rows /\ Fickle \subseteq Rows
    /\ DOMAIN Key = Rows
    /\ MaxClaims \in Nat \ {0} /\ Lossy \subseteq 1..MaxClaims
    /\ AccountCap \in Nat /\ GlobalCap \in Nat

VARIABLES
    row,     \* the pending rows
    lead,    \* results.skip_trace_status of each row's lead
    wanted,  \* rows whose lead may be looked up: job delivered or running, in quota
    cache,   \* keys with an answer in skip_trace_cache
    made,    \* the number of claims made
    window,  \* window[c]: claims whose batch is created in c's tight window
    quiet,   \* quiet[c]: claims within half an hour of c
    fresh,   \* claims less than half an hour old
    batch,   \* the provider's record of the batch of a claim
    queue,   \* the skip_trace_queues row of the batch of a claim
    msgs,    \* ingest_tracerfy_batch messages, by queue id
    used,    \* users.skip_trace_used_this_month
    tick     \* where each dispatcher tick is, and the claims it read

vars == <<row, lead, wanted, cache, made, window, quiet, fresh, batch, queue, msgs, used, tick>>
claimVars == <<made, window, quiet, fresh>>

Claims == 1..MaxClaims
Statuses == {"none", "queued", "submitting", "submitted", "completed", "unmatched",
             "errored", "cancelled", "reused"}
PendingRow == [status : Statuses, claim : 0..MaxClaims, queue : 0..MaxClaims]

(* What the provider knows of a batch: rows it was sent and rows it took   *)
(* and charged.  While the batch is open it hides the latter.              *)
Batch == [state : {"none", "open", "complete"}, sent : SUBSET Rows, uploaded : SUBSET Rows]

QueueRow == [status : {"none", "pending", "completed", "errored"}, url : BOOLEAN,
             sent : Nat, billed : SUBSET Rows]

(* What a tick read before it resolves stale claims: how many rows each    *)
(* still held, the provider's list, and the queue ids recorded here.       *)
View == [held : [Claims -> Nat], listed : SUBSET Claims, shown : SUBSET Claims,
         known : SUBSET Claims, contested : SUBSET Claims]
NoView == [held |-> [c \in Claims |-> 0], listed |-> {}, shown |-> {}, known |-> {},
           contested |-> {}]
Places == {"idle", "resolve", "sweep", "settle", "claim", "post", "resubmit",
           "persist", "retry"}

Init ==
    /\ row = [r \in Rows |-> [status |-> IF r \in Early THEN "queued" ELSE "none",
                            claim |-> 0, queue |-> 0]]
    /\ lead = [r \in Rows |-> IF r \in Early THEN "queued" ELSE "not_attempted"]
    /\ wanted = Rows
    /\ cache = {}
    /\ made = 0
    /\ window = [c \in Claims |-> {}] /\ quiet = window
    /\ fresh = {}
    /\ batch = [c \in Claims |-> [state |-> "none", sent |-> {}, uploaded |-> {}]]
    /\ queue = [c \in Claims |-> [status |-> "none", url |-> FALSE, sent |-> 0, billed |-> {}]]
    /\ msgs = {}
    /\ used = 0
    /\ tick = [t \in Ticks |-> [pc |-> "idle", claim |-> 0, view |-> NoView]]

-----------------------------------------------------------------------------
(* Operators.                                                              *)

In(statuses) == {r \in Rows : row[r].status \in statuses}
Queued == In({"queued"})
InFlight == In({"submitting", "submitted"})

(* The rows claim c still holds without a queue id.                        *)
HeldBy(c) == {r \in In({"submitting"}) : row[r].claim = c /\ row[r].queue = 0}

(* An answer that was charged and could not be attributed to its row.      *)
ChargedUnanswered == {Key[r] : r \in In({"unmatched"})}

SetStatus(S, st) == [r \in Rows |-> IF r \in S THEN [row[r] EXCEPT !.status = st] ELSE row[r]]
SetLead(S, st) == [r \in Rows |-> IF r \in S THEN st ELSE lead[r]]

At(t, pc) == tick[t].pc = pc
GoTo(t, pc) == tick' = [tick EXCEPT ![t].pc = pc]

(* The tick is over; what it read is gone.                                 *)
EndTick(t) == tick' = [tick EXCEPT ![t] = [pc |-> "idle", claim |-> 0, view |-> NoView]]

(* Mutant: the cap counts only what has not been answered yet.             *)
SpentInFlight == Cardinality(InFlight)

(* spent_credits: every row whose claim stands, whatever became of it.     *)
Spent == Cardinality({r \in Rows : row[r].claim # 0})

CapReached == GlobalCap # 0 /\ Spent >= GlobalCap
WithinCaps(S) == \A cap \in {AccountCap, GlobalCap} \ {0} : Spent + Cardinality(S) <= cap

-----------------------------------------------------------------------------
(* The run that asks, and what happens to its lead meanwhile.              *)

(* _enqueue_skip_trace_rows for one lead: a fresh answer of the account is *)
(* copied, an address charged without an answer is settled, and otherwise  *)
(* a row is queued.                                                        *)
Enqueue(r) ==
    /\ row[r].status = "none" /\ lead[r] = "not_attempted" /\ r \in wanted
    /\ \/ /\ r \in Again /\ Key[r] \in ChargedUnanswered
          /\ lead' = [lead EXCEPT ![r] = "errored"]
          /\ UNCHANGED row
       \/ /\ ~(r \in Again /\ Key[r] \in ChargedUnanswered)
          /\ Key[r] \in cache
          /\ lead' = [lead EXCEPT ![r] = "answered"]
          /\ UNCHANGED row
       \/ /\ ~(r \in Again /\ Key[r] \in ChargedUnanswered)
          /\ Key[r] \notin cache
          /\ lead' = [lead EXCEPT ![r] = "queued"]
          /\ row' = [row EXCEPT ![r].status = "queued"]
    /\ UNCHANGED <<wanted, cache, claimVars, batch, queue, msgs, used, tick>>

(* The run fails or is cancelled unbilled, the lead goes over quota, or    *)
(* the account ends: the lookup must not be bought any more.               *)
StopWanting(r) ==
    /\ r \in wanted \cap Fickle /\ wanted' = wanted \ {r}
    /\ UNCHANGED <<row, lead, cache, claimVars, batch, queue, msgs, used, tick>>

-----------------------------------------------------------------------------
(* A tick begins: reconciliation of claims whose outcome is unknown.       *)

Listed == {c \in Claims : batch[c].state # "none"}
Shown == {c \in Claims : batch[c].state = "complete"}
Recorded == {c \in Claims : queue[c].status # "none"}

(* candidate_queues, the hits: complete, not recorded here, created in c's *)
(* window, and of a size c's n rows could have made.                       *)
Hits(c, n, shown, known) ==
    {d \in (shown \cap window[c]) \ known : Cardinality(batch[d].uploaded) \in 1..n}

(* candidate_queues, the undecidable: still open, so its size is hidden.   *)
Hidden(c, v) == (v.listed \cap window[c]) \ (v.shown \cup v.known)

(* Mutant: only claims that are stale too can contest a queue.             *)
ContestedByStale(held) ==
    {d \in Listed \ Recorded :
        Cardinality({c \in Claims \ fresh : held[c] # 0 /\ d \in window[c]
                       /\ (d \in Shown => d \in Hits(c, held[c], Shown, Recorded))}) > 1}

(* contested_queue_ids, over every claim in flight: a queue that could be  *)
(* the batch of two of them.                                               *)
Contested(held) ==
    {d \in Listed \ Recorded :
        Cardinality({c \in Claims : held[c] # 0 /\ d \in window[c]
                       /\ (d \in Shown => d \in Hits(c, held[c], Shown, Recorded))}) > 1}

(* Mutant: the redrive looks for queues whose ingest gave up.              *)
RedrivableErrored == {c \in Claims : queue[c].status = "errored" /\ queue[c].url}

(* _redrive_unigested_adoptions: recorded with a result link, not ingested. *)
Redrivable == {c \in Claims : queue[c].status = "pending" /\ queue[c].url}

(* A tick starts, unless the global cap is reached.  It sends the ingest message  *)
(* of every queue recorded with its result link and not yet ingested, and  *)
(* reads the stale claims, the provider's list, the recorded queues and    *)
(* the contested ones.                                                     *)
StartTick(t) ==
    /\ At(t, "idle") /\ ~CapReached
    /\ msgs' = msgs \cup Redrivable
    /\ LET held == [c \in Claims |-> Cardinality(HeldBy(c))]
           stale == [c \in Claims |-> IF c \in fresh THEN 0 ELSE held[c]]
       IN  IF \A c \in Claims : stale[c] = 0
           THEN GoTo(t, "sweep")
           ELSE tick' = [tick EXCEPT ![t] =
                           [pc |-> "resolve", claim |-> 0,
                            view |-> [held |-> stale, listed |-> Listed, shown |-> Shown,
                                      known |-> Recorded, contested |-> Contested(held)]]]
    /\ UNCHANGED <<row, lead, wanted, cache, claimVars, batch, queue, used>>

(* Mutant: a recorded queue nearby casts doubt on the claim too.           *)
ReleaseIsSafeAlone(c, v) == v.listed \cap quiet[c] = {}

(* _release_is_safe: no unrecorded queue anywhere near the claim.          *)
ReleaseIsSafe(c, v) == (v.listed \cap quiet[c]) \subseteq v.known

(* The rows a stale claim still holds, read again before it is resolved.   *)
PinnedTo(c) == HeldBy(c)

(* Mutant: a claim without an exact match is taken as never accepted.      *)
ReleaseOnNoMatch(c, v) == Hits(c, v.held[c], v.shown, v.known) = {}

(* match_remote_queue says "none", and nothing nearby casts doubt on it.   *)
NeverAccepted(c, v) ==
    /\ Hits(c, v.held[c], v.shown, v.known) = {} /\ Hidden(c, v) = {}
    /\ ReleaseIsSafe(c, v)

(* match_remote_queue says "one", and no other claim could own the queue.  *)
Adoptable(c, v) ==
    LET h == Hits(c, v.held[c], v.shown, v.known)
    IN  IF Hidden(c, v) = {} /\ Cardinality(h) = 1 THEN h \ v.contested ELSE {}

(* Record queue q, from the live path (url unknown) or an adoption, for a  *)
(* post of n rows: the first record of a queue id stands.                  *)
RecordQueue(q, n, url) ==
    queue' = IF queue[q].status # "none" THEN queue
             ELSE [queue EXCEPT ![q] = [status |-> "pending", url |-> url, sent |-> n,
                                        billed |-> {}]]

(* _persist_submission's row updates.                                      *)
BookRows(S, q) ==
    /\ row' = [r \in Rows |-> IF r \in S THEN [row[r] EXCEPT !.status = "submitted", !.queue = q]
                              ELSE row[r]]
    /\ lead' = [r \in Rows |-> IF r \in S /\ lead[r] = "queued" THEN "submitted" ELSE lead[r]]

Resolved(t, c) == tick' = [tick EXCEPT ![t].view.held[c] = 0]

(* Mutant: the released row keeps its submitted_at.                        *)
ReleaseRowsKeepingTime(S) == row' = SetStatus(S, "queued")

(* _release_claim: back in the queue, with no claim on it.                 *)
ReleaseRows(S) ==
    row' = [r \in Rows |-> IF r \in S THEN [row[r] EXCEPT !.status = "queued", !.claim = 0]
                           ELSE row[r]]

(* One stale claim is resolved: its batch is adopted, it is released as    *)
(* never accepted, or it is left for a later tick or a human.              *)
Resolve(t, c) ==
    /\ At(t, "resolve") /\ tick[t].view.held[c] # 0
    /\ LET v == tick[t].view
           S == PinnedTo(c)
           leave == Resolved(t, c) /\ UNCHANGED <<row, lead, queue, msgs>>
       IN  CASE S = {} -> leave
             [] S # {} /\ Adoptable(c, v) # {} ->
                  \E q \in Adoptable(c, v) :
                    /\ RecordQueue(q, Cardinality(S), TRUE)
                    /\ BookRows(S, q)
                    /\ msgs' = msgs \cup {q}
                    /\ tick' = [tick EXCEPT ![t].view.held[c] = 0,
                                            ![t].view.known = @ \cup {q}]
             [] S # {} /\ Adoptable(c, v) = {} /\ NeverAccepted(c, v) ->
                    ReleaseRows(S) /\ Resolved(t, c) /\ UNCHANGED <<lead, queue, msgs>>
             [] OTHER -> leave
    /\ UNCHANGED <<wanted, cache, claimVars, batch, used>>

(* Every claim read has been resolved, or the reconciliation failed part   *)
(* way (the provider's list could not be fetched, say): the tick goes on.  *)
LeaveReconcile(t) ==
    /\ At(t, "resolve")
    /\ tick' = [tick EXCEPT ![t] = [pc |-> "sweep", claim |-> 0, view |-> NoView]]
    /\ UNCHANGED <<row, lead, wanted, cache, claimVars, batch, queue, msgs, used>>

-----------------------------------------------------------------------------
(* The sweeps, and the claim.                                              *)

(* _cancel_undeliverable_queued.                                           *)
Sweep(t) ==
    /\ At(t, "sweep") /\ GoTo(t, "settle")
    /\ row' = SetStatus(Queued \ wanted, "cancelled")
    /\ lead' = SetLead(Queued \ wanted, "not_attempted")
    /\ UNCHANGED <<wanted, cache, claimVars, batch, queue, msgs, used>>

(* _settle_queued_from_known_answers: an answer in the cache is copied, an *)
(* address already charged without an answer is not asked again.           *)
Settle(t) ==
    /\ At(t, "settle") /\ GoTo(t, "claim")
    /\ LET asked == Queued \cap wanted
           known == {r \in asked : Key[r] \in cache}
           failed == {r \in asked \ known : Key[r] \in ChargedUnanswered}
       IN  /\ row' = [r \in Rows |-> IF r \in known THEN [row[r] EXCEPT !.status = "reused"]
                                     ELSE IF r \in failed THEN [row[r] EXCEPT !.status = "cancelled"]
                                     ELSE row[r]]
           /\ lead' = [r \in Rows |-> IF r \in known THEN "answered"
                                      ELSE IF r \in failed THEN "errored" ELSE lead[r]]
    /\ UNCHANGED <<wanted, cache, claimVars, batch, queue, msgs, used>>

(* Either sweep fails (it is best effort) or another tick holds the lock.  *)
SkipSweep(t) ==
    /\ \/ At(t, "sweep") /\ GoTo(t, "settle")
       \/ At(t, "settle") /\ GoTo(t, "claim")
    /\ UNCHANGED <<row, lead, wanted, cache, claimVars, batch, queue, msgs, used>>

(* Mutant: the in-flight hold looks only at what is being submitted.       *)
BuyableNowIgnoringSubmitted(S) ==
    /\ \A r \in S : Key[r] \notin cache /\ \A q \in In({"submitting"}) : Key[q] # Key[r]
    /\ \A r, q \in S : r # q => Key[r] # Key[q]

(* _hold_answers_in_flight: no row whose answer is on its way or known,   *)
(* and no two rows of one answer.                                          *)
BuyableNow(S) ==
    /\ \A r \in S : Key[r] \notin cache /\ \A q \in InFlight : Key[q] # Key[r]
    /\ \A r, q \in S : r # q => Key[r] # Key[q]

(* Of the queued rows a pass takes up, E cannot be submitted (the provider *)
(* would drop them) and W must not be bought; S is claimed as c.           *)
TakeUp(S, c, E, W) ==
    /\ row' = [r \in Rows |->
                 IF r \in S THEN [row[r] EXCEPT !.status = "submitting", !.claim = c]
                 ELSE IF r \in E THEN [row[r] EXCEPT !.status = "errored"]
                 ELSE IF r \in W THEN [row[r] EXCEPT !.status = "cancelled"]
                 ELSE row[r]]
    /\ lead' = [r \in Rows |-> IF r \in E THEN "errored"
                               ELSE IF r \in W THEN "not_attempted" ELSE lead[r]]

(* Rows beside S a pass may fail or withdraw.  Which rows lack a street, a *)
(* city or a state is left open.                                           *)
Unfit(S) == (SUBSET ((Queued \cap wanted) \ S)) \X (SUBSET (Queued \ wanted))

(* One pass of the dispatcher, under the claim lock.  `near` and `seen`    *)
(* are where the new claim falls: the earlier claims whose window covers   *)
(* its batch, and those whose batch its own window covers.                 *)
Claim(t) ==
    /\ At(t, "claim") /\ made < MaxClaims
    /\ LET c == made + 1
       IN  /\ \E S \in (SUBSET (Queued \cap wanted)) \ {{}} : \E unfit \in Unfit(S) :
                /\ BuyableNow(S) /\ WithinCaps(S)
                /\ TakeUp(S, c, unfit[1], unfit[2])
           /\ \E near \in SUBSET fresh : \E seen \in SUBSET near :
                window' = [d \in Claims |-> IF d = c THEN seen \cup {c}
                                            ELSE IF d \in near THEN window[d] \cup {c}
                                            ELSE window[d]]
           /\ quiet' = [d \in Claims |-> IF d = c THEN fresh \cup {c}
                                         ELSE IF d \in fresh THEN quiet[d] \cup {c}
                                         ELSE quiet[d]]
           /\ made' = c /\ fresh' = fresh \cup {c}
           /\ tick' = [tick EXCEPT ![t].pc = "post", ![t].claim = c]
    /\ UNCHANGED <<wanted, cache, batch, queue, msgs, used>>

(* A pass finds nothing to claim, but commits its failures and withdrawals. *)
ClaimNothing(t) ==
    /\ At(t, "claim") /\ EndTick(t)
    /\ \E unfit \in Unfit({}) : TakeUp({}, 0, unfit[1], unfit[2])
    /\ UNCHANGED <<wanted, cache, claimVars, batch, queue, msgs, used>>

-----------------------------------------------------------------------------
(* The post.                                                               *)

Posting(t) == tick[t].pc \in {"post", "resubmit"}
Mine(t) == HeldBy(tick[t].claim)

(* The provider accepts the rows of tick t's claim and charges for those   *)
(* it takes: it may drop some.                                             *)
Accepts(t) ==
    \E U \in SUBSET Mine(t) :
        batch' = [batch EXCEPT ![tick[t].claim] =
                    [state |-> "open", sent |-> Mine(t), uploaded |-> U]]

PostAccepted(t) ==
    /\ Posting(t) /\ Accepts(t) /\ GoTo(t, "persist")
    /\ UNCHANGED <<row, lead, wanted, cache, claimVars, queue, msgs, used>>

(* The post times out, or the worker dies around it: the provider may have *)
(* accepted the batch.  The claim stays.                                   *)
PostUnknown(t) ==
    /\ Posting(t) /\ EndTick(t)
    /\ Accepts(t) \/ UNCHANGED batch
    /\ UNCHANGED <<row, lead, wanted, cache, claimVars, queue, msgs, used>>

(* Connection refused, a 429, a 5xx, or no credits at all: released.       *)
PostNotDelivered(t) ==
    /\ Posting(t) /\ EndTick(t)
    /\ ReleaseRows(Mine(t))
    /\ UNCHANGED <<lead, wanted, cache, claimVars, batch, queue, msgs, used>>

(* A definite rejection: these leads fail, and the tick goes on to its     *)
(* next pass, unless it was the second post.                               *)
PostRejected(t) ==
    /\ Posting(t)
    /\ IF At(t, "post") THEN tick' = [tick EXCEPT ![t].pc = "claim", ![t].claim = 0]
                        ELSE EndTick(t)
    /\ row' = [r \in Rows |-> IF r \in Mine(t)
                              THEN [row[r] EXCEPT !.status = "errored", !.claim = 0] ELSE row[r]]
    /\ lead' = SetLead(Mine(t), "errored")
    /\ UNCHANGED <<wanted, cache, claimVars, batch, queue, msgs, used>>

(* Too few credits (402): the rows beyond what the balance buys are        *)
(* released and the rest is posted again.                                  *)
PostShort(t, tail) ==
    /\ At(t, "post") /\ tail \notin {{}, Mine(t)}
    /\ ReleaseRows(tail)
    /\ GoTo(t, "resubmit")
    /\ UNCHANGED <<lead, wanted, cache, claimVars, batch, queue, msgs, used>>

(* The bookkeeping of an accepted batch.  When it raises, a commit that    *)
(* landed included, it is run once more on a fresh session.                *)
Persist(t) ==
    /\ tick[t].pc \in {"persist", "retry"}
    /\ LET c == tick[t].claim
       IN  RecordQueue(c, Cardinality(batch[c].sent), FALSE) /\ BookRows(HeldBy(c), c)
    /\ \/ tick' = [tick EXCEPT ![t].pc = "claim", ![t].claim = 0]
       \/ At(t, "persist") /\ GoTo(t, "retry")
    /\ UNCHANGED <<wanted, cache, claimVars, batch, msgs, used>>

(* The worker dies, or both bookkeeping attempts fail: the tick is over    *)
(* and everything it knew is lost.                                         *)
Die(t) ==
    /\ ~At(t, "idle") /\ ~Posting(t) /\ EndTick(t)
    /\ UNCHANGED <<row, lead, wanted, cache, claimVars, batch, queue, msgs, used>>

-----------------------------------------------------------------------------
(* Time, the provider and the ingest.                                      *)

(* Claims grow stale in the order they were made.  A post and its          *)
(* bookkeeping (30 s, twice at most) are over long before that.            *)
Age(c) ==
    /\ c \in fresh /\ \A d \in fresh : c <= d
    /\ \A t \in Ticks : tick[t].claim # c
    /\ fresh' = fresh \ {c}
    /\ UNCHANGED <<row, lead, wanted, cache, made, window, quiet, batch, queue, msgs, used, tick>>

(* The provider finishes a batch; its webhook queues an ingest.            *)
ProviderCompletes(c) ==
    /\ batch[c].state = "open"
    /\ batch' = [batch EXCEPT ![c].state = "complete"]
    /\ msgs' = msgs \cup {c}
    /\ UNCHANGED <<row, lead, wanted, cache, claimVars, queue, used, tick>>

(* A message is lost, or its ingest gives up: an unknown queue id, or the  *)
(* provider cannot be asked for as long as the re-checks last.             *)
LoseMessage(c) ==
    /\ c \in msgs \cap Lossy /\ msgs' = msgs \ {c}
    /\ UNCHANGED <<row, lead, wanted, cache, claimVars, batch, queue, used, tick>>

(* ingest_tracerfy_batch's guard under the queue row's lock.               *)
Ingestible(c) == queue[c].status = "pending"

(* Mutant: unmatched rows are billed whatever the provider took.           *)
BilledOfAlways(c, S, answered) == S

(* report_usage_from_webhook: unmatched rows are billed only if the        *)
(* provider took every row it was sent.                                    *)
BilledOf(c, S, answered) ==
    IF queue[c].sent > 0 /\ Cardinality(batch[c].uploaded) >= queue[c].sent THEN S ELSE answered

(* Mutant: rows the answer file never names stay submitted.                *)
UnmatchedLeft(st) == "submitted"

(* The status of a booked row the answer file does not name.               *)
Unmatched(st) == "unmatched"

(* ingest_tracerfy_batch, one transaction: the answer file names some of   *)
(* the rows the provider took; the others are charged without an answer.   *)
(* A message may be delivered again, so it may stay.                       *)
Ingest(c) ==
    /\ c \in msgs /\ Ingestible(c) /\ batch[c].state = "complete"
    /\ msgs' \in {msgs, msgs \ {c}}
    /\ LET S == {r \in Rows : row[r].queue = c}
       IN  \E answered \in SUBSET (S \cap batch[c].uploaded) :
             /\ row' = [r \in Rows |->
                          IF r \in answered THEN [row[r] EXCEPT !.status = "completed"]
                          ELSE IF r \in S THEN [row[r] EXCEPT !.status = Unmatched(@)]
                          ELSE row[r]]
             /\ lead' = [r \in Rows |->
                           IF r \in answered THEN "answered"
                           ELSE IF r \in S /\ lead[r] \in {"queued", "submitted"} THEN "errored"
                           ELSE lead[r]]
             /\ cache' = cache \cup {Key[r] : r \in answered}
             /\ queue' = [queue EXCEPT ![c].status = "completed",
                                       ![c].billed = BilledOf(c, S, answered)]
             /\ used' = used + Cardinality(BilledOf(c, S, answered))
    /\ UNCHANGED <<wanted, claimVars, batch, tick>>

(* mark_queue_permanently_failed: the ingest ran out of retries.           *)
IngestFails(c) ==
    /\ c \in msgs \cap Lossy /\ queue[c].status = "pending"
    /\ queue' = [queue EXCEPT ![c].status = "errored"]
    /\ msgs' = msgs \ {c}
    /\ UNCHANGED <<row, lead, wanted, cache, claimVars, batch, used, tick>>

-----------------------------------------------------------------------------
TickStep(t) ==
    \/ StartTick(t) \/ LeaveReconcile(t) \/ \E c \in Claims : Resolve(t, c)
    \/ Sweep(t) \/ Settle(t) \/ SkipSweep(t)
    \/ Claim(t) \/ ClaimNothing(t)
    \/ PostAccepted(t) \/ PostUnknown(t) \/ PostNotDelivered(t) \/ PostRejected(t)
    \/ \E tail \in SUBSET Mine(t) : PostShort(t, tail)
    \/ Persist(t)

Next ==
    \/ \E r \in Rows : Enqueue(r) \/ StopWanting(r)
    \/ \E t \in Ticks : TickStep(t) \/ Die(t)
    \/ \E c \in Claims : Age(c) \/ ProviderCompletes(c) \/ LoseMessage(c) \/ Ingest(c)
                         \/ IngestFails(c)

Spec == Init /\ [][Next]_vars

(* The beat starts ticks and a tick that lives goes on; a provider, a      *)
(* broker and a provider's list that fail do not fail for ever.            *)
Fairness ==
    /\ \A t \in Ticks :
         /\ WF_vars(TickStep(t))
         /\ SF_vars(StartTick(t))
         /\ \A c \in Claims : SF_vars(Resolve(t, c))
    /\ \A c \in Claims : WF_vars(Age(c)) /\ WF_vars(ProviderCompletes(c)) /\ SF_vars(Ingest(c))

FairSpec == Spec /\ Fairness

-----------------------------------------------------------------------------
(* Properties.                                                             *)

(* The types, with the shape of a row: a queue id only on a row that was   *)
(* booked, and a claim on every row that is or was at the provider.        *)
TypeOK ==
    /\ row \in [Rows -> PendingRow]
    /\ lead \in [Rows -> {"not_attempted", "queued", "submitted", "answered", "errored"}]
    /\ wanted \subseteq Rows /\ cache \subseteq {Key[r] : r \in Rows}
    /\ made \in 0..MaxClaims /\ fresh \subseteq 1..made
    /\ window \in [Claims -> SUBSET Claims] /\ quiet \in [Claims -> SUBSET Claims]
    /\ batch \in [Claims -> Batch] /\ queue \in [Claims -> QueueRow]
    /\ msgs \subseteq Claims /\ used \in Nat
    /\ tick \in [Ticks -> [pc : Places, claim : 0..made, view : View]]
    /\ \A r \in Rows :
         /\ row[r].status \in {"submitting", "submitted", "completed", "unmatched"}
              <=> row[r].claim # 0
         /\ row[r].status \in {"submitted", "completed", "unmatched"} <=> row[r].queue # 0

Charged(c) == batch[c].uploaded

(* An answer is charged a second time only if an earlier lookup of it was  *)
(* charged and could not be attributed: never while a lookup of it is on   *)
(* its way, and never once it was answered.                                *)
RepurchasedOnlyUnanswered ==
    \A r, q \in Rows : \A c, d \in Claims :
        c < d /\ r \in Charged(c) /\ q \in Charged(d) /\ Key[r] = Key[q]
          => row[r].status = "unmatched"

(* The provider never charges more in a day than a cap allows, although claims  *)
(* are released, reconciled and answered while the day lasts.              *)
ChargedWithinCap ==
    \A cap \in {AccountCap, GlobalCap} \ {0} :
        Cardinality({p \in Claims \X Rows : p[2] \in Charged(p[1])}) <= cap

(* A customer is billed for a lookup only if the provider charged for it,  *)
(* and the counter is exactly what the batches billed, once each.          *)
BilledWasBought ==
    /\ \A c \in Claims : queue[c].billed \subseteq Charged(c)
    /\ used = Cardinality({p \in Claims \X Rows : p[2] \in queue[p[1]].billed})

(* A row is only ever booked to the batch that carried it: no lead gets    *)
(* the answer of another claim's batch.                                    *)
AnswersFromOwnBatch ==
    \A r \in Rows : row[r].queue # 0 => r \in batch[row[r].queue].sent

(* A lead says its lookup is under way exactly while its row is, and shows *)
(* an answer only if the account has it.                                   *)
LeadShowsRow ==
    \A r \in Rows :
        /\ lead[r] = "queued" <=> row[r].status \in {"queued", "submitting"}
        /\ lead[r] = "submitted" <=> row[r].status = "submitted"
        /\ lead[r] = "answered" => Key[r] \in cache

(* Each row keeps the contract of a paid lookup (LookupContract): once     *)
(* charged it is never released, failed or withdrawn, so never sent again. *)
Phase(r) ==
    CASE row[r].status = "none" -> IF lead[r] = "not_attempted" THEN "none" ELSE "done"
      [] row[r].status = "queued" -> "waiting"
      [] row[r].status = "submitting" -> "out"
      [] row[r].status = "submitted" -> "booked"
      [] OTHER -> "done"
Contract == INSTANCE LookupContract WITH
    phase <- [r \in Rows |-> Phase(r)], charged <- UNION {Charged(c) : c \in Claims}
KeepsContract == Contract!Spec

(* Something near claim c is unaccounted for, or the provider took none of *)
(* its rows, or the cap stops every tick.                                  *)
Doubtful(c) ==
    \/ CapReached
    \/ batch[c].state # "none" /\ Charged(c) = {}
    \/ \E d \in quiet[c] \ {c} : HeldBy(d) # {} \/ d \in Listed \ Recorded

(* A claim whose post had an unknown outcome is booked or released, unless *)
(* something near it stays in doubt for ever.                              *)
ClaimsResolve == \A c \in Claims : <>[](HeldBy(c) # {}) => <>[]Doubtful(c)

(* A batch whose result link was recorded is ingested or given up, though  *)
(* its message is lost, unless the cap stops every tick.                   *)
BatchesSettle ==
    \A c \in Claims : (queue[c].status = "pending" /\ queue[c].url)
                        ~> (queue[c].status # "pending" \/ CapReached)
=============================================================================
