----------------------------- MODULE WebhookQueue -----------------------------
(***************************************************************************)
(* The ingestion queue: the `webhook_events` table and the operations of    *)
(* WebhookEventRepository on it, run by workers that claim batches, may be  *)
(* slow and may die, by reapers, and by an operator who replays dead        *)
(* letters.  A row is keyed by its event, (store_id, platform_event_id):    *)
(* that is the unique index.  `claim`, `markFailed` and `reapStale` read    *)
(* first and write later, so each is two actions here.                      *)
(***************************************************************************)
EXTENDS Integers, FiniteSets

CONSTANTS
    Events,        \* (store_id, platform_event_id) pairs that may be delivered
    Workers,       \* processes that claim and work events
    Reapers,       \* processes that run reapStale
    Null,          \* SQL NULL
    BaseDelay,     \* RetryPolicy.baseDelayMs, in clock ticks
    MaxDelay,      \* RetryPolicy.maxDelayMs
    MaxAttempts,   \* RetryPolicy.maxAttempts
    StaleAfter,    \* reapStale's staleAfterMs
    Limit,         \* claim's batch size
    JobTime,       \* longest time a live worker spends on one event, its claim included
    BatchTime,     \* longest time a live worker keeps any event of a batch
    MaxTime        \* bound: the clock stops here

ASSUME ConstAssumption ==
    /\ Null \notin Nat
    /\ Null \notin Events
    /\ Null \notin Workers
    /\ BaseDelay \in Nat
    /\ MaxDelay \in Nat
    /\ MaxAttempts \in Nat \ {0}
    /\ StaleAfter \in Nat
    /\ Limit \in Nat
    /\ JobTime \in Nat
    /\ BatchTime \in Nat
    /\ MaxTime \in Nat

VARIABLES
    now,        \* the clock the callers pass in as `now`
    row,        \* the table
    claiming,   \* claiming[w]: rows locked by w's open claim transaction
    held,       \* held[w]: events w has claimed and not reported on yet
    claimedAt,  \* claimedAt[w]: `now` of the claim w is working off (0 when idle)
    since,      \* since[w]: when w began the event it is working on (0 when idle)
    failing,    \* failing[w]: what markFailed has read and not yet written
    reaping     \* reaping[r]: what reapStale has read and not yet written

vars == <<now, row, claiming, held, claimedAt, since, failing, reaping>>

-----------------------------------------------------------------------------
Statuses == {"absent", "pending", "processing", "processed", "skipped", "failed"}

\* processedAt is null or set: nothing compares its value.
Row == [status: Statuses, attempts: Nat, receivedAt: Nat, nextAttemptAt: Nat,
        lockedAt: Nat \cup {Null}, processedAt: {Null, "set"}]

NoRow == [status |-> "absent", attempts |-> 0, receivedAt |-> 0,
          nextAttemptAt |-> 0, lockedAt |-> Null, processedAt |-> Null]

Idle == [id |-> Null, attempts |-> 0, at |-> 0]
NoStale == [ids |-> {}, attempts |-> [e \in Events |-> 0], at |-> 0]

TypeOK ==
    /\ now \in Nat
    /\ row \in [Events -> Row]
    /\ claiming \in [Workers -> SUBSET Events]
    /\ held \in [Workers -> SUBSET Events]
    /\ claimedAt \in [Workers -> Nat]
    /\ since \in [Workers -> Nat]
    /\ failing \in [Workers -> [id: Events \cup {Null}, attempts: Nat, at: Nat]]
    /\ reaping \in [Reapers -> [ids: SUBSET Events, attempts: [Events -> Nat], at: Nat]]

Init ==
    /\ now = 0
    /\ row = [e \in Events |-> NoRow]
    /\ claiming = [w \in Workers |-> {}]
    /\ held = [w \in Workers |-> {}]
    /\ claimedAt = [w \in Workers |-> 0]
    /\ since = [w \in Workers |-> 0]
    /\ failing = [w \in Workers |-> Idle]
    /\ reaping = [r \in Reapers |-> NoStale]

-----------------------------------------------------------------------------
(* Retry arithmetic, and the row each UPDATE writes *)

AtMost(a, b) == IF a < b THEN a ELSE b
AtLeast(a, b) == IF a > b THEN a ELSE b

\* min(base * 2 ^ min(max(0, attempts - 1), 40), maxDelay)
backoffMs(attempts) ==
    LET delay == BaseDelay * 2 ^ AtMost(AtLeast(0, attempts - 1), 40)
    IN  IF delay \in 0 .. MaxDelay THEN delay ELSE MaxDelay

exhausted(attempts) == attempts >= MaxAttempts

\* Faulty variants: the retry is scheduled into the past; the lock is kept.
UnfinishedEarly(r, attempts, at) ==
    [r EXCEPT !.status = IF exhausted(attempts) THEN "failed" ELSE "pending",
              !.lockedAt = Null,
              !.nextAttemptAt = at - backoffMs(attempts)]

UnfinishedLocked(r, attempts, at) ==
    [r EXCEPT !.status = IF exhausted(attempts) THEN "failed" ELSE "pending",
              !.nextAttemptAt = at + backoffMs(attempts)]

\* The row an attempt that did not finish leaves behind, from the attempt
\* count the caller READ and the `now` it was given.
Unfinished(r, attempts, at) ==
    [r EXCEPT !.status = IF exhausted(attempts) THEN "failed" ELSE "pending",
              !.lockedAt = Null,
              !.nextAttemptAt = IF exhausted(attempts) THEN at
                                ELSE at + backoffMs(attempts)]

Claimed(r, at) ==
    [r EXCEPT !.status = "processing", !.attempts = @ + 1, !.lockedAt = at]

Finished(r, outcome) ==
    [r EXCEPT !.status = outcome, !.lockedAt = Null, !.processedAt = "set"]

Requeued(r, at) ==
    [r EXCEPT !.status = "pending", !.attempts = 0, !.lockedAt = Null,
              !.nextAttemptAt = at, !.processedAt = Null]

\* An UPDATE by id waits while another transaction holds the row's lock.
Unlocked(e) == \A w \in Workers : e \notin claiming[w]

-----------------------------------------------------------------------------
(* enqueue: INSERT ... ON CONFLICT DO NOTHING.  A redelivery changes nothing. *)

\* Faulty variant: the conflict overwrites the row instead of being ignored.
enqueueUpsert(e) ==
    /\ row' = [row EXCEPT ![e] = [NoRow EXCEPT !.status = "pending", !.receivedAt = now,
                                              !.nextAttemptAt = now]]
    /\ UNCHANGED <<now, claiming, held, claimedAt, since, failing, reaping>>

enqueue(e) ==
    /\ row' = [row EXCEPT ![e] =
                 IF @.status = "absent"
                 THEN [NoRow EXCEPT !.status = "pending", !.receivedAt = now,
                                    !.nextAttemptAt = now]
                 ELSE @]
    /\ UNCHANGED <<now, claiming, held, claimedAt, since, failing, reaping>>

-----------------------------------------------------------------------------
(* claim: SELECT ... FOR UPDATE SKIP LOCKED, then UPDATE, one transaction *)

Due == {e \in Events : row[e].status = "pending" /\ row[e].nextAttemptAt <= now}

\* ORDER BY next_attempt_at, received_at
Before(d, e) ==
    \/ row[d].nextAttemptAt < row[e].nextAttemptAt
    \/ /\ row[d].nextAttemptAt = row[e].nextAttemptAt
       /\ row[d].receivedAt < row[e].receivedAt

\* The first Limit claimable rows in that order (ties are the planner's choice).
Batches(claimable) ==
    {S \in SUBSET claimable :
        /\ S # {}
        /\ Cardinality(S) = AtMost(Limit, Cardinality(claimable))
        /\ \A d \in claimable \ S, e \in S : ~Before(d, e)}

ClaimSelect(w) ==
    /\ held[w] = {} /\ claiming[w] = {}
    /\ \E S \in Batches({e \in Due : Unlocked(e)}) :
          claiming' = [claiming EXCEPT ![w] = S]
    /\ claimedAt' = [claimedAt EXCEPT ![w] = now]
    /\ since' = [since EXCEPT ![w] = now]
    /\ UNCHANGED <<now, row, held, failing, reaping>>

ClaimUpdate(w) ==
    /\ claiming[w] # {}
    /\ row' = [e \in Events |->
                 IF e \in claiming[w] THEN Claimed(row[e], claimedAt[w]) ELSE row[e]]
    /\ held' = [held EXCEPT ![w] = claiming[w]]
    /\ claiming' = [claiming EXCEPT ![w] = {}]
    /\ UNCHANGED <<now, claimedAt, since, failing, reaping>>

-----------------------------------------------------------------------------
(* A worker reports on an event it claimed.  Every UPDATE is by id alone.  *)

\* The worker moves on to the rest of its batch, or has none left.
Reported(w, e) ==
    /\ held' = [held EXCEPT ![w] = @ \ {e}]
    /\ since' = [since EXCEPT ![w] = IF held[w] = {e} THEN 0 ELSE now]
    /\ claimedAt' = [claimedAt EXCEPT ![w] = IF held[w] = {e} THEN 0 ELSE @]
    /\ UNCHANGED <<now, claiming, reaping>>

Finish(w, e, outcome) ==
    /\ e \in held[w] /\ failing[w] = Idle /\ Unlocked(e)
    /\ row' = [row EXCEPT ![e] = Finished(@, outcome)]
    /\ Reported(w, e)
    /\ UNCHANGED failing

markProcessed(w, e) == Finish(w, e, "processed")
markSkipped(w, e) == Finish(w, e, "skipped")

\* markFailed's SELECT attempts
MarkFailedRead(w, e) ==
    /\ e \in held[w] /\ failing[w] = Idle
    /\ failing' = [failing EXCEPT ![w] =
                     [id |-> e, attempts |-> row[e].attempts, at |-> now]]
    /\ UNCHANGED <<now, row, claiming, held, claimedAt, since, reaping>>

\* markFailed's UPDATE
MarkFailedWrite(w, e) ==
    /\ failing[w].id = e /\ Unlocked(e)
    /\ row' = [row EXCEPT ![e] = Unfinished(@, failing[w].attempts, failing[w].at)]
    /\ failing' = [failing EXCEPT ![w] = Idle]
    /\ Reported(w, e)

\* The process dies: an open claim rolls back, claimed rows stay "processing".
Crash(w) ==
    /\ held[w] # {} \/ claiming[w] # {}
    /\ held' = [held EXCEPT ![w] = {}]
    /\ claiming' = [claiming EXCEPT ![w] = {}]
    /\ failing' = [failing EXCEPT ![w] = Idle]
    /\ since' = [since EXCEPT ![w] = 0]
    /\ claimedAt' = [claimedAt EXCEPT ![w] = 0]
    /\ UNCHANGED <<now, row, reaping>>

-----------------------------------------------------------------------------
(* reapStale: SELECT outside the transaction, then UPDATE by id *)

\* Faulty variant: the cutoff itself counts as stale.
StaleInclusive == {e \in Events : row[e].status = "processing"
                                  /\ row[e].lockedAt <= now - StaleAfter}

Stale == {e \in Events : row[e].status = "processing"
                         /\ row[e].lockedAt < now - StaleAfter}

ReapSelect(r) ==
    /\ reaping[r] = NoStale /\ Stale # {}
    /\ reaping' = [reaping EXCEPT ![r] =
                     [ids |-> Stale,
                      attempts |-> [e \in Events |->
                                      IF e \in Stale THEN row[e].attempts ELSE 0],
                      at |-> now]]
    /\ UNCHANGED <<now, row, claiming, held, claimedAt, since, failing>>

\* Faulty variant: rows that have spent their attempts are left as they are.
ReapUpdateRetriesOnly(r) ==
    /\ reaping[r].ids # {}
    /\ \A e \in reaping[r].ids : Unlocked(e)
    /\ row' = [e \in Events |->
                 IF e \in reaping[r].ids /\ ~exhausted(reaping[r].attempts[e])
                 THEN Unfinished(row[e], reaping[r].attempts[e], reaping[r].at)
                 ELSE row[e]]
    /\ reaping' = [reaping EXCEPT ![r] = NoStale]
    /\ UNCHANGED <<now, claiming, held, claimedAt, since, failing>>

ReapUpdate(r) ==
    /\ reaping[r].ids # {}
    /\ \A e \in reaping[r].ids : Unlocked(e)
    /\ row' = [e \in Events |->
                 IF e \in reaping[r].ids
                 THEN Unfinished(row[e], reaping[r].attempts[e], reaping[r].at)
                 ELSE row[e]]
    /\ reaping' = [reaping EXCEPT ![r] = NoStale]
    /\ UNCHANGED <<now, claiming, held, claimedAt, since, failing>>

ReaperCrash(r) ==
    /\ reaping[r].ids # {}
    /\ reaping' = [reaping EXCEPT ![r] = NoStale]
    /\ UNCHANGED <<now, row, claiming, held, claimedAt, since, failing>>

-----------------------------------------------------------------------------
(* requeue: an operator replays a dead letter *)

\* Faulty variant: skipped rows are replayed too.
requeueSkipped(e) ==
    /\ row[e].status \in {"failed", "skipped"}
    /\ row' = [row EXCEPT ![e] = Requeued(@, now)]
    /\ UNCHANGED <<now, claiming, held, claimedAt, since, failing, reaping>>

requeue(e) ==
    /\ row[e].status = "failed"
    /\ row' = [row EXCEPT ![e] = Requeued(@, now)]
    /\ UNCHANGED <<now, claiming, held, claimedAt, since, failing, reaping>>

\* Time passes, but no live worker outstays JobTime or BatchTime.
Tick ==
    /\ now < MaxTime
    /\ \A w \in Workers : held[w] \cup claiming[w] # {} =>
          now - since[w] < JobTime /\ now - claimedAt[w] < BatchTime
    /\ now' = now + 1
    /\ UNCHANGED <<row, claiming, held, claimedAt, since, failing, reaping>>

Work(w) ==
    \E e \in Events : markProcessed(w, e) \/ markSkipped(w, e)
                      \/ MarkFailedRead(w, e) \/ MarkFailedWrite(w, e)

Next ==
    \/ \E e \in Events : enqueue(e) \/ requeue(e)
    \/ \E w \in Workers : ClaimSelect(w) \/ ClaimUpdate(w) \/ Work(w) \/ Crash(w)
    \/ \E r \in Reapers : ReapSelect(r) \/ ReapUpdate(r) \/ ReaperCrash(r)
    \/ Tick

Spec == Init /\ [][Next]_vars

-----------------------------------------------------------------------------
(* Invariants *)

\* CHECK webhook_events_lock_iff_processing: no operation, in any order and
\* from any stale read, writes a row the database would refuse.
LockIffProcessing ==
    \A e \in Events : (row[e].status = "processing") <=> (row[e].lockedAt # Null)

\* An event is in the hands of at most one live worker, and its row says so:
\* neither a second claim nor a reaper has taken it away behind its back.
LeaseExclusive ==
    \A e \in Events, w \in Workers : e \in held[w] =>
        /\ row[e].status = "processing"
        /\ row[e].lockedAt = claimedAt[w]
        /\ \A v \in Workers : e \in held[v] => v = w

\* FOR UPDATE SKIP LOCKED: open claims never lock the same row, and a locked
\* row is still pending, so still nobody's, when its claim updates it.
ClaimsExclusive ==
    \A w \in Workers : \A e \in claiming[w] :
        /\ row[e].status = "pending"
        /\ held[w] = {}
        /\ \A v \in Workers : e \in claiming[v] => v = w

\* RetryPolicy.maxAttempts: a row that has spent its attempts is never back in
\* the claimable set, whoever put it there and from whichever reading.
AttemptsWithinPolicy ==
    \A e \in Events :
        /\ row[e].attempts <= MaxAttempts
        /\ row[e].status = "pending" => row[e].attempts < MaxAttempts
        /\ row[e].status = "failed" => row[e].attempts = MaxAttempts

\* What a markFailed or a reapStale in flight has read is still what the row
\* says: the select and the update of each may be apart, and nothing that
\* matters to the decision moves in between.
ReadsStayFresh ==
    /\ \A w \in Workers : failing[w].id # Null =>
          /\ failing[w].id \in held[w]
          /\ failing[w].attempts = row[failing[w].id].attempts
    /\ \A r \in Reapers : \A e \in reaping[r].ids :
          /\ row[e].status = "processing"
          /\ reaping[r].attempts[e] = row[e].attempts
          /\ \A w \in Workers : e \notin held[w]

\* No live worker keeps a batch past BatchTime (Tick waits for it).
HoldsArePrompt ==
    \A w \in Workers : held[w] \cup claiming[w] # {} =>
        claimedAt[w] <= now /\ now - claimedAt[w] <= BatchTime

\* The deployment the guarantees below rest on: one reaper, and a staleness
\* threshold no live worker outlasts with any event of its batch.
ThresholdHonoured ==
    /\ BatchTime <= StaleAfter
    /\ \A r, s \in Reapers : r = s

\* An event is worked by at most one live worker, whose row stays its own until
\* it reports; open claims never overlap; no event is tried more often than the
\* policy says; what markFailed and reapStale have read is still so when they
\* write; and no live worker holds a row past the threshold.  Inductive where
\* ThresholdHonoured.
QueueInv ==
    /\ TypeOK
    /\ LockIffProcessing
    /\ LeaseExclusive
    /\ ClaimsExclusive
    /\ AttemptsWithinPolicy
    /\ ReadsStayFresh
    /\ HoldsArePrompt

-----------------------------------------------------------------------------
(* Action properties *)

\* markProcessed and markSkipped are terminal: no late report, retry or reaper
\* reopens the row.  A dead letter is left only by an operator's requeue,
\* which starts it afresh.
TerminalStays ==
    [][\A e \in Events :
         /\ row[e].status \in {"processed", "skipped"} => row'[e] = row[e]
         /\ row[e].status = "failed" /\ row'[e] # row[e] =>
              row'[e].status = "pending" /\ row'[e].attempts = 0]_vars

-----------------------------------------------------------------------------
(* Refinement: the table and its processes implement LeaseQueue *)

Owner(h, e) == IF \E w \in Workers : e \in h[w]
               THEN CHOOSE w \in Workers : e \in h[w] ELSE Null

Lease == INSTANCE LeaseQueue WITH
            state <- [e \in Events |-> row[e].status],
            owner <- [e \in Events |-> Owner(held, e)]

\* Every step of the queue is a step of LeaseQueue or invisible to it.
LeaseSpec == Lease!Spec

-----------------------------------------------------------------------------
(* Liveness: everyone polls, nobody replays, time passes when it is waited for *)

\* Some row waits for the clock: a retry not yet due or a lock ageing.
TimeIsWaitedFor ==
    \E e \in Events : \/ row[e].status = "processing"
                      \/ row[e].status = "pending" /\ row[e].nextAttemptAt > now

\* Pollers are faster than the clock: nothing due is left lying for a tick.
PollsAreServed ==
    /\ \A w \in Workers : claiming[w] = {}
    /\ Due = {} \/ \A w \in Workers : held[w] # {}
    /\ \A r \in Reapers : reaping[r].ids = {}
    /\ Reapers # {} => Stale = {}

LiveTick == TimeIsWaitedFor /\ PollsAreServed /\ Tick

LiveNext ==
    \/ \E e \in Events : enqueue(e)
    \/ \E w \in Workers : ClaimSelect(w) \/ ClaimUpdate(w) \/ Work(w) \/ Crash(w)
    \/ \E r \in Reapers : ReapSelect(r) \/ ReapUpdate(r)
    \/ LiveTick

LiveSpec ==
    /\ Init /\ [][LiveNext]_vars
    /\ \A w \in Workers : WF_vars(ClaimSelect(w)) /\ SF_vars(ClaimUpdate(w))
                            /\ WF_vars(Work(w))
    /\ \A r \in Reapers : WF_vars(ReapSelect(r)) /\ WF_vars(ReapUpdate(r))
    /\ WF_vars(LiveTick)

\* Every event delivered comes to rest as processed, skipped or a dead letter,
\* however often workers crash: no row is leaked and none is retried for ever.
EveryEventSettles ==
    \A e \in Events : row[e].status # "absent"
        ~> [](row[e].status \in {"processed", "skipped", "failed"})

=============================================================================
