------------------------------ MODULE OpsQueries ------------------------------
(***************************************************************************)
(* The operator portal's query layer: what it reads out of one platform's   *)
(* database, as operators on that database.  A database is a record of       *)
(*   stores     the stores' rows, by store                                   *)
(*   subs       the subscription rows, by store; a store may have none       *)
(*   events     webhook_events, a set of rows                                *)
(*   backfills  backfill_cursors, a set of rows                              *)
(*   orders     orders, a set of rows                                        *)
(*   payments   order_payments, a set of legs                                *)
(*   rollups    daily_store_rollup, a set of buckets                         *)
(* A Map the code builds is a function on the keys it has.                   *)
(***************************************************************************)
EXTENDS Access, Sequences, SequencesExt

CONSTANTS Day,                    \* DAY_MS in ticks of the model's clock
          STALL_THRESHOLD,        \* how long a processing row may be held
          COVERAGE_DAYS,          \* the trailing window of coverage, 30 days
          FAILED_JOBS_THRESHOLD   \* failures in a day that make a store unhealthy

ASSUME WindowsAssumption ==
    /\ {Day, COVERAGE_DAYS, FAILED_JOBS_THRESHOLD} \subseteq Nat \ {0}
    /\ STALL_THRESHOLD \in 1 .. Day

\* map.get(key) ?? default
Get(map, key, default) == IF key \in DOMAIN map THEN map[key] ELSE default

CountOf(rows, status) == Cardinality({r \in rows : r.status = status})

-----------------------------------------------------------------------------
(* Windows.  Half-open; business dates are days, ranges are named.           *)

RANGE_DAYS == [h24 |-> 1, d7 |-> 7, d30 |-> 30, d90 |-> 90]

toBusinessDate(instant) == instant \div Day

\* Today included.
trailingDays(days, now) ==
    LET end == toBusinessDate(now + Day) IN [from |-> end - days, to |-> end]

trailingHours(hours, now) == [from |-> now - (hours * Day) \div 24, to |-> now]

rangeToInstantWindow(range, now) == trailingHours(RANGE_DAYS[range] * 24, now)

-----------------------------------------------------------------------------
(* Ingestion.  Outcomes are counted over a window, the queue as it is now.   *)

ingestionHealth(db, window, now) ==
    LET seen    == {e \in db.events : Within(e.receivedAt, window)}
        waiting == {e.receivedAt : e \in {w \in db.events : w.status = "pending"}}
        held    == {e \in db.events : e.status = "processing"}
    IN  [processed |-> CountOf(seen, "processed"), failed |-> CountOf(seen, "failed"),
         skipped |-> CountOf(seen, "skipped"),
         pending |-> CountOf(db.events, "pending"), processing |-> Cardinality(held),
         stalled |-> Cardinality({e \in held : e.lockedAt < now - STALL_THRESHOLD}),
         oldestPendingAt |-> IF waiting = {} THEN Null ELSE Min(waiting)]

\* Skips are neither successes nor failures.
successRateBps(processed, failed) ==
    IF processed + failed = 0 THEN Null ELSE Rounded(processed * 10000, processed + failed)

lastWebhookByStore(db) ==
    [s \in {e.storeId : e \in db.events} |->
        Max({e.receivedAt : e \in {w \in db.events : w.storeId = s}})]

failedJobsByStore(db, window) ==
    LET failed == {e \in db.events : e.status = "failed" /\ Within(e.receivedAt, window)}
    IN  [s \in {e.storeId : e \in failed} |-> Cardinality({e \in failed : e.storeId = s})]

\* Newest first; of every store when storeId is Null.  Not windowed.
recentFailures(db, limit, storeId) ==
    LET failed == {e \in db.events : /\ e.status = "failed"
                                     /\ storeId # Null => e.storeId = storeId}
        newest == SetToSortSeq(failed, LAMBDA a, b : a.receivedAt > b.receivedAt)
    IN  SubSeq(newest, 1, Min({limit, Len(newest)}))

orderBackfillByStore(db) ==
    LET ofOrders == {b \in db.backfills : b.resource = "orders"}
    IN  [s \in {b.storeId : b \in ofOrders} |-> CHOOSE b \in ofOrders : b.storeId = s]

ordersBehind(legs) == Cardinality({l.orderId : l \in legs})

\* The unpriced rails, by the number of real orders that used them.
unknownPaymentMethods(db, limit) ==
    LET legs == {l \in db.payments : /\ l.instrument \in {"unknown", "other"}
                                     /\ \E o \in db.orders : o.id = l.orderId /\ ~o.isTest}
        Group(l) == [storeId |-> (CHOOSE o \in db.orders : o.id = l.orderId).storeId,
                     instrument |-> l.instrument, rawMethodLabel |-> l.rawMethodLabel]
        Row(g) == g @@ [orders |-> ordersBehind({l \in legs : Group(l) = g})]
        ranked == SetToSortSeq({Row(Group(l)) : l \in legs}, LAMBDA a, b : a.orders > b.orders)
    IN  SubSeq(ranked, 1, Min({limit, Len(ranked)}))

-----------------------------------------------------------------------------
(* Coverage: the share of revenue whose cost is known, from the rollups.     *)

toCoverageBps(covered, revenue) ==
    IF revenue <= 0 THEN Null ELSE Rounded(covered * 10000, revenue)

toCoverage(buckets) ==
    LET revenue == MapThenSumSet(LAMBDA b : b.revenue, buckets)
        covered == MapThenSumSet(LAMBDA b : b.covered, buckets)
    IN  [revenueExVatMinor |-> revenue, coveredRevenueExVatMinor |-> covered,
         coverageBps |-> toCoverageBps(covered, revenue),
         ordersCount |-> MapThenSumSet(LAMBDA b : b.ordersCount, buckets),
         dirtyBuckets |-> Cardinality({b \in buckets : b.dirty})]

bucketsIn(db, window) == {b \in db.rollups : Within(b.businessDate, window)}

platformCoverage(db, window) == toCoverage(bucketsIn(db, window))

\* A store without a bucket in the window has no coverage at all.
coverageByStore(db, window) ==
    [s \in {b.storeId : b \in bucketsIn(db, window)} |->
        toCoverage({b \in bucketsIn(db, window) : b.storeId = s})]

-----------------------------------------------------------------------------
(* Orders.                                                                   *)

liveOrders(db, storeId, window) ==
    {o \in db.orders : o.storeId = storeId /\ o.live /\ Within(o.placedAt, window)}

\* What the merchant's own page counts, SubscriptionRepository.countLiveOrders.
countLiveOrders(db, storeId, window) == Cardinality(liveOrders(db, storeId, window))

\* Faulty variant: the period's last instant counted, as BETWEEN would.
ordersInPeriodByStoreClosed(db) ==
    [s \in DOMAIN db.subs |->
        Cardinality({o \in db.orders :
            /\ o.storeId = s /\ o.live
            /\ o.placedAt >= db.subs[s].currentPeriodStart
            /\ o.placedAt <= db.subs[s].currentPeriodEnd})]

\* The list's count, each store over its own billing period in one join.
ordersInPeriodByStore(db) ==
    [s \in DOMAIN db.subs |->
        Cardinality({o \in db.orders :
            /\ o.storeId = s /\ o.live
            /\ o.placedAt >= db.subs[s].currentPeriodStart
            /\ o.placedAt < db.subs[s].currentPeriodEnd})]

ordersIngested(db, window) ==
    Cardinality({o \in db.orders : o.live /\ Within(o.placedAt, window)})

-----------------------------------------------------------------------------
(* Subscriptions and list revenue.                                           *)

BILLED_STATUSES == {status \in SUBSCRIPTION_STATUSES : isBilled(status)}

subRows(db, statuses) == {s \in DOMAIN db.subs : db.subs[s].status \in statuses}

statusCounts(db) ==
    LET Of(status) == Cardinality(subRows(db, {status}))
    IN  [active |-> Of("active"), trialing |-> Of("trialing"), pastDue |-> Of("past_due"),
         canceled |-> Of("canceled"), expired |-> Of("expired"),
         subscriptions |-> Cardinality(DOMAIN db.subs)]

\* Annualised per plan in force, summed, and divided once.
mrr(db, at) ==
    LET billed  == subRows(db, BILLED_STATUSES)
        Holders(code) == {s \in billed : effectivePlanCode(db.subs[s], at) = code}
        inForce == {effectivePlanCode(db.subs[s], at) : s \in billed}
        known   == {code \in inForce : isPlanCode(code)}
        Annualised(code) == Cardinality(Holders(code)) * annualisedPrice(code)
        total   == MapThenSumSet(Annualised, known)
        Entry(code) == [planCode |-> code, stores |-> Cardinality(Holders(code)),
                        listMrrMinor |-> toMonthlyRate(Annualised(code))]
    IN  [listMrrMinor |-> toMonthlyRate(total), listArrMinor |-> total,
         billedStores |-> Cardinality(billed),
         byPlan |-> SetToSortSeq({Entry(code) : code \in known},
                                 LAMBDA a, b : a.listMrrMinor > b.listMrrMinor),
         unknownPlans |-> [code \in inForce \ known |-> Cardinality(Holders(code))]]

subscriptionsByStore(db, at) ==
    [s \in DOMAIN db.subs |->
        [planCode |-> db.subs[s].planCode,
         effectivePlanCode |-> effectivePlanCode(db.subs[s], at),
         status |-> db.subs[s].status,
         currentPeriodStart |-> db.subs[s].currentPeriodStart,
         currentPeriodEnd |-> db.subs[s].currentPeriodEnd,
         trialEndsAt |-> db.subs[s].trialEndsAt,
         lastReconciledAt |-> db.subs[s].lastReconciledAt,
         pendingPlanCode |-> db.subs[s].pendingPlanCode]]

-----------------------------------------------------------------------------
(* Health: what is wrong with a store, from the facts gathered about it.     *)

COVERAGE_LOW_BPS == 2000
ACTIVATION_COVERAGE_BPS == 5000

\* Age is at least a day; false of what never happened.
DayOld(from, now) == from # Null /\ now - from >= Day

isLive(facts) ==
    facts.uninstalledAt = Null /\ facts.subscription # Null /\ isPaying(facts.subscription.status)

isSilent(facts, now) ==
    /\ isLive(facts) /\ DayOld(facts.installedAt, now)
    /\ facts.lastWebhookAt = Null \/ DayOld(facts.lastWebhookAt, now)

\* The backfill that has been unfinished for a day, or Null.
stuckBackfill(facts, now) ==
    IF facts.backfill = Null \/ facts.backfill.status = "complete" THEN Null
    ELSE IF DayOld(facts.backfill.startedAt, now) THEN facts.backfill ELSE Null

isBackfillStuck(facts, now) == stuckBackfill(facts, now) # Null

coverageBpsOf(facts) == IF facts.coverage = Null THEN Null ELSE facts.coverage.coverageBps

isCoverageLow(facts) == coverageBpsOf(facts) # Null /\ coverageBpsOf(facts) < COVERAGE_LOW_BPS

isPastDue(facts) == facts.subscription # Null /\ facts.subscription.status = "past_due"

healthFlags(facts, now) ==
    {flag \in {"silent", "jobs_failing", "backfill_stuck", "coverage_low", "past_due"} :
        \/ flag = "silent" /\ isSilent(facts, now)
        \/ flag = "jobs_failing" /\ facts.failedJobs >= FAILED_JOBS_THRESHOLD
        \/ flag = "backfill_stuck" /\ isBackfillStuck(facts, now)
        \/ flag = "coverage_low" /\ isCoverageLow(facts)
        \/ flag = "past_due" /\ isPastDue(facts)}

storeHealth(facts, now) ==
    [flags |-> healthFlags(facts, now), healthy |-> healthFlags(facts, now) = {}]

\* Unknown, not false, while no integration records dashboard sessions.
activation(facts) ==
    LET complete == facts.backfill # Null /\ facts.backfill.status = "complete"
        covered  == /\ coverageBpsOf(facts) # Null
                    /\ coverageBpsOf(facts) > ACTIVATION_COVERAGE_BPS
    IN  [backfillComplete |-> complete, coverageAboveThreshold |-> covered,
         dashboardSession |-> facts.dashboardSession,
         activated |-> IF facts.dashboardSession = Null THEN Null
                       ELSE complete /\ covered /\ facts.dashboardSession]

-----------------------------------------------------------------------------
(* Stores: everything the portal knows about each, and the list of them.     *)

countStores(db) == Cardinality(DOMAIN db.stores)

storeFacts(db, now, s) ==
    [storeId |-> s, installedAt |-> db.stores[s].installedAt,
     uninstalledAt |-> db.stores[s].uninstalledAt,
     subscription |-> Get(subscriptionsByStore(db, now), s, Null),
     coverage |-> Get(coverageByStore(db, trailingDays(COVERAGE_DAYS, now)), s, Null),
     lastWebhookAt |-> Get(lastWebhookByStore(db), s, Null),
     failedJobs |-> Get(failedJobsByStore(db, trailingHours(24, now)), s, 0),
     backfill |-> Get(orderBackfillByStore(db), s, Null),
     ordersInPeriod |-> Get(ordersInPeriodByStore(db), s, 0),
     dashboardSession |-> Null]

storeSummaries(db, now) ==
    {facts @@ [health |-> storeHealth(facts, now), activation |-> activation(facts)]
        : facts \in {storeFacts(db, now, s) : s \in DOMAIN db.stores}}

\* A filter's Null asks for nothing.
matchesFilter(store, filter) ==
    LET Sub(field) == IF store.subscription = Null THEN Null ELSE store.subscription[field]
    IN  /\ filter.platform # Null => store.platform = filter.platform
        /\ filter.status # Null => Sub("status") = filter.status
        /\ filter.plan # Null => Sub("effectivePlanCode") = filter.plan
        /\ filter.needsAttention => ~store.health.healthy

\* Store ids are numbers here, in the order of their strings.
STORE_SORTS == {"orders", "coverage", "installed", "store"}

\* Unknown coverage ranks last.
coverageRank(store) == IF coverageBpsOf(store) = Null THEN 10001 ELSE coverageBpsOf(store)

\* Most orders, worst known coverage or newest first.
sortStores(list, sort) ==
    LET Rank(store) == CASE sort = "orders"    -> -store.ordersInPeriod
                         [] sort = "coverage"  -> coverageRank(store)
                         [] sort = "installed" -> -store.installedAt
                         [] sort = "store"     -> store.storeId
    IN  SortSeq(FoldSet(LAMBDA s, seq : Append(seq, s), <<>>, list), LAMBDA a, b : Rank(a) < Rank(b))

\* Faulty variant: a full last page offers one more.
nextCursorPast(next, total) == IF next <= total THEN next ELSE Null

nextCursor(next, total) == IF next < total THEN next ELSE Null

paginate(list, cursor, limit) ==
    LET start == Max({0, cursor})
        next  == start + limit
    IN  [stores |-> SubSeq(list, start + 1, Min({next, Len(list)})),
         total |-> Len(list), nextCursor |-> nextCursor(next, Len(list))]

=============================================================================
