------------------------------ MODULE OpsReports ------------------------------
(***************************************************************************)
(* The portal's reports: one platform's part of each, and the merge of the  *)
(* parts the fan-out brought back.  Sums and ratios are taken over the       *)
(* merged terms, never over the platforms' own ratios.                       *)
(***************************************************************************)
EXTENDS OpsQueries, Alerts

SumOver(fan, Term(_)) == MapThenSumSet(LAMBDA result : Term(result.value), fan.ok)

-----------------------------------------------------------------------------
(* Overview.                                                                 *)

platformOverview(db, now) ==
    [stores |-> countStores(db), statuses |-> statusCounts(db), mrr |-> mrr(db, now),
     coverage |-> platformCoverage(db, trailingDays(COVERAGE_DAYS, now)),
     ingestion |-> ingestionHealth(db, trailingHours(24, now), now),
     ordersIngested24h |-> ordersIngested(db, trailingHours(24, now))]

unknownPlanCount(breakdown) ==
    MapThenSumSet(LAMBDA code : breakdown.unknownPlans[code], DOMAIN breakdown.unknownPlans)

\* Faulty variant: the platforms' rounded monthly rates added up.
monthlyTotalOfRates(fan) == SumOver(fan, LAMBDA v : v.mrr.listMrrMinor)

monthlyTotal(fan) == toMonthlyRate(SumOver(fan, LAMBDA v : v.mrr.listArrMinor))

overview(fan) ==
    LET T(Term(_)) == SumOver(fan, Term)
    IN  [totals |->
           [stores |-> T(LAMBDA v : v.stores), active |-> T(LAMBDA v : v.statuses.active),
            trialing |-> T(LAMBDA v : v.statuses.trialing),
            pastDue |-> T(LAMBDA v : v.statuses.pastDue),
            listMrrMinor |-> monthlyTotal(fan),
            listArrMinor |-> T(LAMBDA v : v.mrr.listArrMinor),
            unknownPlanSubscriptions |-> T(LAMBDA v : unknownPlanCount(v.mrr)),
            ordersIngested24h |-> T(LAMBDA v : v.ordersIngested24h),
            queueDepth |-> T(LAMBDA v : v.ingestion.pending),
            stalledJobs |-> T(LAMBDA v : v.ingestion.stalled),
            webhookSuccessBps |-> successRateBps(T(LAMBDA v : v.ingestion.processed),
                                                 T(LAMBDA v : v.ingestion.failed)),
            coverageBps |-> toCoverageBps(T(LAMBDA v : v.coverage.coveredRevenueExVatMinor),
                                          T(LAMBDA v : v.coverage.revenueExVatMinor))],
         missing |-> fan.failed, partial |-> fan.partial, capturedAt |-> fan.capturedAt]

-----------------------------------------------------------------------------
(* Revenue, ingestion, unpriced rails.                                       *)

\* Of the platforms' mrr.
revenue(fan) ==
    LET arr == SumOver(fan, LAMBDA v : v.listArrMinor)
    IN  [listMrrMinor |-> toMonthlyRate(arr), listArrMinor |-> arr,
         billedStores |-> SumOver(fan, LAMBDA v : v.billedStores),
         unknownPlanSubscriptions |-> SumOver(fan, unknownPlanCount),
         byPlatform |-> {[platform |-> result.platform, mrr |-> result.value] : result \in fan.ok},
         missing |-> fan.failed, partial |-> fan.partial, capturedAt |-> fan.capturedAt]

platformIngestion(db, range, now) ==
    [health |-> ingestionHealth(db, rangeToInstantWindow(range, now), now),
     failures |-> recentFailures(db, 10, Null)]

ingestionReport(fan) ==
    LET T(field) == SumOver(fan, LAMBDA v : v.health[field])
        platforms == {result @@ [successBps |-> successRateBps(result.value.health.processed,
                                                               result.value.health.failed)]
                        : result \in fan.ok}
    IN  [platforms |-> platforms, missing |-> fan.failed,
         totals |-> [processed |-> T("processed"), failed |-> T("failed"),
                     queueDepth |-> T("pending"), stalled |-> T("stalled"),
                     successBps |-> successRateBps(T("processed"), T("failed"))],
         partial |-> fan.partial, capturedAt |-> fan.capturedAt]

QUEUE_LIMIT == 100

\* Each platform's rails, most used first; a rail is its platform's own.
unknownPaymentMethodQueue(fan) ==
    LET Rows(result) == {row @@ [platform |-> result.platform] : row \in Range(result.value)}
    IN  [rows |-> SetToSortSeq(UNION {Rows(result) : result \in fan.ok},
                               LAMBDA a, b : a.orders > b.orders),
         missing |-> fan.failed, partial |-> fan.partial, capturedAt |-> fan.capturedAt]

-----------------------------------------------------------------------------
(* Stores, one by one and listed.                                            *)

ofPlatform(platform, summaries) == {s @@ [platform |-> platform] : s \in summaries}

storeList(fan, query) ==
    LET merged == UNION {ofPlatform(result.platform, result.value) : result \in fan.ok}
        page   == paginate(sortStores({s \in merged : matchesFilter(s, query.filter)}, query.sort),
                           query.cursor, query.limit)
    IN  page @@ [missing |-> fan.failed, partial |-> fan.partial, capturedAt |-> fan.capturedAt]

\* The query parameters a request for the list may have, or Null when one of
\* them is refused.  A filter that was cleared is sent blank and filters nothing.
parseStoreQuery(params) ==
    LET Text(key) == IF Get(params, key, "") = "" THEN Null ELSE params[key]
        flag   == Get(params, "needsAttention", "false")
        sort   == Get(params, "sort", "orders")
        cursor == Get(params, "cursor", 0)
        limit  == Get(params, "limit", 50)
    IN  IF flag \in {"true", "false"} /\ sort \in STORE_SORTS /\ cursor \in Nat /\ limit \in 1 .. 200
        THEN [filter |-> [platform |-> Text("platform"), status |-> Text("status"), plan |-> Text("plan"),
                          needsAttention |-> flag = "true"],
              sort |-> sort, cursor |-> cursor, limit |-> limit]
        ELSE Null

\* GET /api/stores: parse, then delegate.
storesRoute(fan, params) ==
    LET query == parseStoreQuery(params)
    IN  IF query = Null THEN [ok |-> FALSE] ELSE [ok |-> TRUE, list |-> storeList(fan, query)]

\* "throws" is the platform's database failing during the queries.
storeDetail(checks, dbs, throws, platform, storeId, now) ==
    IF platform \notin DOMAIN checks THEN [kind |-> "unknown_platform"]
    ELSE IF ~isUsable(checks[platform]) \/ platform \in throws THEN [kind |-> "unavailable"]
    ELSE LET found == {s \in storeSummaries(dbs[platform], now) : s.storeId = storeId}
         IN  IF found = {} THEN [kind |-> "not_found"]
             ELSE [kind |-> "found", store |-> CHOOSE s \in found : TRUE,
                   recentFailures |-> recentFailures(dbs[platform], 20, storeId)]

hasFailedJobs(facts) == facts.failedJobs > 0

storeAlerts(platform, facts, now) ==
    LET Raised == [silent_store   |-> isSilent(facts, now),
                   stuck_backfill |-> stuckBackfill(facts, now) # Null,
                   failed_jobs    |-> hasFailedJobs(facts),
                   past_due       |-> isPastDue(facts)]
    IN  {raise(kind, platform, facts.storeId) : kind \in {k \in DOMAIN Raised : Raised[k]}}

\* A platform's part of the feed, derived again from the summaries.
platformAlerts(platform, db, now) ==
    UNION {storeAlerts(platform, s, now) : s \in storeSummaries(db, now)}

\* The console's badges, dated by the oldest of the reports behind them.
consoleSummary(overviewReport, feed, queue) ==
    [stores |-> overviewReport.totals.stores, alerts |-> Cardinality(openAlerts(feed.alerts)),
     queue |-> Len(queue.rows),
     partial |-> overviewReport.partial \/ feed.partial \/ queue.partial,
     capturedAt |-> Min({overviewReport.capturedAt, feed.capturedAt, queue.capturedAt})]

=============================================================================
