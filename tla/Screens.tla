------------------------------- MODULE Screens -------------------------------
(***************************************************************************)
(* Two readers of the platforms' databases while the integrations write to  *)
(* them: the merchant's billing page (EntitlementsService with its usage     *)
(* cache) and the operator's reports.  The merchant's request is split where *)
(* the code awaits; a report is what its operators make of the databases at  *)
(* an instant, and the invariants compare reports with one another.          *)
(***************************************************************************)
EXTENDS Presentation

CONSTANTS Samples,      \* databases to begin with, by platform
          Home,         \* the platform whose database is written here
          Stores,       \* the stores that platform may have
          EventIds, OrderIds,
          OrderKinds,   \* kinds of order: [live, isTest, legs]
          PlanChanges,  \* what a billing event may say: [status, planCode]
          Period,       \* length of the period a billing event announces
          USAGE_TTL,    \* lifetime of a cached usage count
          MaxNow,       \* bound: last instant
          MaxSteps      \* bound: writes and merchant requests

ASSUME ScreensAssumption ==
    /\ {Period, USAGE_TTL, MaxNow, MaxSteps} \subseteq Nat \ {0}
    /\ \A sample \in Samples : /\ Home \in DOMAIN sample /\ "orders" \in DOMAIN sample[Home]
                              /\ IsFiniteSet(sample[Home].orders)

VARIABLES now, steps,
          dbs,     \* the platforms' databases
          usage,   \* UsageCache.entries of this replica
          ask,     \* the merchant's request in flight
          shown    \* the page a merchant has just been given, or Null

vars == <<now, steps, dbs, usage, ask, shown>>

Idle == [pc |-> "idle"]

Init == /\ now = 0 /\ steps = 0
        /\ dbs \in Samples
        /\ usage = [k \in {} |-> 0]
        /\ ask = Idle /\ shown = Null

-----------------------------------------------------------------------------
(* The integration's writes, one row at a time.                              *)

home == dbs[Home]

Write(db) == /\ steps < MaxSteps /\ steps' = steps + 1
             /\ dbs' = [dbs EXCEPT ![Home] = db]
             /\ shown' = Null
             /\ UNCHANGED <<now, usage, ask>>

Install(s) ==
    /\ s \notin DOMAIN home.stores
    /\ Write([home EXCEPT !.stores = @ @@ (s :> [installedAt |-> now, uninstalledAt |-> Null])])

Uninstall(s) ==
    /\ s \in DOMAIN home.stores /\ home.stores[s].uninstalledAt = Null
    /\ Write([home EXCEPT !.stores[s].uninstalledAt = now])

\* A billing event of now: a renewal, a change of plan, a failed payment.
Bill(s, said) ==
    LET change == [planCode |-> said.planCode, platformPlanId |-> Null, status |-> said.status,
                   trialEndsAt |-> IF said.status = "trialing" THEN now + TrialLength ELSE Null,
                   currentPeriodStart |-> now, currentPeriodEnd |-> now + Period,
                   occurredAt |-> now]
    IN  /\ s \in DOMAIN home.stores
        /\ s \in DOMAIN home.subs => ~isStale(home.subs[s], now)
        /\ Write([home EXCEPT !.subs = (s :> IF s \in DOMAIN @ THEN applyChange(@[s], change)
                                             ELSE seedSubscription(change)) @@ @])

Receive(s, id) ==
    /\ s \in DOMAIN home.stores /\ \A e \in home.events : e.id # id
    /\ Write([home EXCEPT !.events = @ \cup {[id |-> id, storeId |-> s, status |-> "pending",
                                              receivedAt |-> now, lockedAt |-> Null]}])

Work(e, status) ==
    /\ e \in home.events
    /\ \/ e.status = "pending" /\ status = "processing"
       \/ e.status = "processing" /\ status \in {"processed", "failed", "skipped"}
    /\ Write([home EXCEPT !.events = (@ \ {e}) \cup
                {[e EXCEPT !.status = status,
                           !.lockedAt = IF status = "processing" THEN now ELSE Null]}])

\* An order, live or from a backfill, with the legs it was paid in.
Order(s, id, kind) ==
    /\ s \in DOMAIN home.stores /\ \A o \in home.orders : o.id # id
    /\ Write([home EXCEPT
          !.orders = @ \cup {[id |-> id, storeId |-> s, placedAt |-> now, live |-> kind.live,
                              isTest |-> kind.isTest]},
          !.payments = @ \cup {[orderId |-> id, legIndex |-> i, instrument |-> "unknown",
                                rawMethodLabel |-> "rail"] : i \in 1 .. kind.legs}])

\* Today's bucket rebuilt.
Rollup(s, revenueToday, coveredToday) ==
    LET today == [storeId |-> s, businessDate |-> toBusinessDate(now), revenue |-> revenueToday,
                  covered |-> coveredToday, ordersCount |-> 1, dirty |-> FALSE]
        Same(b) == b.storeId = s /\ b.businessDate = today.businessDate
    IN  /\ s \in DOMAIN home.stores /\ today \notin home.rollups
        /\ Write([home EXCEPT !.rollups = {b \in @ : ~Same(b)} \cup {today}])

Backfill(s, status) ==
    LET mine == {b \in home.backfills : b.storeId = s /\ b.resource = "orders"}
        row  == [storeId |-> s, resource |-> "orders", status |-> status,
                 startedAt |-> IF mine = {} THEN now ELSE (CHOOSE b \in mine : TRUE).startedAt]
    IN  /\ s \in DOMAIN home.stores /\ row \notin mine
        /\ mine = {} => status = "running"
        /\ Write([home EXCEPT !.backfills = (@ \ mine) \cup {row}])

Integration ==
    \/ \E s \in Stores : \/ Install(s) \/ Uninstall(s)
                         \/ \E said \in PlanChanges : Bill(s, said)
                         \/ \E id \in EventIds : Receive(s, id)
                         \/ \E id \in OrderIds, kind \in OrderKinds : Order(s, id, kind)
                         \/ \E coveredToday \in {1, 40} : Rollup(s, 100, coveredToday)
                         \/ \E status \in {"running", "failed", "complete"} : Backfill(s, status)
    \/ \E e \in home.events, status \in {"processing", "processed", "failed", "skipped"} :
          Work(e, status)

-----------------------------------------------------------------------------
(* The merchant's page: EntitlementsService.describe.                        *)

Ask(s) ==
    /\ ask.pc = "idle" /\ s \in DOMAIN home.stores
    /\ steps < MaxSteps /\ steps' = steps + 1
    /\ ask' = [pc |-> "find", storeId |-> s, now |-> now]
    /\ shown' = Null
    /\ UNCHANGED <<now, dbs, usage>>

\* UsageCache.get and set, with the clock passed in.
cachedUsage(entries, key, at) ==
    IF key \in DOMAIN entries /\ entries[key].expiresAt > at THEN entries[key].value ELSE Null

dropExpired(entries, key, at) ==
    IF cachedUsage(entries, key, at) = Null
    THEN [k \in DOMAIN entries \ {key} |-> entries[k]] ELSE entries

setUsage(entries, key, value, at) ==
    [k \in DOMAIN entries \cup {key} |->
        IF k = key THEN [value |-> value, expiresAt |-> at + USAGE_TTL] ELSE entries[k]]

\* The row is read, and the cache asked under the period's key.
Find ==
    /\ ask.pc = "find"
    /\ LET sub == IF ask.storeId \in DOMAIN home.subs THEN home.subs[ask.storeId]
                  ELSE provisionalTrial(ask.now)
           key == usageCacheKey(ask.storeId, usageWindow(sub))
           hit == cachedUsage(usage, key, ask.now)
       IN  /\ usage' = dropExpired(usage, key, ask.now)
           /\ ask' = [pc |-> IF hit = Null THEN "count" ELSE "answer", storeId |-> ask.storeId,
                      now |-> ask.now, sub |-> sub, key |-> key, count |-> hit]
    /\ UNCHANGED <<now, steps, dbs, shown>>

Count ==
    /\ ask.pc = "count"
    /\ ask' = [ask EXCEPT !.pc = "store",
                          !.count = countLiveOrders(home, ask.storeId, usageWindow(ask.sub))]
    /\ UNCHANGED <<now, steps, dbs, usage, shown>>

\* The page: entitlements with the cap, and the guard's answer for a feature.
Page(storeId, sub, at, count) ==
    LET provisional == resolveEntitlements(sub, at, FALSE)
        status == usageStatus(count, provisional.orderCap)
        entitlements == resolveEntitlements(sub, at, status.overCap)
    IN  [storeId |-> storeId, subscription |-> sub, at |-> at, usage |-> status, entitlements |-> entitlements,
         core |-> canActivate(entitlements, "core"), reports |-> canActivate(entitlements, "reports")]

Answer ==
    /\ ask.pc \in {"store", "answer"}
    /\ usage' = IF ask.pc = "store" THEN setUsage(usage, ask.key, ask.count, ask.now) ELSE usage
    /\ shown' = Page(ask.storeId, ask.sub, ask.now, ask.count)
    /\ ask' = Idle
    /\ UNCHANGED <<now, steps, dbs>>

\* The replica goes: its cache and its requests with it.
Restart == /\ usage # [k \in {} |-> 0] \/ ask # Idle
           /\ usage' = [k \in {} |-> 0] /\ ask' = Idle
           /\ shown' = Null
           /\ UNCHANGED <<now, steps, dbs>>

Tick == now < MaxNow /\ now' = now + 1 /\ shown' = Null /\ UNCHANGED <<steps, dbs, usage, ask>>

Next == \/ Integration \/ \E s \in Stores : Ask(s)
        \/ Find \/ Count \/ Answer \/ Restart \/ Tick

Spec == Init /\ [][Next]_vars

-----------------------------------------------------------------------------
(* Properties.                                                               *)

\* The reports read the databases and the clock and nothing else, so they are
\* compared in the states in which no merchant's request has left a trace: every
\* database and instant that a request can be around for is also reached without.
NoRequest == ask = Idle /\ shown = Null /\ DOMAIN usage = {}

\* What can go wrong with a report: platforms refused by the probe, and
\* platforms that fail while they are queried.
Reaches == {r \in [refused : SUBSET DOMAIN dbs, throws : SUBSET DOMAIN dbs] :
               r.refused \cap r.throws = {}}
Checks(reach) == [p \in DOMAIN dbs |-> [reachable |-> p \notin reach.refused, problems |-> {}]]
Fan(reach, run(_)) ==
    queryPlatforms(Checks(reach), [p \in DOMAIN Checks(reach) |-> run(p)], reach.throws, now)

WholeList == [filter |-> [platform |-> Null, status |-> Null, plan |-> Null, needsAttention |-> FALSE],
              sort |-> "orders", cursor |-> 0, limit |-> 100]

\* The sums: the overview against the revenue and the ingestion report, and both
\* against the rows of the list.
SumsAgree(totals, money, ingest, listed) ==
    LET Listed(status) == Cardinality({s \in listed : /\ s.subscription # Null
                                                      /\ s.subscription.status = status})
        covered == {s \in listed : s.coverage # Null}
        Sum(field) == MapThenSumSet(LAMBDA s : s.coverage[field], covered)
    IN  /\ totals.stores = Cardinality(listed)
        /\ totals.active = Listed("active") /\ totals.pastDue = Listed("past_due")
        /\ totals.listMrrMinor = money.listMrrMinor /\ totals.listArrMinor = money.listArrMinor
        /\ totals.unknownPlanSubscriptions = money.unknownPlanSubscriptions
        /\ totals.queueDepth = ingest.queueDepth /\ totals.stalledJobs = ingest.stalled
        /\ totals.webhookSuccessBps = ingest.successBps
        /\ totals.coverageBps = toCoverageBps(Sum("coveredRevenueExVatMinor"), Sum("revenueExVatMinor"))

\* The bars by plan and the activation funnel against the headline.
ChartsAgree(totals, money, bars, funnel, count) ==
    /\ FoldLeft(LAMBDA n, bar : n + bar.stores, money.unknownPlanSubscriptions, bars) = money.billedStores
    /\ LET off == FoldLeft(LAMBDA n, bar : n + bar.listMrrMinor, -money.listMrrMinor, bars)
       IN  2 * off \in -(count + 1) .. count + 1
    /\ funnel[1].count = totals.stores
    /\ funnel[5].count = totals.active + totals.trialing + totals.pastDue

\* A store has a page exactly when it is listed.
PagesAgree(reach, listed) ==
    \A p \in DOMAIN dbs : \A s \in DOMAIN dbs[p].stores :
        LET page == storeDetail(Checks(reach), dbs, reach.throws, p, s, now)
        IN  IF page.kind = "found"
            THEN page.store @@ [platform |-> p] \in listed
            ELSE \A row \in listed : <<row.platform, row.storeId>> # <<p, s>>

BadgesAgree(badges, listed) ==
    /\ badges.stores = Cardinality(listed)
    /\ badges.alerts >= Cardinality({s \in listed : s.health.flags \ {"coverage_low"} # {}})
    /\ badges.partial <=> \E p \in DOMAIN dbs : \A row \in listed : row.platform # p

ScreensOf(reach, over, money, ingest, badges, rows) ==
    /\ SumsAgree(over.totals, money, ingest.totals, Range(rows))
    /\ ChartsAgree(over.totals, money, mergePlanRevenue(money), activationFunnel(rows), Len(rows))
    /\ PagesAgree(reach, Range(rows))
    /\ BadgesAgree(badges, Range(rows))

\* Two screens never disagree: whatever part of the platforms a report reached,
\* and computed at the same instant from the same tables, the overview's stores
\* are the store list's, its money is the revenue report's to the halala, its
\* queue is the ingestion report's, and its coverage is that of the listed
\* stores together (overview.ts, revenue.ts, ingestion-report.ts and stores.ts
\* each compute their own).  The bars by plan account for every billed store,
\* and for the headline up to half a halala for each listed store and for the
\* headline itself, each rate having been rounded by itself; the activation
\* funnel starts and ends at the overview's counts.  A store has a page exactly
\* when it is listed, and the badges count what is shown.
ReportsAgree ==
    \A reach \in Reaches :
        LET over   == overview(Fan(reach, LAMBDA p : platformOverview(dbs[p], now)))
            feed   == alertFeed(Fan(reach, LAMBDA p : platformAlerts(p, dbs[p], now)),
                                readAcks(TRUE, [k \in {} |-> 0]), now)
            rails  == unknownPaymentMethodQueue(
                        Fan(reach, LAMBDA p : unknownPaymentMethods(dbs[p], QUEUE_LIMIT)))
        IN  ScreensOf(reach, over, revenue(Fan(reach, LAMBDA p : mrr(dbs[p], now))),
                      ingestionReport(Fan(reach, LAMBDA p : platformIngestion(dbs[p], "h24", now))),
                      consoleSummary(over, feed, rails),
                      storeList(Fan(reach, LAMBDA p : storeSummaries(dbs[p], now)), WholeList).stores)

\* One meter: the orders the operator's list shows for a store are the orders
\* the merchant's own page would count at the same instant, period boundaries
\* included (ordersInPeriodByStore against countLiveOrders).
MeterAgrees ==
    \A p \in DOMAIN dbs : \A s \in storeSummaries(dbs[p], now) :
        s.subscription # Null =>
            s.ordersInPeriod = countLiveOrders(dbs[p], s.storeId, usageWindow(s.subscription))

\* A cached count is never carried into a new period: the number a merchant is
\* shown counts no order from before the period it is shown for.
UsageOfThisPeriod ==
    shown # Null =>
        shown.usage.count <= Cardinality({o \in home.orders :
            /\ o.storeId = shown.storeId /\ o.live
            /\ o.placedAt >= shown.subscription.currentPeriodStart})

\* The flags of the store list and the alert feed are two derivations of the
\* same trouble: a store flagged in the list has its alert in the feed.
FlaggedStoresAlert ==
    \A p \in DOMAIN dbs : \A s \in storeSummaries(dbs[p], now) :
        LET raised == {a.kind : a \in {b \in platformAlerts(p, dbs[p], now) : b.storeId = s.storeId}}
            KindOf == [silent |-> "silent_store", jobs_failing |-> "failed_jobs",
                       backfill_stuck |-> "stuck_backfill", past_due |-> "past_due"]
        IN  \A flag \in s.health.flags \ {"coverage_low"} : KindOf[flag] \in raised

Walked(load, wanted) ==
    /\ load.kind = "ready" /\ ~load.truncated
    /\ Len(load.stores) = Cardinality(wanted) /\ load.total = Cardinality(wanted)
    /\ Range(load.stores) = wanted

WalksCover(fan, every) ==
    \A sort \in STORE_SORTS, limit \in 1 .. 2, attention \in {"true", "false", ""} :
        LET params == [sort |-> sort, status |-> ""] @@
                      (IF attention = "" THEN [plan |-> ""] ELSE [needsAttention |-> attention])
            wanted == {s \in every : attention = "true" => s.health.flags # {}}
            needed == Max({1, (Cardinality(wanted) + limit - 1) \div limit})
        IN  Walked(readAllStores(fan, params, limit, needed), wanted)

\* Walking the list by its cursors, as the jump dialog does over the API,
\* shows every store the filter admits once, and no page it is sent to is
\* refused, repeated or empty: the walk is over after the pages the list fills.
PagesCoverList == NoRequest =>
    WalksCover(Fan([refused |-> {}, throws |-> {}], LAMBDA p : storeSummaries(dbs[p], now)),
               UNION {ofPlatform(p, storeSummaries(dbs[p], now)) : p \in DOMAIN dbs})

\* What is drawn reads true: a chip counts the rows it narrows to; a store that
\* has not left is coloured when it is over its cap or "needs attention" would
\* keep it, and not otherwise; a row is red only for what also raised an alert,
\* or for a cap, and a silent store is red in both places; arrivals and
\* departures are all the stores there are; a platform's card never says "live"
\* above a funnel in which more than one event in twenty failed, nor "quiet"
\* above one in which some did.  (presentation.ts:131-199, 259-329, 353-453)
RowsReadTrue ==
    LET rows == storeList(Fan([refused |-> {}, throws |-> {}], LAMBDA p : storeSummaries(dbs[p], now)),
                          WholeList).stores
    IN  /\ \A view \in DOMAIN savedViewCounts(rows) :
              savedViewCounts(rows)[view] = Len(applyStoreView(rows, view))
        /\ \A row \in Range(rows) :
              LET drawn  == storePresentation(row)
                  raised == platformAlerts(row.platform, dbs[row.platform], now)
              IN  row.uninstalledAt = Null =>
                    /\ drawn.severity # "ok" <=> drawn.cap.overCap \/ ~row.health.healthy
                    /\ drawn.severity = "bad" =>
                         drawn.cap.overCap \/ \E alert \in raised : alert.storeId = row.storeId
                    /\ "silent" \in drawn.label =>
                         /\ drawn.severity = "bad"
                         /\ \E alert \in raised : alert.storeId = row.storeId /\ alertSeverity(alert) = "bad"
        /\ Range(recentInstalls(rows, Len(rows)) \o recentChurns(rows, Len(rows))) = Range(rows)
        /\ \A p \in DOMAIN dbs :
              LET health == ingestionHealth(dbs[p], trailingHours(24, now), now)
                  card   == platformState(health, successRateBps(health.processed, health.failed))
                  failed == webhookFunnel(health).failed
              IN  /\ card = "live" => failed.share \in 0 .. 5
                  /\ card = "quiet" => failed.count = 0

\* The operator's table and the merchant's banner say the same of a store's cap,
\* at the cap itself included, for every plan billed by the month.  (For a plan
\* billed by the year they do not: capUsage sets a year's orders against a
\* month's share of the cap.  For a plan the build does not know the banner falls
\* back on the smallest plan and the table shows none.)
OverCapAgrees ==
    \A p \in DOMAIN dbs : \A s \in storeSummaries(dbs[p], now) :
        LET code == subscriptionOf(s, "effectivePlanCode")
            page == Page(s.storeId, dbs[p].subs[s.storeId], now, s.ordersInPeriod)
        IN  code \in PlanCodes /\ PLANS[code].interval = "month" =>
              /\ capUsage(s).overCap = page.usage.overCap
              /\ capUsage(s).overCap /\ page.entitlements.access.dashboard = "full"
                   => page.entitlements.access.notice = "over_order_cap"

\* An unpriced rail is ranked by orders: an order settled in several captures,
\* or a merchant's test order, does not push it up the work list.
RailsCountOrders ==
    \A p \in DOMAIN dbs : \A row \in Range(unknownPaymentMethods(dbs[p], QUEUE_LIMIT)) :
        row.orders <= Cardinality({o \in dbs[p].orders : o.storeId = row.storeId /\ ~o.isTest})

\* List revenue is only ever of stores that still have what they pay for: a
\* store counted as billed sees its whole dashboard at that instant, whatever
\* the operator's build and the merchant's each make of the row.
BilledStoresHaveAccess ==
    \A p \in DOMAIN dbs :
        /\ \A s \in subRows(dbs[p], BILLED_STATUSES) :
              decideAccess(dbs[p].subs[s], now, FALSE).dashboard = "full"
        /\ Cardinality({s \in DOMAIN dbs[p].subs :
                          decideAccess(dbs[p].subs[s], now, FALSE).notice \in {"none", "payment_past_due"}})
           = mrr(dbs[p], now).billedStores
             + Cardinality({s \in subRows(dbs[p], {"trialing"}) : ~isTrialExpired(dbs[p].subs[s], now)})

\* Every number that is on two screens is one number, and counts what it says.
ScreensAgree == NoRequest => ReportsAgree /\ RailsCountOrders

\* The operator and the merchant are told the same of a store: its orders, its
\* cap, and whether it has what it is billed for.
SidesAgree == NoRequest => MeterAgrees /\ OverCapAgrees /\ BilledStoresHaveAccess

\* A store in trouble is coloured, listed and alarmed, each where the others are.
TroubleIsShown == NoRequest => RowsReadTrue /\ FlaggedStoresAlert
=============================================================================
