----------------------------- MODULE Presentation -----------------------------
(***************************************************************************)
(* The judgements the console's screens make about the reports before they  *)
(* are drawn (lib/ui/presentation.ts): how bad a row is, how full its cap,   *)
(* what the chips count, what the overview's funnels show.  Wording, order   *)
(* of words and glyphs are left out: a label is the set of what it names.    *)
(***************************************************************************)
EXTENDS OpsReports

-----------------------------------------------------------------------------
(* One row of the store table.                                               *)

CRITICAL == {"silent", "past_due", "jobs_failing"}

\* Faulty variant: only what loses data or money is worth a colour.
severityOfCritical(flags) == IF flags \cap CRITICAL # {} THEN "bad" ELSE "ok"

severityOf(flags) ==
    IF flags = {} THEN "ok" ELSE IF flags \cap CRITICAL # {} THEN "bad" ELSE "warn"

subscriptionOf(store, field) == IF store.subscription = Null THEN Null ELSE store.subscription[field]

\* No cap for a plan this build does not know, nor for an unlimited one.
capUsage(store) ==
    LET used == store.ordersInPeriod
        code == subscriptionOf(store, "effectivePlanCode")
        cap  == IF code = Null \/ ~isPlanCode(code) THEN Null ELSE monthlyCapOf(PLANS[code])
    IN  IF cap = Null \/ cap <= 0 THEN [used |-> used, cap |-> Null, percent |-> Null, overCap |-> FALSE]
        ELSE [used |-> used, cap |-> cap, percent |-> Rounded(used * 100, cap), overCap |-> used > cap]

\* A store that has left is never coloured, whatever is still flagged of it.
storePresentation(store) ==
    LET cap   == capUsage(store)
        flags == store.health.flags
        bare  == coverageBpsOf(store) = 0
        Part(flag) == IF flag = "coverage_low" /\ bare THEN "no_coverage" ELSE flag
        severity == IF ~cap.overCap THEN severityOf(flags)
                    ELSE IF severityOf(flags) = "ok" THEN "warn" ELSE "bad"
    IN  IF store.uninstalledAt # Null THEN [severity |-> "ok", label |-> {"churned"}, cap |-> cap]
        ELSE [severity |-> severity, cap |-> cap,
              label |-> {Part(flag) : flag \in flags} \cup (IF cap.overCap THEN {"over_cap"} ELSE {})]

-----------------------------------------------------------------------------
(* The chips above the table, and what each of them narrows it to.           *)

savedViewCounts(stores) ==
    LET Count(P(_)) == Cardinality({i \in DOMAIN stores : P(stores[i])})
    IN  [trialing     |-> Count(LAMBDA s : subscriptionOf(s, "status") = "trialing"),
         past_due     |-> Count(LAMBDA s : subscriptionOf(s, "status") = "past_due"),
         over_cap     |-> Count(LAMBDA s : capUsage(s).overCap),
         low_coverage |-> Count(LAMBDA s : "coverage_low" \in s.health.flags),
         silent       |-> Count(LAMBDA s : "silent" \in s.health.flags)]

applyStoreView(stores, view) ==
    CASE view \in {"trialing", "past_due"} ->
            SelectSeq(stores, LAMBDA s : subscriptionOf(s, "status") = view)
      [] view = "over_cap"     -> SelectSeq(stores, LAMBDA s : capUsage(s).overCap)
      [] view = "low_coverage" -> SelectSeq(stores, LAMBDA s : "coverage_low" \in s.health.flags)
      [] view = "silent"       -> SelectSeq(stores, LAMBDA s : "silent" \in s.health.flags)

\* The "Jump to store" dialog reads the whole list a page at a time, over the
\* API, and gives up after a number of pages (JUMP_PAGE_LIMIT, JUMP_MAX_PAGES).
readAllStores(fan, params, limit, maxPages) ==
    LET Fetch(cursor) == storesRoute(fan, params @@ [limit |-> limit, cursor |-> cursor])
        load[n \in 0 .. maxPages] ==
            IF n = 0 THEN [kind |-> "loading", stores |-> <<>>, cursor |-> 0]
            ELSE LET before == load[n - 1]
                     page   == Fetch(before.cursor)
                 IN  IF before.kind # "loading" THEN before
                     ELSE IF ~page.ok THEN [kind |-> "failed"]
                     ELSE [kind   |-> IF page.list.nextCursor = Null THEN "ready" ELSE "loading",
                           stores |-> before.stores \o page.list.stores, total |-> page.list.total,
                           missing |-> page.list.missing, cursor |-> page.list.nextCursor]
        end == load[maxPages]
    IN  IF end.kind = "failed" THEN end
        ELSE [kind |-> "ready", stores |-> end.stores, total |-> end.total, missing |-> end.missing,
              truncated |-> end.kind = "loading"]

-----------------------------------------------------------------------------
(* The overview's corners.                                                   *)

\* A step nobody records is unknown, and the drop after it is taken from the last step known.
activationFunnel(stores) ==
    LET Count(P(_)) == Len(SelectSeq(stores, P))
        installed == Len(stores)
        unknown   == \A s \in Range(stores) : s.activation.activated = Null
        counts    == << installed, Count(LAMBDA s : s.activation.backfillComplete),
                        Count(LAMBDA s : s.activation.coverageAboveThreshold),
                        IF unknown THEN Null ELSE Count(LAMBDA s : s.activation.activated = TRUE),
                        Count(LAMBDA s : s.subscription # Null /\ isPaying(s.subscription.status)) >>
        Known(n)  == counts[Max({m \in 1 .. n - 1 : counts[m] # Null})]
    IN  [n \in 1 .. 5 |->
            [count |-> counts[n],
             share |-> IF counts[n] = Null \/ installed = 0 THEN Null ELSE Rounded(counts[n] * 100, installed),
             drop  |-> IF n = 1 \/ counts[n] = Null \/ installed = 0 THEN Null
                       ELSE Rounded((counts[n] - Known(n)) * 100, installed)]]

recentInstalls(stores, limit) ==
    LET newest == SetToSortSeq({s \in Range(stores) : s.uninstalledAt = Null},
                               LAMBDA a, b : a.installedAt > b.installedAt)
    IN  SubSeq(newest, 1, Min({limit, Len(newest)}))

recentChurns(stores, limit) ==
    LET latest == SetToSortSeq({s \in Range(stores) : s.uninstalledAt # Null},
                               LAMBDA a, b : a.uninstalledAt > b.uninstalledAt)
    IN  SubSeq(latest, 1, Min({limit, Len(latest)}))

\* What reached an outcome in the window; the queue has not failed, it has not arrived.
webhookFunnel(health) ==
    LET resolved == health.processed + health.failed + health.skipped
        Share(count) == IF resolved = 0 THEN Null ELSE Rounded(count * 100, resolved)
    IN  [resolved  |-> [count |-> resolved, share |-> IF resolved = 0 THEN Null ELSE 100],
         processed |-> [count |-> health.processed, share |-> Share(health.processed)],
         skipped   |-> [count |-> health.skipped, share |-> Share(health.skipped)],
         failed    |-> [count |-> health.failed, share |-> Share(health.failed)]]

DEGRADED_SUCCESS_BPS == 9500

platformState(health, successBps) ==
    IF health.stalled > 0 THEN "attention"
    ELSE IF successBps = Null THEN "quiet"
    ELSE IF successBps < DEGRADED_SUCCESS_BPS THEN "degraded" ELSE "live"

\* How urgently an open alert reads; one acknowledged has lost its urgency.
alertSeverity(alert) ==
    IF alert.acknowledgedUntil # NoOne THEN "ok"
    ELSE IF alert.kind \in {"silent_store", "platform_unreachable"} THEN "bad" ELSE "warn"

\* The bars by plan: the platforms' rounded rates added up, so a few halalas off the headline.
mergePlanRevenue(report) ==
    LET entries == UNION {{<<part.platform, plan>> : plan \in Range(part.mrr.byPlan)} : part \in report.byPlatform}
        Of(code) == {e \in entries : e[2].planCode = code}
        Bar(code) == [planCode |-> code, stores |-> MapThenSumSet(LAMBDA e : e[2].stores, Of(code)),
                      listMrrMinor |-> MapThenSumSet(LAMBDA e : e[2].listMrrMinor, Of(code))]
    IN  SetToSortSeq({Bar(e[2].planCode) : e \in entries}, LAMBDA a, b : a.listMrrMinor > b.listMrrMinor)

===============================================================================
