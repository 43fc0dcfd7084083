# Ghalla: a TLA+ verification project

Ghalla tells a merchant what each order earned. It is a pnpm monorepo: packages
(`contracts`, `schemas`, `ports`, `core`, `billing`, `persistence`) and two
applications (`ghalla-salla`, a NestJS server per e-commerce platform, and
`ghalla-ops`, a Next.js portal for the operator). This directory holds models of
what these parts do, TLC runs over small instances, and machine-checked proofs.

`PROJECT.json` maps every definition to the lines it models, and lists the runs,
the faulty variant each property is tested against, the hazards, the finding and
the theorems.

## 1. The system and its parts

| Component | State | Operations | What is hard | What makes it correct |
|---|---|---|---|---|
| Ingestion queue (`webhook-event.repository.ts`) | table `webhook_events`: status, attempts, next_attempt_at, locked_at | enqueue, claim, markProcessed, markSkipped, markFailed, reapStale, requeue | many workers on one table; workers that die or are slow; read-then-write in markFailed and reapStale; at-least-once delivery | an event is with one live worker at a time; attempts stay in policy; terminal rows stay; everything settles |
| Subscription domain (`packages/billing`) | none (values) | seedSubscription, applyChange, reconcile, differsFrom, effectivePlanCode, isDowngrade | three clocks (event, check, period) and silence | the newest event rules; a paid tier is kept to the end of its period |
| Billing webhook handler | row of `store_subscription` | handle: find, then save the whole row | lost, late, reordered, repeated events; races with the refresh | the row is as new as what was handled |
| Refresh and nightly sweep | the same row; an in-flight map per process | requestRefresh, provisionAtInstall, refreshNow, runOnce | awaits between question and write; failures; starvation | drift is repaired; every store is looked at |
| Access, entitlements, usage | a cache of usage counts | decideAccess, resolveEntitlements, describe, canActivate | a count cached across two awaits while the subscription moves on | no store that pays is locked out; a count is of the period it is shown for |
| Profit engine (`packages/core`) | none | computeOrderProfit and its terms | rounding, signs, partial data, refunds upon refunds | lines add up to totals to the halala; no guess is called exact |
| Order profit and rollups (`order-profit.repository.ts`) | `order_profit`, its lines, two rollup tables with dirty flags | save, markDirty, markDirtyByFeeRuleSet, findStaleOrderIds | which buckets a recompute must dirty; a mark read and written in two statements | a clean bucket misses nothing |
| Cost history | validity windows per product key | record, resolveAsOf | concurrent corrections under READ COMMITTED | no gap; the past does not change |
| Schema, migrations, seed, clear | 24 tables and their constraints | runMigrations, clearAll, seedDemoStore | deletes that cascade; a seed killed half way; production behind one guard | what must go goes, and nothing else |
| Plan catalog check and healthcheck | verdict, fetch in flight | check at start and hourly, with a timeout | timeout against late answer; the deploy is gated on it | no deploy goes green on a price that differs |
| Portal: registry, cache, alerts | probe verdicts, report cache, acknowledgements | verify, queryPlatforms, read, invalidate, acknowledge | several databases, each failing on its own, during a request | a gap is shown as a gap |
| Portal: login | two failure limiters, session token | login, logout, gate | logins that overlap record instants out of order | blocks are earned, and lift |
| Portal: reports and screens | none | eight reports, their merge, what the tables and banners say | the same fact computed in several places | the places agree |

How they interact. A platform's webhook is enqueued and answered at once; queue
workers claim events and run handlers, one of which is the billing handler. The
handler, the refresh service and the sweep all write the same subscription row,
reading it first and saving all its columns later. Entitlements read that row on
every request. The profit engine is called by workers that are not in the repository
yet; what it returns is stored by the order-profit repository, which marks rollup
buckets dirty in the same transaction. A deploy migrates the database, starts a
process and waits for its healthcheck, which includes the catalog check. The portal
only reads the platforms' databases, through a fan-out that survives the loss of any of
them, and writes its own acknowledgements.

## 2. Modules

| Module | Models |
|---|---|
| `WebhookQueue`, `LeaseQueue` | the queue table, workers, reapers, the operator, the clock; and what the queue promises, without SQL, time or retries (abstract) |
| `Plans`, `Subscription` | the plan table; the pure functions on a subscription row |
| `BillingSync` | one store's row, its three writers, the platform, unreliable webhooks |
| `Money`, `ProfitTerms`, `ProfitEngine` | integer money and the largest-remainder allocator; recognition, revenue, cost of goods, couriers, fees; validation, reversals, allocation to lines, confidence, the whole of `computeOrderProfit` |
| `Canonical`, `OrderLife` | the canonical schemas as predicates; an order's life, computed after every event |
| `CostHistory`, `ProfitStore` | cost windows; stored results and rollups over them |
| `Access` | entitlements, access, usage, prices, as operators |
| `Schema`, `DemoStore` | all tables with keys, UNIQUEs, references and CHECKs; the seeded rows, statement by statement |
| `PlanCatalog`, `ReconcileSweep`, `Release` | the catalogue comparison; the nightly sweep; one environment through its releases, composing the two with migrations, the healthcheck and the shell tools |
| `Platforms`, `Alerts`, `Portal` | probes and the fan-out; raising and acknowledging alerts; the portal process serving the cached feed |
| `PortalLogin` | limiters, sessions, gate |
| `OpsQueries`, `OpsReports`, `Presentation`, `Screens` | each platform's queries; the merged reports; what the screens say of them; all of it over tables that change |
| `WebhookQueueProofs`, `BillingSyncProofs`, `ProfitStoreProofs`, `PortalLoginProofs`, `PortalProofs`, `ReleaseProofs`, `ScreensProofs`, `OrderLifeProofs` | theorems about the module they are named after and the modules under it (section 5) |
| `MC*` | names for the small instances |

Operators called "Faulty variant" in a comment are not part of any specification. Each
is a plausible wrong version of the definition after it, used to show that a property
can fail.

### WebhookQueue

`row` is the table, keyed by event because `(store_id, platform_event_id)` is its unique
index; an absent row has status "absent". Where the code awaits between a read and a
write the model has two actions:

| Code | Actions |
|---|---|
| `enqueue` | `enqueue` (a redelivery finds the row and changes nothing) |
| `claim` | `ClaimSelect` (SELECT ... FOR UPDATE SKIP LOCKED; the rows are locked in `claiming`), `ClaimUpdate` |
| `markProcessed`, `markSkipped` | the same names |
| `markFailed` | `MarkFailedRead`, `MarkFailedWrite` |
| `reapStale` | `ReapSelect` (outside the transaction), `ReapUpdate` |
| `requeue` | `requeue` |
| process death | `Crash`, `ReaperCrash` |

The worker loop does not exist yet; the model takes it from how the repository class is
documented to be called: claim a batch, work it one event at a time, report each. `JobTime`
and `BatchTime` bound how long a live worker may take; `Tick` waits for workers about to
exceed them, so a run that wants slow workers sets them high. `last_error` and the payload
are left out, and `processed_at` is only null or set: nothing decides on them.

### Subscription, BillingSync

`row` is the store's `store_subscription` row or `Null`. `HandleFind`/`HandleSave` are the
two halves of `BillingEventHandler.handle`; `RequestFind`, `RequestMark`, `RequestStart` the
steps of `requestRefresh`; `RefreshFetch`, `RefreshFind`, `RefreshWrite` those of
`performRefresh`, which stamps the instant it started; `refreshing[p]` is the
in-flight map of process `p`. `RefreshFail` is any of its awaits throwing.
Events are never removed from `sent`: a delivery picks any of them, so loss,
delay, reordering and redelivery need no actions of their own. Two events of one instant
may exist. An event of a type the handler does not know changes nothing and is not
modelled. The platform is outside the repository and modelled from how the adapters are
documented: upgrades at once, downgrades at the end of the period, renewals, changes of status,
a plan code no build knows, and an uninstall nobody hears of. Every fact but the status may be silent
by itself (`billing-adapter.ts:40-58`): each event leaves out one of the sets of fields in `Silences`,
a poll always the fields in `Unpolled`, since one adapter reads one answer of one platform. A save the table's
CHECKs refuse (`MeetsChecks`) throws: `HandleSave` and `RefreshWrite` are not enabled, and `HandlerCrash`
(the queue delivers again) or `RefreshFail` is what happens.

### The profit engine

`computeOrderProfit` is an operator on the whole input, built from one operator per function
of `packages/core/src/engine`; loops that pick the best rule become a CHOOSE of the first best,
loops that tally become folds, and the re-spreading loop of `spreadCappedByCogs` a recursive
function over rounds. Amounts are integers and rounding is the code's; instants are hours
and a time zone is its offset; ids are small numbers, so that sorting by id is kept. In `OrderLife`
the platform places, pays, ships, tracks, refunds and cancels in any order the canonical contract
allows, or an adapter leaves one of eighteen faults in the input; after every event `Recompute` has
the engine compute the order afresh.

### ProfitStore, CostHistory

A `record` is taken statement by statement, each seeing what had been committed when it ran, as
READ COMMITTED does. A `save` is one transaction, but for a rejection, whose read of the
old row comes first. A bucket's sums are kept as the set of rows they are the sums of, so that
"complete" can be said without arithmetic. `FeeRulesRead`/`FeeRulesMark` are the two statements of
`markDirtyByFeeRuleSet`. Recompute and rebuild workers are external.

### Release and what it composes

A process is its stored verdict, the fetch it waits for and the one it gave up on. The
catalogues the platform has published are numbered, so that a verdict is *about* one of them.
`Release` composes `PlanCatalog`, `ReconcileSweep` (in production, where a shell may not clear) and
`DemoStore` over `Schema` (in staging, where it may). The sweep only compares
`last_reconciled_at` to order the stores, so the column is abstracted to that order. A table is
its rows' constrained columns; deleting by hand follows the references' ON DELETE.

### Portal, PortalLogin

Instants are relative to the present, which is 0: a tick makes every remembered instant one
older, and one older than any rule looks back stays where it is. The state space is thereby finite
without a bound on time, so liveness is checked of a portal that runs for ever. A
request reads the clock once and then awaits its probes, its queries and the acknowledgements in
any order; `MaxFlight` is how long that, an acknowledgement's insert or a login may take: the driver's timeout
for the first two, the server's own for a login, whose route awaits the form without a limit.
The acknowledge route reads the clock before it awaits its insert. Nothing sees the first of these, so
`Acknowledge(k, at)` is the commit and chooses how long ago the route read the clock; of two that overlap the
older may be stored last. Each query of the portal's own database succeeds or fails by itself. The login model's ghosts
count the wrong keys of the window since everyone was last blocked (`tried`) and the keys compared while everyone
is blocked (`slipped`), and say when the key in force was last proved (`proved`).

### Screens

The integration writes rows, one at a time; the merchant's page is split where
`EntitlementsService` awaits; a report is what its operators make of the tables at an instant,
over every set of platforms that may be refused or fail. The invariants compare reports with one
another, with the merchant's page and with the tables. Reports read the databases and the clock and
nothing of a request in flight, so the invariants about them are evaluated where there is no request
(`NoRequest`): every state of the databases and the clock is also reached without one.

## 3. Runs

| Run | Instance | Shows |
|---|---|---|
| `queue_safe` | 2 events, 2 workers, batches of 2, 2 attempts, 1 reaper, clock to 5, symmetry | `QueueInv` (exclusive leases and claims, attempts in policy, reads still true when written on), `TerminalStays`, and that the table implements `LeaseQueue` |
| `queue_live` | 1 event, 2 workers without a time limit, 1 reaper, clock to 20 | `EveryEventSettles`, late reports included |
| `billing_webhooks` | handler only, 3 events, each whole, without its start, without its end or with nothing but a status, 4 deliveries, 2 plans, 2 statuses | `WritesPassChecks`: only half a period is ever refused; `NewestEventRules`, `PaidTierKept` |
| `billing_refresh` | one process, no handler, clock to 3, polls without the period's start | `CheckedRowAgrees`: a check certifies nothing it did not see |
| `billing_drift` | handler, refresh and platform together; events with and without the period's end, whole polls | `DriftIsRepaired` |
| `order_life` | 3 kinds of order, 3 payments, 3 parcels, 4 refunds, 18 faults, 4 events | `EveryHalalaIsBooked`, `StockBackIsRight`, `RefundsNeverFlatter`, `GradesAreEarned`, `RuleOrderIsIrrelevant`, `ValidationsAgree` |
| `profit_store` | 2 writers of costs, 1 worker, 1 order with 2 days and 2 line sets | `CleanBucketsAreComplete`, `CostsAreKept`, `StaleRowsDrain` |
| `rollup_stale` | the same, 1 writer | **violated**: `CleanMeansCurrent`. A recompute that moves an order to another day, or drops a line, leaves the bucket it left clean with the order in it |
| `server` | 3 stores, 1 of them failing for good, passes of 2; 2 builds, of which 1 checks its catalogue; 2 incidents | `GateHolds`, `VerdictsAreExact`, `VerdictsMoveForward`, `VerdictsKeepUp`, `SeedServes`, `DeletionIsExact`, `EveryStoreChecked` |
| `portal` | 2 readers, 2 platforms, acknowledgements of 5 ticks, inserts of up to 1, pages of 2 | `GapsAreShown`, `PagesAreFresh`, `AcksLastTheirDay`, `OutageIsForgotten` |
| `login` | 2 sources, 2 logins at once, blocks after 2 failures of a source or 3 of all, window 3, block 2 | `BlocksAreFair`, `GlobalLimitHolds`, `SessionsAreEarned`, `BlocksLift` |
| `screens` | 2 platforms, 2 stores, 3 writes or requests, clock to 2, a plan cap of 1 order | `ScreensAgree`, `SidesAgree`, `UsageOfThisPeriod`, `TroubleIsShown`, `PagesCoverList` |

Several properties are named conjunctions; the parts are definitions of their own, each with the
lines it is about (for instance `EveryHalalaIsBooked` is `LinesTieToTotals` and
`RefundsAreBookedInFull`).

Why the bounds are enough. *Queue*: with `StaleAfter` 1 and a clock of 5 an event can be
claimed, abandoned, reaped, retried, exhausted, replayed and claimed again; two events make a
batch, two workers make a race. A third worker adds no new kind of conflict, since rows
are independent but for the batch. *Live*: the clock bound of 20 is never the reason an
event settles: two attempts and the longest backoff end well before it. *Billing*: the shortest
period that has an inside, an end and an after; two plans are an upgrade and a downgrade;
three events give one to be lost, one late and one in between. The handler and the
refresh are kept apart where a property is about one path, so TLC checks the handler's part of
`WritesPassChecks` and the refresh's part is the theorem's. In `billing_drift` the status moves with the plan
only, and polls say the whole period: with half of one `DriftIsRepaired` is false (section 6). *Orders*: four events are a payment, a
parcel, its return and a refund, or two refunds after a payment and a parcel; the items are
a dear line, a cheap one sold twice and a gift, whose revenue and cost split differently; the rules
have an exact match, a wildcard, a clamp and a VAT-inclusive rate. *Profit store*: two
changes move an order and correct its cost, in either order with respect to the recompute; two
writers make the race of two corrections. *Server*: a pass holds one store more than fail for good,
which is the boundary; two incidents are a deploy and a price edit, a restart in a pass and a
failure, a killed seed and its repetition. *Portal, login*: two readers race for one cache entry, a day of 5 ticks leaves
room for one instant between the insert and a page of 2 at its beginning and a late insert at its end, and
the limits, windows and lifetimes are the smallest that are distinct. *Screens*: the starting
tables already hold an annual plan, an overdue one, an unknown one, a store over its cap and
failed events, so three writes or requests reach a change and its consequence.

Deadlock checking is off in `billing_webhooks`, `order_life`, `profit_store`, `rollup_stale` and `screens`, whose
bounded environments may use up their events, and on elsewhere.

## 4. Fairness

*Queue*: the documents ask for workers and a reaper that poll, so claiming, working and
reaping are weakly fair per process. `ClaimUpdate` is strongly fair: a crash rolls an open
claim back, so its completion is enabled again and again rather than continuously. `Crash`
is unrestricted and has no fairness, nor has any operator. `LiveTick` is weakly fair; it
lets time pass only when a row waits for it and every due poll has been served, which is
"pollers are faster than the retry delays". *Billing*: the nightly cron makes
`SweepRefresh` weakly fair; a platform and a database that are asked for ever do not fail for
ever, hence strong fairness of the three steps of a refresh, whose failures stay possible
every time. Webhook delivery has no fairness at all. *Sweep*: `runOnce` and the walk of a pass
are weakly fair (it is one loop of one process), and a store that can answer does so
eventually. *Profit store*: workers may crash between computing and saving, every time but
not for ever, hence strong fairness of a recompute and of its save, per order; the platform and the operator have
none. *Server*: timers and the hourly cron fire (weak fairness). That the platform answers at all is not
assumed: it is a hypothesis of `MismatchIsNoticed`, and `PendingResolves` holds without it. *Portal,
login*: a request that can take a step does, readers keep reading, and time passes (weak
fairness); the databases that go down need not come back, so `OutageIsForgotten` says what
happens if they do.

## 5. Proofs

The theorems hold for every value of the constants that satisfies the named assumptions; TLC
evaluates those assumptions on every run. They say that a default (`Null`, `NoOne`) is none of the
values it stands beside, that numbers are numbers, and the few relations between delays that are
named below. An invariant that is not inductive is proved from a stronger one, in the style: initial
states have it, one step per action and under it one per conjunct the action can disturb, and a
last temporal step.

**`WebhookQueueProofs`**, for every set of events, workers and reapers, policy and batch size:

- `TypeCorrect` and `LockCorrect`: unconditional, for any number of reapers and however slow
  the workers. No write is ever refused by the lock CHECK.
- `QueueCorrect` (`[]QueueInv`), `TerminalCorrect`, `QueueImplementsLease`: under
  `ThresholdHonoured`, that is one reaper at a time and `BatchTime <= StaleAfter`. Without it they
  are false (section 6).

`QueueInv` is inductive. `LeaseExclusive` alone is not: the reaper
frees a row some live worker holds unless the hold is younger than the threshold, which
is `HoldsArePrompt` (from `Tick`, the only place slowness is bounded); its update is decided
on an earlier reading, so `ReadsStayFresh` says nobody has taken those rows since, which in
turn needs that only the reaper moves a row out of "processing" without its owner, hence one
reaper; a claim's rows must still be pending at its update, which is `ClaimsExclusive`; and
`AttemptsWithinPolicy` needs the count markFailed read to be the count still there. The refinement
maps `owner` to the worker that holds the event, which `LeaseExclusive` makes unique.

**`BillingSyncProofs`**, for every plan, status, period and number of deliveries:

- `WritesCorrect` (`[]WritesPassChecks`): for any number of handlers and server processes and whatever a source
  leaves out. That the stored row meets the CHECKs is the database's doing; what is proved is that no writer told a whole
  period, or none, ever computes a row the database refuses. A write saves what was computed from an earlier read and an
  earlier answer, so `SchemaInv` says of every row read what the CHECKs say of the table, and of every event sent and
  answer fetched that a period said whole is not empty.
- `NewestEventCorrect` and `PaidTierCorrect`: under `EventsInTurn`, one handler and no refresh. The
  inductive `OrderInv` adds that no event is from the future, that the row a handler read is still the
  row when it saves, and that a pending plan ranks below the plan in force. With a refresh beside the handler
  they are false (section 6: the old `last_event_at` is saved back).
- `CheckedRowCorrect`: under `OneRefresher`, one process and no handler. `CheckInv` follows the answer
  in hand (it is what the platform says to a poll, unless something was announced since the check began) and
  the row read (it is the row there is, but for the column that marks a check).

**`ProfitStoreProofs`**, for any orders, days, lines, costs, writers and workers:

- `CostsCorrect`: no gap and a fixed past, for any number of corrections racing under READ COMMITTED.
  `CostInv` needs that a transaction closes only windows of its own key that it saw open (`ClosingOK`)
  and that a key with a row always has an open one (`StillOpen`), which is what keeps two closings from
  opening a gap.
- `CleanBucketsCorrect`: no clean bucket misses or misstates a stored result. `StoreInv` adds
  what results may be in a worker's hands, and that a stored row of a computed result has its day and
  its lines, so that the buckets it belongs in are defined and a save dirties all of them.

**`PortalLoginProofs`**, for any sources, limits and overlapping logins, with `MaxFlight < BLOCK <= WINDOW`
(a request does not outlast a block; a block ends inside its window, as the configured values do):
`GlobalLimitCorrect`, `BlocksCorrect`, `SessionsCorrect`. `LimiterInv` says that a bucket that blocks
nobody holds fewer failures than the limit, that a block was set with the window it stands in, and that the
tally of wrong keys and the global bucket share their window; overlapping logins record their instants out
of order, so neither is evident. `SlippedOK` is what makes the block bite: the keys compared since it began,
with the logins still past the check, are fewer than the logins, since none can pass the check again before the block
lifts. `SessionInv` says that a token lives no longer than its time from the proof of the key.

**`PortalProofs`**, for any platforms, readers and times, with `MaxFlight < CACHE_TTL`: `GapsCorrect`,
`PagesCorrect`, `AcksCorrect`. `PortalInv` says that remembered verdicts are results of real
probes, that the table holds the newest acknowledgement of a key or one that began at most `MaxFlight` before it
(`TableOK`), that what a request has read is no newer and
has a row for all that was stored before it began, that the cached feed is sound for the
instant it was computed at, and that it expires a lifetime after.

**`ReleaseProofs`**: `ComparisonCorrect` (the seven kinds of disagreement are exactly the ways a finite
catalogue can fail to sell every plan as granted); from it `VerdictsCorrect`, `GateCorrect`,
`ForwardCorrect`, for every set of finite catalogues one of which is right. `ReleaseInv` carries the
fetch: one in flight is for a catalogue at least as new as the verdict.

**`ScreensProofs`**: `UsageCorrect`. A page is built from a subscription read before an await and a count that may
come from the cache; `ScreensInv` says that no cached count, and none in hand, exceeds the live orders
since the start its key names, and rests on orders being only added.

**`OrderLifeProofs`**, about the engine as a whole, from the arithmetic up:

- Sums. `SumFunction` is a fold, that is, a recursion over the subsets of its domain. The library's
  induction theorems cannot be instantiated, but every set of naturals has a least element (`WFMin`), which
  gives induction on the size of a finite set with the statement written as a set (`NatAll`, `SubsetsAll`).
  From it: the recursion has a solution, sums split, add, scale, reindex and swap.
- The money kernel, for every amount, rate and weights: `RoundingCorrect`, `VatSplitCorrect`, `QuotaCorrect` (no share
  is a unit or more below, or more than a unit above, its exact value), `SharesFollowWeights` (the larger weight never gets
  the smaller share, nor the earlier of two equal ones), `AllocationIsExact` (the shares add up to what was
  dealt out, with negative totals, and with weights that are negative or all zero). What is left after
  rounding down is the sum of the remainders over the weight, hence fewer units than there are
  buckets with a remainder, and the tie-break ranks those one by one.
- `EngineBooksEverything`: for every well-formed input that the engine computes, the lines tie to the totals
  and the refunds are booked in full. Each term of the margin is a lemma of its own (revenue, cost of
  goods, each courier direction parcel by parcel, gateway fees, cash on delivery, reversals). That figures are whole numbers
  is used throughout, and it is the engine's own doing: it refuses what is not (`MoneyFault`) and, for sums, what leaves the range
  of a Minor (`Overflows`).
- `LifeIsBooked`: `EveryHalalaIsBooked` at every moment. The property is not inductive, since it says nothing of the
  input between computations. `LifeInv` says that the input keeps its shape through
  every event and fault (`Shaped`), that an input nobody corrupted has an order with whole discounts, and that the result
  is what the engine says of the input whenever nothing has happened since. `Shaped` is weak on purpose: it admits the faults, for
  which the engine's refusal, and not the invariant, is what keeps the books.
- `LifeIsGradedRight`: `GradesAreEarned` at every moment, from the same `LifeInv`. One lemma per term (`CogsGrade`, `ShippingGrade`,
  `FeeGrade`, `CashGrade`, `RevenueGrade`, `ReversalGrade`) says what its basis tells of the records behind it, `GradeIs` what a
  level tells of the bases, and `GradesHold` puts them together. It needs two things that only the engine's validation
  gives: no id is used twice, so the records found by id are all there are (`ByIdHasAll`), and captured totals are
  whole numbers. The proof corrected the property: an earlier form asked for a rule of the payment's own
  instrument and the parcel's own direction, which holds on the instance and is false of a table with a catch-all
  rule (`instrument` null, `direction` "any"); it also said nothing of cash on delivery, and now does.

  The assumptions of both are those of `OrderLife`: lists are lists (items, discounts, costs, the three rule tables), items have ids,
  discounts and refunds have the whole amounts and parcels the directions and states that the canonical schemas demand
  (`schemas/canonical.ts`); the engine's own validation does not look at these. Nothing else is assumed of costs, rules, payments,
  parcels, or of the figures on items.

Only model-checked, and why:

- liveness is out of the prover's reach: `EveryEventSettles`, `DriftIsRepaired`, `StaleRowsDrain`,
  `VerdictsKeepUp`, `EveryStoreChecked`, `OutageIsForgotten`, `BlocksLift`;
- `StockBackIsRight`, `RefundsNeverFlatter`: each refund is booked on what those before it left, a left fold over a sorted list
  with a bounded loop inside it; the provers know neither `FoldLeft` nor `SortSeq` over lists of any length, and
  with a negative unit cost, which the engine lets through, the bounds are false;
- `RuleOrderIsIrrelevant`: at the edge of a Minor's range, two orders of the rules may disagree on whether a fee overflows, so it holds
  of bounded fees only;
- `ValidationsAgree`: that what the run feeds in is either right or has a named fault, which is about the chosen instance and
  not about every value of the constants;
- `ScreensAgree`, `SidesAgree`, `TroubleIsShown`, `PagesCoverList`: sorted and paged lists of any length;
- `SeedServes` and `DeletionIsExact` are about one concrete set of rows, some 20 tables followed
  through their references, which TLC evaluates whole and a proof would only repeat;
- what `EventsInTurn` and `OneRefresher` leave out, where the same statements are false.

## 6. Where the code says one thing and does another

One disagreement has a run: `rollup_stale` (`findings` in `PROJECT.json` quotes the
comments and explains the trace). The others were met while modelling. The models contain the
behaviour; the properties above are stated so as to say what does hold.

Queue:
- A retry lets a later event of the same store overtake an earlier one, although docs/0006:80 has
  events of a store worked in order.
- `claim` stamps one `locked_at` on a whole batch, so a batch slower than the threshold is reaped under a
  live worker and a finished row can be reopened (`webhook-event.repository.ts:276`).
- Two replicas that reap at once: the second frees a row that has a new, live worker (`:316`).

Billing:
- A pending downgrade that is withdrawn while its notice is lost is never cleared by `reconcile`
  (`subscription.ts:265`, `:298`).
- A refresh that read the row before an event was applied saves the old `last_event_at` with it
  (`subscription.ts:28`).
- An event that names no plan clears a pending plan (`subscription.ts:178`, `:201`).
- The install seeds `last_event_at` with the instant it observed, so a genuine event from before is
  stale (`subscription-refresh.service.ts:142`); `markReconciled` certifies the row as it is at the write
  (`:152`).
- Half a period can be refused by the table, although the placeholder month is there so that the write does not
  "leave the store with no row at all" (`subscription.ts:88-92`) and silence is meant to be harmless
  (`billing-adapter.ts:40-44`): a first event that says only an end at or before its own instant gets that instant as its
  start (`:94-103`), and a start at or after the stored end, said alone as a renewal might, is paired with that end
  (`:205-206`, `:289-290`). The event is retried to its death; a poll that never says the end never repairs the row.
  `WritesPassChecks` is therefore about sources that say both dates or neither.
- As many failing stores as a pass has room for starve the sweep (`reconciliation.service.ts:61`).

Profit:
- A refund without line detail, after one that filled a line, can credit too little stock: the first
  round deals to full lines too (`reversal.ts:209-211`, `:304`).
- Two first corrections of one key at once leave two open windows (`cost-history.repository.ts:97`, `:125`);
  which of the two `resolveAsOf` picks is then a tie. No gap opens and the past stays, which is `CostsAreKept`.
- docs/0005 gives order 1001 a margin of SAR 212.10; the engine's terms for it come to SAR 92.10.

Server:
- `plan-catalog.service.ts:81` speaks of 04:00 UTC; the cron is hourly.
- The guard of `clear` goes by the environment's name only (`clear.ts:32`).

Usage and portal:
- The usage cache's key names the window's start, not its end, and the map is never emptied of keys
  nobody asks for again (`usage.ts:80`, `:119-123`).
- A computation that began before a refresh may store after it and undo it for the rest of the TTL
  (`cache.ts:51`).
- Of two acknowledgements of one alert that overlap, the one that read the clock first may be stored last and end the
  day that much earlier, although `alert-acks.ts:37-43` has the second replace the first.
- A login reads the clock, awaits its form for any time, and checks and records at the instant it read
  (`login/route.ts:40-54`); that blocks are neither undone nor shortened needs the server to end it within `BLOCK`.
- A probe's verdict with problems is kept for the life of the process, like one without (`registry.ts:223`).
- On an annual plan the table compares a year's orders with a month's cap, the banner with the year's
  (`presentation.ts:83-97`); a store that has left can carry flags (`:140` says it carries none).
- The jump dialog names only the last page's missing platforms (`jump-dialog.tsx:30`, `:75`).

## 7. Not modelled

Text: formatting, wording, markup, logging, error messages. Wiring: configuration, dependency injection,
connection strings, the driver and its pool. Conversions between rows and domain values, whose
instants are numbers on both sides. Fixtures and sample data of the portal. Search by text. One CHECK that
is a string pattern. Platform adapters, and the ingestion, recompute and rollup workers, are not in the
repository: they appear as external actors. Cryptography is assumed to work: a
session token is the key and the instants it was signed with.

## 8. Next

1. `OrderLife`: the units' half of `StockBackIsBounded`, by induction on the prefixes of the sorted reversals as `OrderLifeProofs`
   does for sums; the cost half once the engine or the cost schema refuses negative unit costs.
2. `ReconcileSweep`: no store is lost between `due`, `checked` and the pass (a lemma on what
   `SelectSeq` keeps comes first).
3. `Release`: the part of `DeletionIsExact` that needs no data, that nothing is cleared in production.
4. `Screens`: the meter's part of `SidesAgree`, whose two sides count the same set.
