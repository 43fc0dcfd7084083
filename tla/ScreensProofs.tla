---------------------------- MODULE ScreensProofs ----------------------------
(***************************************************************************)
(* Proofs about the merchant's page: the usage it shows is of the period it  *)
(* shows, whatever is written while it is computed and however long a count  *)
(* stays in the cache.                                                       *)
(***************************************************************************)
EXTENDS Screens, FiniteSetTheorems, TLAPS

LiveSince(orders, storeId, start) ==
    {o \in orders : o.storeId = storeId /\ o.live /\ o.placedAt >= start}

\* A count no order from before the period is in.
CountOK(count, storeId, start, orders) ==
    count \in Nat /\ count <= Cardinality(LiveSince(orders, storeId, start))

HomeOK == Home \in DOMAIN dbs /\ "orders" \in DOMAIN home /\ IsFiniteSet(home.orders)

CacheOK(orders) ==
    \A key \in DOMAIN usage : CountOK(usage[key].value, key[1], key[2], orders)

AskOK(orders) ==
    ask.pc \in {"count", "store", "answer"} =>
        /\ ask = [pc |-> ask.pc, storeId |-> ask.storeId, now |-> ask.now, sub |-> ask.sub,
                  key |-> ask.key, count |-> ask.count]
        /\ ask.key = <<ask.storeId, ask.sub.currentPeriodStart>>
        /\ ask.pc # "count" => CountOK(ask.count, ask.storeId, ask.sub.currentPeriodStart, orders)

ScreensInv == HomeOK /\ CacheOK(home.orders) /\ AskOK(home.orders) /\ UsageOfThisPeriod

LEMMA CountsStay ==
    ASSUME NEW old, NEW new, IsFiniteSet(new), old \subseteq new,
           NEW count, NEW storeId, NEW start, CountOK(count, storeId, start, old)
    PROVE  CountOK(count, storeId, start, new)
<1> DEFINE S == LiveSince(old, storeId, start)
           T == LiveSince(new, storeId, start)
<1>1. S \subseteq T /\ T \subseteq new
  BY DEF LiveSince
<1>2. IsFiniteSet(T)
  BY <1>1, FS_Subset
<1>3. IsFiniteSet(S) /\ Cardinality(S) <= Cardinality(T)
  BY <1>1, <1>2, FS_Subset
<1>4. Cardinality(S) \in Nat /\ Cardinality(T) \in Nat
  BY <1>2, <1>3, FS_CardinalityType
<1> HIDE DEF S, T
<1>5. count \in Nat /\ count <= Cardinality(S)
  BY DEF CountOK, S
<1>6. count <= Cardinality(T)
  BY <1>3, <1>4, <1>5
<1> QED
  BY <1>5, <1>6 DEF CountOK, T

\* What the database counts for a period, none of it is from before.
LEMMA CountedOK ==
    ASSUME HomeOK, NEW storeId, NEW sub
    PROVE  CountOK(countLiveOrders(home, storeId, usageWindow(sub)), storeId,
                   sub.currentPeriodStart, home.orders)
<1> DEFINE S == liveOrders(home, storeId, usageWindow(sub))
           T == LiveSince(home.orders, storeId, sub.currentPeriodStart)
<1>1. S \subseteq T /\ T \subseteq home.orders
  BY DEF LiveSince, liveOrders, usageWindow, Within
<1>2. IsFiniteSet(T)
  BY <1>1, FS_Subset DEF HomeOK
<1>3. IsFiniteSet(S) /\ Cardinality(S) <= Cardinality(T)
  BY <1>1, <1>2, FS_Subset
<1>4. Cardinality(S) \in Nat
  BY <1>3, FS_CardinalityType
<1> QED
  BY <1>3, <1>4 DEF CountOK, countLiveOrders

LEMMA ScreensInit == Init => ScreensInv
<1> SUFFICES ASSUME Init PROVE ScreensInv
  OBVIOUS
<1>1. HomeOK
  BY ScreensAssumption DEF Init, HomeOK, home
<1>2. CacheOK(home.orders) /\ AskOK(home.orders)
  BY DEF Init, CacheOK, AskOK, Idle
<1> QED
  BY <1>1, <1>2 DEF Init, ScreensInv, UsageOfThisPeriod

\* A write that keeps the orders there are.
LEMMA WriteStep ==
    ASSUME ScreensInv, NEW db, Write(db), "orders" \in DOMAIN db, home.orders \subseteq db.orders,
           IsFiniteSet(db.orders)
    PROVE  ScreensInv'
<1>1. /\ dbs' = [dbs EXCEPT ![Home] = db] /\ shown' = Null /\ UNCHANGED <<usage, ask>>
  BY DEF Write
<1>2. home' = db /\ Home \in DOMAIN dbs'
  BY <1>1 DEF ScreensInv, HomeOK, home
<1>3. HomeOK'
  BY <1>2 DEF HomeOK
<1>4. ASSUME NEW count, NEW storeId, NEW start, CountOK(count, storeId, start, home.orders)
      PROVE  CountOK(count, storeId, start, db.orders)
  BY <1>4, CountsStay
<1>5. CacheOK(db.orders)'
  BY <1>1, <1>2, <1>4 DEF ScreensInv, CacheOK
<1>6. AskOK(db.orders)'
  BY <1>1, <1>2, <1>4 DEF ScreensInv, AskOK
<1>7. UsageOfThisPeriod'
  BY <1>1 DEF UsageOfThisPeriod
<1>8. CacheOK(home.orders)' /\ AskOK(home.orders)'
  BY <1>2, <1>5, <1>6 DEF CacheOK, AskOK
<1> QED
  BY <1>3, <1>7, <1>8 DEF ScreensInv

\* No order is ever taken back by the integration.
LEMMA IntegrationStep == ASSUME ScreensInv, Integration PROVE ScreensInv'
<1>1. "orders" \in DOMAIN home /\ IsFiniteSet(home.orders)
  BY DEF ScreensInv, HomeOK
<1>2. ASSUME NEW db, Write(db), "orders" \in DOMAIN db, db.orders = home.orders PROVE ScreensInv'
  BY <1>1, <1>2, WriteStep
<1>3. ASSUME NEW s, Install(s) PROVE ScreensInv'
  <2> DEFINE stores == home.stores @@ (s :> [installedAt |-> now, uninstalledAt |-> Null])
             db == [home EXCEPT !.stores = stores]
  <2>1. Write(db)
    BY <1>3 DEF Install
  <2> HIDE DEF stores
  <2>2. "orders" \in DOMAIN db /\ db.orders = home.orders
    BY <1>1
  <2> QED
    BY <1>2, <2>1, <2>2
<1>4. ASSUME NEW s, Uninstall(s) PROVE ScreensInv'
  <2> DEFINE db == [home EXCEPT !.stores[s].uninstalledAt = now]
  <2>1. Write(db)
    BY <1>4 DEF Uninstall
  <2>2. "orders" \in DOMAIN db /\ db.orders = home.orders
    BY <1>1
  <2> QED
    BY <1>2, <2>1, <2>2
<1>5. ASSUME NEW s, NEW said, Bill(s, said) PROVE ScreensInv'
  <2>1. PICK subs : Write([home EXCEPT !.subs = subs])
    BY <1>5, Zenon DEF Bill
  <2>2. "orders" \in DOMAIN [home EXCEPT !.subs = subs] /\ [home EXCEPT !.subs = subs].orders = home.orders
    BY <1>1
  <2> QED
    BY <1>2, <2>1, <2>2
<1>6. ASSUME NEW events, Write([home EXCEPT !.events = events]) PROVE ScreensInv'
  <2>1. "orders" \in DOMAIN [home EXCEPT !.events = events] /\ [home EXCEPT !.events = events].orders = home.orders
    BY <1>1
  <2> QED
    BY <1>2, <1>6, <2>1
<1>7. ASSUME NEW s, NEW id, Receive(s, id) PROVE ScreensInv'
  BY <1>6, <1>7 DEF Receive
<1>8. ASSUME NEW e, NEW status, Work(e, status) PROVE ScreensInv'
  BY <1>6, <1>8 DEF Work
<1>9. ASSUME NEW s, NEW id, NEW kind, Order(s, id, kind) PROVE ScreensInv'
  <2> DEFINE order == [id |-> id, storeId |-> s, placedAt |-> now, live |-> kind.live, isTest |-> kind.isTest]
             orders == home.orders \cup {order}
  <2>1. PICK payments : Write([home EXCEPT !.orders = orders, !.payments = payments])
    BY <1>9, Zenon DEF Order
  <2>2. IsFiniteSet(orders) /\ home.orders \subseteq orders
    BY <1>1, FS_AddElement
  <2> HIDE DEF order, orders
  <2> DEFINE db == [home EXCEPT !.orders = orders, !.payments = payments]
  <2>3. "orders" \in DOMAIN db /\ db.orders = orders
    BY <1>1
  <2> HIDE DEF db
  <2> QED
    BY <2>1, <2>2, <2>3, WriteStep DEF db
<1>10. ASSUME NEW s, NEW revenueToday, NEW coveredToday, Rollup(s, revenueToday, coveredToday) PROVE ScreensInv'
  <2>1. PICK rollups : Write([home EXCEPT !.rollups = rollups])
    BY <1>10, Zenon DEF Rollup
  <2>2. "orders" \in DOMAIN [home EXCEPT !.rollups = rollups] /\ [home EXCEPT !.rollups = rollups].orders = home.orders
    BY <1>1
  <2> QED
    BY <1>2, <2>1, <2>2
<1>11. ASSUME NEW s, NEW status, Backfill(s, status) PROVE ScreensInv'
  <2>1. PICK backfills : Write([home EXCEPT !.backfills = backfills])
    BY <1>11, Zenon DEF Backfill
  <2>2. /\ "orders" \in DOMAIN [home EXCEPT !.backfills = backfills]
        /\ [home EXCEPT !.backfills = backfills].orders = home.orders
    BY <1>1
  <2> QED
    BY <1>2, <2>1, <2>2
<1>12. ASSUME NEW s \in Stores,
              \/ Install(s) \/ Uninstall(s)
              \/ \E said \in PlanChanges : Bill(s, said)
              \/ \E id \in EventIds : Receive(s, id)
              \/ \E id \in OrderIds, kind \in OrderKinds : Order(s, id, kind)
              \/ \E coveredToday \in {1, 40} : Rollup(s, 100, coveredToday)
              \/ \E status \in {"running", "failed", "complete"} : Backfill(s, status)
       PROVE  ScreensInv'
  BY <1>3, <1>4, <1>5, <1>7, <1>9, <1>10, <1>11, <1>12
<1> QED
  BY <1>8, <1>12 DEF Integration

\* The row found may be a later one than the count in the cache was for; the key
\* says so, for it names the period's start.
LEMMA FindStep == ASSUME ScreensInv, Find PROVE ScreensInv'
<1> DEFINE sub == IF ask.storeId \in DOMAIN home.subs THEN home.subs[ask.storeId] ELSE provisionalTrial(ask.now)
           key == usageCacheKey(ask.storeId, usageWindow(sub))
           hit == cachedUsage(usage, key, ask.now)
<1>1. /\ usage' = dropExpired(usage, key, ask.now)
      /\ ask' = [pc |-> IF hit = Null THEN "count" ELSE "answer", storeId |-> ask.storeId,
                 now |-> ask.now, sub |-> sub, key |-> key, count |-> hit]
      /\ UNCHANGED <<dbs, shown>>
  BY DEF Find
<1> HIDE DEF sub
<1>2. key = <<ask.storeId, sub.currentPeriodStart>> /\ key[1] = ask.storeId /\ key[2] = sub.currentPeriodStart
  BY DEF usageCacheKey, usageWindow
<1> HIDE DEF key
<1>3. hit # Null => key \in DOMAIN usage /\ hit = usage[key].value
  BY DEF cachedUsage
<1>4. hit # Null => CountOK(hit, ask.storeId, sub.currentPeriodStart, home.orders)
  BY <1>2, <1>3 DEF ScreensInv, CacheOK
<1> HIDE DEF hit
<1>5. home' = home
  BY <1>1 DEF home
<1>6. HomeOK' /\ UsageOfThisPeriod'
  BY <1>1, <1>5 DEF ScreensInv, HomeOK, UsageOfThisPeriod
<1>7. CacheOK(home.orders)'
  <2>1. \A k \in DOMAIN usage' : k \in DOMAIN usage /\ usage'[k] = usage[k]
    BY <1>1 DEF dropExpired
  <2> QED
    BY <1>5, <2>1 DEF ScreensInv, CacheOK
<1>8. AskOK(home.orders)'
  <2>1. /\ ask'.storeId = ask.storeId /\ ask'.sub = sub /\ ask'.key = key /\ ask'.count = hit
        /\ ask'.pc = IF hit = Null THEN "count" ELSE "answer"
    BY <1>1
  <2>2. ask' = [pc |-> ask'.pc, storeId |-> ask'.storeId, now |-> ask'.now, sub |-> ask'.sub,
                key |-> ask'.key, count |-> ask'.count]
    BY <1>1
  <2>3. ask'.pc # "count" => CountOK(ask'.count, ask'.storeId, ask'.sub.currentPeriodStart, home.orders)
    BY <1>4, <2>1
  <2> QED
    BY <1>2, <1>5, <2>1, <2>2, <2>3 DEF AskOK
<1> QED
  BY <1>6, <1>7, <1>8 DEF ScreensInv

LEMMA CountStep == ASSUME ScreensInv, Count PROVE ScreensInv'
<1> DEFINE n == countLiveOrders(home, ask.storeId, usageWindow(ask.sub))
           old == ask
           w == [old EXCEPT !.pc = "store"]
<1>1. /\ ask.pc = "count" /\ ask' = [ask EXCEPT !.pc = "store", !.count = n]
      /\ UNCHANGED <<dbs, usage, shown>>
  BY DEF Count
<1>2. CountOK(n, ask.storeId, ask.sub.currentPeriodStart, home.orders)
  BY CountedOK DEF ScreensInv
<1>3. old = [pc |-> old.pc, storeId |-> old.storeId, now |-> old.now, sub |-> old.sub,
             key |-> old.key, count |-> old.count]
  BY <1>1, Zenon DEF ScreensInv, AskOK
<1> HIDE DEF n
<1>4. ask' = [pc |-> "store", storeId |-> ask.storeId, now |-> ask.now, sub |-> ask.sub,
              key |-> ask.key, count |-> n]
  <2>1. ask' = [w EXCEPT !.count = n]
    BY <1>1
  <2> HIDE DEF old
  <2>2. w = [pc |-> "store", storeId |-> old.storeId, now |-> old.now, sub |-> old.sub,
             key |-> old.key, count |-> old.count]
    BY <1>3
  <2> HIDE DEF w
  <2>3. [w EXCEPT !.count = n] =
           [pc |-> "store", storeId |-> old.storeId, now |-> old.now, sub |-> old.sub,
            key |-> old.key, count |-> n]
    BY <2>2
  <2> QED
    BY <2>1, <2>3 DEF old
<1> HIDE DEF old, w
<1>5. home' = home
  BY <1>1 DEF home
<1>6. HomeOK' /\ UsageOfThisPeriod' /\ CacheOK(home.orders)'
  BY <1>1, <1>5 DEF ScreensInv, HomeOK, UsageOfThisPeriod, CacheOK
<1>7. AskOK(home.orders)'
  <2>1. ask.key = <<ask.storeId, ask.sub.currentPeriodStart>>
    BY <1>1 DEF ScreensInv, AskOK
  <2> QED
    BY <1>2, <1>4, <1>5, <2>1 DEF AskOK
<1> QED
  BY <1>6, <1>7 DEF ScreensInv

LEMMA AnswerStep == ASSUME ScreensInv, Answer PROVE ScreensInv'
<1> DEFINE start == ask.sub.currentPeriodStart
<1>1. /\ ask.pc \in {"store", "answer"} /\ ask' = Idle /\ UNCHANGED dbs
      /\ usage' = IF ask.pc = "store" THEN setUsage(usage, ask.key, ask.count, ask.now) ELSE usage
      /\ shown' = Page(ask.storeId, ask.sub, ask.now, ask.count)
  BY DEF Answer
<1>2. ask.key = <<ask.storeId, start>> /\ CountOK(ask.count, ask.storeId, start, home.orders)
  BY <1>1 DEF ScreensInv, AskOK
<1>3. home' = home
  BY <1>1 DEF home
<1>4. /\ shown'.storeId = ask.storeId /\ shown'.subscription = ask.sub
      /\ shown'.usage.count = ask.count
  <2> DEFINE cap == resolveEntitlements(ask.sub, ask.now, FALSE).orderCap
  <2>1. usageStatus(ask.count, cap).count = ask.count
    BY DEF usageStatus
  <2>2. /\ shown'.storeId = ask.storeId /\ shown'.subscription = ask.sub
        /\ shown'.usage = usageStatus(ask.count, cap)
    BY <1>1 DEF Page
  <2> QED
    BY <2>1, <2>2
<1>5. UsageOfThisPeriod'
  BY <1>2, <1>3, <1>4 DEF UsageOfThisPeriod, CountOK, LiveSince
<1>6. CacheOK(home.orders)'
  <2>1. CASE ask.pc = "store"
    <3> DEFINE entry == [value |-> ask.count, expiresAt |-> ask.now + USAGE_TTL]
    <3>1. /\ DOMAIN usage' = DOMAIN usage \cup {ask.key} /\ usage'[ask.key] = entry
          /\ \A k \in DOMAIN usage \ {ask.key} : usage'[k] = usage[k]
      BY <1>1, <2>1 DEF setUsage
    <3>2. entry.value = ask.count /\ ask.key[1] = ask.storeId /\ ask.key[2] = start
      BY <1>2
    <3> HIDE DEF entry, start
    <3> QED
      BY <1>2, <1>3, <3>1, <3>2 DEF ScreensInv, CacheOK
  <2>2. CASE ask.pc # "store"
    BY <1>1, <1>3, <2>2 DEF ScreensInv, CacheOK
  <2> QED
    BY <2>1, <2>2
<1>7. HomeOK' /\ AskOK(home.orders)'
  BY <1>1, <1>3 DEF ScreensInv, HomeOK, AskOK, Idle
<1> QED
  BY <1>5, <1>6, <1>7 DEF ScreensInv

LEMMA OtherStep ==
    ASSUME ScreensInv, UNCHANGED dbs, \/ UNCHANGED usage
                                     \/ usage' = [k \in {} |-> 0],
           UNCHANGED ask \/ ask'.pc \in {"idle", "find"}, shown' = Null \/ UNCHANGED shown
    PROVE  ScreensInv'
<1>1. home' = home
  BY DEF home
<1>2. HomeOK' /\ UsageOfThisPeriod'
  BY <1>1 DEF ScreensInv, HomeOK, UsageOfThisPeriod
<1>3. CacheOK(home.orders)'
  BY <1>1 DEF ScreensInv, CacheOK
<1>4. AskOK(home.orders)'
  BY <1>1 DEF ScreensInv, AskOK
<1> QED
  BY <1>2, <1>3, <1>4 DEF ScreensInv

LEMMA ScreensStep == ScreensInv /\ [Next]_vars => ScreensInv'
<1> SUFFICES ASSUME ScreensInv, [Next]_vars PROVE ScreensInv'
  OBVIOUS
<1>1. CASE Integration
  BY <1>1, IntegrationStep
<1>2. ASSUME NEW s \in Stores, Ask(s) PROVE ScreensInv'
  BY <1>2, OtherStep DEF Ask
<1>3. CASE Find
  BY <1>3, FindStep
<1>4. CASE Count
  BY <1>4, CountStep
<1>5. CASE Answer
  BY <1>5, AnswerStep
<1>6. CASE Restart
  BY <1>6, OtherStep DEF Restart, Idle
<1>7. CASE Tick
  BY <1>7, OtherStep DEF Tick
<1>8. CASE UNCHANGED vars
  BY <1>8, OtherStep DEF vars
<1> QED
  BY <1>1, <1>2, <1>3, <1>4, <1>5, <1>6, <1>7, <1>8 DEF Next

\* For every lifetime of a cached count and every length of a period, whatever
\* orders and billing events are written between the awaits of a request, and
\* however stale the count in the cache: a merchant is never shown orders from
\* before the period the page is about.
THEOREM UsageCorrect == Spec => []UsageOfThisPeriod
<1>1. ScreensInv => UsageOfThisPeriod
  BY DEF ScreensInv
<1> QED
  BY <1>1, ScreensInit, ScreensStep, PTL DEF Spec

=============================================================================
