------------------------------ MODULE MCScreens ------------------------------
(***************************************************************************)
(* Two platforms.  Store 1 of platform p is on an annual plan whose monthly  *)
(* rate does not come out even and has an order on the first instant of its  *)
(* period; q's store 3 is on the same plan, with one event in twenty failed,  *)
(* or is on a plan this build does not know beside a store that is over its  *)
(* cap.                                                                      *)
(***************************************************************************)
EXTENDS Screens

Row(plan, status, trialEnd, end) ==
    [planCode |-> plan, platformPlanId |-> Null, status |-> status, trialEndsAt |-> trialEnd,
     currentPeriodStart |-> 0, currentPeriodEnd |-> end, lastEventAt |-> 0,
     lastReconciledAt |-> Null, pendingPlanCode |-> Null, pendingPlanEffectiveAt |-> Null]

Db(s, sub, placed, failures, buckets) ==   \* so many orders placed at 0
    [stores |-> s :> [installedAt |-> 0, uninstalledAt |-> Null],
     subs |-> s :> sub,
     events |-> {[id |-> 10 * s + i, storeId |-> s, status |-> "failed", receivedAt |-> 0,
                  lockedAt |-> Null] : i \in 1 .. failures},
     backfills |-> {},
     orders |-> {[id |-> 10 * s + i, storeId |-> s, placedAt |-> 0, live |-> TRUE,
                  isTest |-> FALSE] : i \in 1 .. placed},
     payments |-> {},
     rollups |-> {[storeId |-> s, businessDate |-> 0, revenue |-> 300, covered |-> 50,
                   ordersCount |-> 1, dirty |-> FALSE] : i \in 1 .. buckets}]

Worked(db, s, n) ==   \* so many events processed
    [db EXCEPT !.events = @ \cup {[id |-> 100 * s + i, storeId |-> s, status |-> "processed",
                                   receivedAt |-> 0, lockedAt |-> Null] : i \in 1 .. n}]

Both(a, b) == [stores |-> a.stores @@ b.stores, subs |-> a.subs @@ b.subs] @@
              [t \in DOMAIN a \ {"stores", "subs"} |-> a[t] \cup b[t]]

MCSamples ==
    {[p |-> Db(1, Row("scale_annual", "active", Null, 2), 1, 1, 0), q |-> other] :
        other \in {Worked(Db(3, Row("scale_annual", "active", Null, 2), 0, 1, 1), 3, 19),
                   Both(Db(3, Row("unheard_of", "past_due", Null, 2), 1, 2, 0),
                        Db(4, Row("starter", "active", Null, 2), 2, 0, 1))}}

MCPlanChanges == {[status |-> "active", planCode |-> "scale_annual"],
                  [status |-> "trialing", planCode |-> "starter"],
                  [status |-> "past_due", planCode |-> Null],
                  [status |-> "canceled", planCode |-> Null]}

MCOrderKinds == {[live |-> TRUE, isTest |-> FALSE, legs |-> 2],
                 [live |-> TRUE, isTest |-> TRUE, legs |-> 1],
                 [live |-> FALSE, isTest |-> FALSE, legs |-> 1]}

=============================================================================
