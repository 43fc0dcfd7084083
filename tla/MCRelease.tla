------------------------------ MODULE MCRelease ------------------------------
EXTENDS Release

MCZoneOffset == [z \in {"Asia/Riyadh"} |-> 3]

MCShellNames == [e \in {"staging", "production"} |->
                    IF e = "staging" THEN {"staging", None} ELSE {"production", "Production"}]

\* A catalogue that agrees, and ways for it not to.
Listing(code) == [platformPlanId |-> code, planCode |-> code, priceMinor |-> PLANS[code].priceMinor,
                  interval |-> PLANS[code].interval]
Agreed == {Listing(code) : code \in PURCHASABLE_PLAN_CODES}
MCCatalogues ==
    { Agreed,
      (Agreed \ {Listing("growth")}) \union {[Listing("growth") EXCEPT !.priceMinor = 19900]},
      (Agreed \ {Listing("scale")}) \union {[Listing("starter") EXCEPT !.platformPlanId = "starter-2"]} }

Demo == [storeId |-> SEED_STORE_ID]
Of(order, row) == With(With([orderId |-> order], Demo), row)
On(table, row) == Statement(table, {row})

MCServiceRows ==
    << On("platformCredentials", Demo),
       On("webhookEvents", With(Demo, [id |-> 1, platformEventId |-> 1, status |-> "processing", attempts |-> 1, lockedAt |-> 3])),
       On("backfillCursors", With(Demo, [resource |-> "orders", status |-> "running"])),
       On("variants", With(Demo, [platformProductId |-> "P1", platformVariantId |-> "V1"])),
       On("orderDiscounts", [id |-> 1, orderId |-> 1001, discountIndex |-> 0, target |-> "items", amount |-> 0]),
       On("shipmentLines", [shipmentId |-> 1, orderItemId |-> 1001, quantity |-> 2]),
       On("reversals", Of(1001, [id |-> 1, kind |-> "refund", reason |-> "customer_return", amount |-> 3000, shippingRefund |-> 0,
                                 codFeeRefund |-> 0, adjustment |-> 0, vat |-> 450, total |-> 3450,
                                 restockOutcome |-> "unknown"])),
       On("reversalLines", [reversalId |-> 1, orderItemId |-> 1001, quantity |-> 1, restockOutcome |-> "pending_receipt"]),
       On("orderProfit", Of(1001, [status |-> "computed", recognition |-> "recognized", margin |-> 921, currency |-> "SAR",
                                   businessDate |-> 59, restocked |-> 0, cogs |-> 4800,
                                   feeRuleSetId |-> SEED_FEE_RULE_SET_ID])),
       On("orderProfitLines", Of(1001, [orderItemId |-> 1001, quantity |-> 2, costSource |-> "merchant_manual",
                                        revenue |-> 6000, cogs |-> 4800, costs |-> 279, restocked |-> 0, impact |-> 0,
                                        margin |-> 921])),
       On("dailyStoreRollup", With(Demo, [businessDate |-> 59])),
       On("dailyVariantRollup", With(Demo, [businessDate |-> 59, platformProductId |-> "P1", platformVariantId |-> ""])),
       On("storeSubscription", With(Demo, [status |-> "trialing", currentPeriodStart |-> 0, currentPeriodEnd |-> 720,
                                           pendingPlanCode |-> None, pendingPlanEffectiveAt |-> None])) >>
=============================================================================
