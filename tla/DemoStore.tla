------------------------------ MODULE DemoStore ------------------------------
(***************************************************************************)
(* The demo store a release is verified against (db/seeds/demo-store.ts):   *)
(* eleven INSERTs in a fixed order, each its own statement, and the margins  *)
(* the engine must find in the rows they leave.  Amounts are in tens of      *)
(* halalas, of which every seeded amount is a multiple, so that products of  *)
(* two of them stay within TLC's integers.  Instants are counted in hours    *)
(* from the first of January.                                                *)
(***************************************************************************)
EXTENDS Schema, SequencesExt

CONSTANTS MaxMinor, Currencies, ZoneOffset   \* of the engine

Engine == INSTANCE ProfitEngine WITH Null <- None

SEED_STORE_ID        == "demo:1"
SEED_FEE_RULE_SET_ID == "demo:frs:1"

\* What the smoke test asserts of the three orders.
SEED_EXPECTATIONS == [prepaid |-> 921, refusedCod |-> -440, uncosted |-> "incomplete"]

seedStores ==
    {[ id |-> SEED_STORE_ID, platform |-> "demo", platformStoreId |-> 1, currency |-> "SAR",
       timezone |-> "Asia/Riyadh", vatRateBps |-> 1500, vatRegistered |-> TRUE ]}

seedFeeRuleSets ==
    {[id |-> SEED_FEE_RULE_SET_ID, storeId |-> SEED_STORE_ID, currency |-> "SAR", effectiveFrom |-> 0,
      effectiveTo |-> None]}

Fee(bps, fixed, max) ==
    [ percentBps |-> bps, fixed |-> fixed, min |-> None, max |-> max, feeVatBps |-> 1500,
      ratesIncludeVat |-> FALSE, source |-> "default_table", feeRuleSetId |-> SEED_FEE_RULE_SET_ID ]

With(f, g) == [c \in DOMAIN f \union DOMAIN g |-> IF c \in DOMAIN f THEN f[c] ELSE g[c]]

seedGatewayFeeRules ==
    { With([id |-> "mada", instrument |-> "card", scheme |-> "mada", provider |-> None], Fee(100, 0, 2000)),
      With([id |-> "visa", instrument |-> "card", scheme |-> "visa", provider |-> None], Fee(275, 10, None)) }

seedCodFeeRules == {With([id |-> "any", carrier |-> None], Fee(200, 80, None))}

seedShippingFallbackRules ==
    {[ id |-> "any", feeRuleSetId |-> SEED_FEE_RULE_SET_ID, country |-> None, region |-> None, carrier |-> None,
       direction |-> "any", cost |-> 220 ]}

seedProducts == {[storeId |-> SEED_STORE_ID, platformProductId |-> p] : p \in {"P1", "P2"}}

\* P2 has no cost row, like every product on the day of the install.
seedCostHistory ==
    {[ id |-> "ch:P1", storeId |-> SEED_STORE_ID, platformProductId |-> "P1", platformVariantId |-> None,
       sku |-> "SKU-1", unitCost |-> 2400, source |-> "merchant_manual", effectiveFrom |-> 0, effectiveTo |-> None ]}

seedOrders ==
    LET Order(n, payment, fulfillment, subtotal, vat) ==
            [ id |-> n, storeId |-> SEED_STORE_ID, platformOrderId |-> n, placedAt |-> 1434, lifecycle |-> "open",
              paymentState |-> payment, fulfillmentState |-> fulfillment, isTest |-> FALSE,
              fulfillmentMethod |-> "carrier", country |-> "SA", region |-> "riyadh", currency |-> "SAR",
              vatRateBps |-> 1500, subtotal |-> subtotal, vat |-> vat, shipping |-> 0, codFee |-> 0,
              total |-> subtotal + vat, ingestionSource |-> "live", device |-> None ]
    IN  { Order(1001, "paid", "delivered", 6000, 900), Order(1002, "unpaid", "rto", 3000, 450),
          Order(1003, "paid", "delivered", 3000, 450) }

seedOrderItems ==
    LET Item(order, product, sku, quantity, cost, source, costRow) ==
            [ id |-> order, orderId |-> order, storeId |-> SEED_STORE_ID, platformLineId |-> "L1",
              platformProductId |-> product, platformVariantId |-> None, sku |-> sku, quantity |-> quantity,
              unitPrice |-> 3000, gross |-> 3000 * quantity, lineDiscount |-> 0, lineTotal |-> 3000 * quantity,
              costAtTime |-> cost, costSource |-> source, costHistoryId |-> costRow ]
    IN  { Item(1001, "P1", "SKU-1", 2, 2400, "merchant_manual", "ch:P1"),
          Item(1002, "P1", "SKU-1", 1, 2400, "merchant_manual", "ch:P1"),
          Item(1003, "P2", "SKU-2", 1, None, "none", None) }

seedOrderPayments ==
    LET Leg(order, instrument, scheme, state, amount) ==
            [ id |-> order, orderId |-> order, legIndex |-> 0, instrument |-> instrument, scheme |-> scheme,
              provider |-> None, state |-> state, amount |-> amount ]
    IN  { Leg(1001, "card", "mada", "captured", 6900), Leg(1002, "cod", None, "pending", 3450),
          Leg(1003, "card", "mada", "captured", 3450) }

Parcel(n, order, direction, status, cost) ==
    [ id |-> n, orderId |-> order, storeId |-> SEED_STORE_ID, platformShipmentId |-> n, direction |-> direction,
      status |-> status, carrier |-> "demo_courier", carrierCost |-> cost ]

seedShipments ==
    { Parcel(1, 1001, "outbound", "delivered", 210), Parcel(2, 1002, "outbound", "returned_to_origin", 220),
      Parcel(3, 1002, "return", "returned_to_origin", 220), Parcel(4, 1003, "outbound", "delivered", 210) }

Statement(table, rows) == [table |-> table, rows |-> rows]

\* Faulty variant: the cost rows after the items that were costed by them.
seedDemoStoreCostsLate ==
    << Statement("stores", seedStores), Statement("feeRuleSets", seedFeeRuleSets),
       Statement("gatewayFeeRules", seedGatewayFeeRules), Statement("codFeeRules", seedCodFeeRules),
       Statement("shippingFallbackRules", seedShippingFallbackRules), Statement("products", seedProducts),
       Statement("orders", seedOrders), Statement("orderItems", seedOrderItems),
       Statement("costHistory", seedCostHistory), Statement("orderPayments", seedOrderPayments),
       Statement("shipments", seedShipments) >>

seedDemoStore ==
    << Statement("stores", seedStores), Statement("feeRuleSets", seedFeeRuleSets),
       Statement("gatewayFeeRules", seedGatewayFeeRules), Statement("codFeeRules", seedCodFeeRules),
       Statement("shippingFallbackRules", seedShippingFallbackRules), Statement("products", seedProducts),
       Statement("costHistory", seedCostHistory), Statement("orders", seedOrders),
       Statement("orderItems", seedOrderItems), Statement("orderPayments", seedOrderPayments),
       Statement("shipments", seedShipments) >>

-----------------------------------------------------------------------------
(* The smoke test: a seeded order read back from the tables and computed.    *)

computeSeededOrder(db, n) ==
    LET Sorted(rows) == SetToSortSeq(rows, LAMBDA a, b : a.id < b.id)
        Listed(rows) == SetToSeq(rows)
        Of(table)    == {r \in db[table] : r.orderId = n}
        InSet(table) == {r \in db[table] : r.feeRuleSetId = SEED_FEE_RULE_SET_ID}
        store        == CHOOSE r \in db["stores"] : r.id = SEED_STORE_ID
        order        == CHOOSE r \in db["orders"] : r.id = n
        Item(r)      == [ id |-> r.id, orderId |-> n, lineId |-> r.platformLineId, product |-> r.platformProductId,
                          variant |-> r.platformVariantId, sku |-> r.sku, quantity |-> r.quantity,
                          unitPrice |-> r.unitPrice, gross |-> r.gross, lineDiscount |-> r.lineDiscount,
                          lineTotal |-> r.lineTotal ]
        Cost(r)      == [ product |-> r.platformProductId, variant |-> r.platformVariantId, sku |-> r.sku,
                          unitCost |-> r.unitCost, source |-> r.source ]
    IN  Engine!computeOrderProfit(
          [ store     |-> [currency |-> "SAR", timezone |-> store.timezone, vatRegistered |-> store.vatRegistered],
            order     |-> With([payments |-> Sorted(Of("orderPayments")), discounts |-> <<>>], order),
            items     |-> Listed({Item(r) : r \in Of("orderItems")}),
            shipments |-> Sorted({With([lineIds |-> {}], r) : r \in Of("shipments")}),
            reversals |-> <<>>,
            costs     |-> Listed({Cost(r) : r \in {c \in db["costHistory"] : c.storeId = SEED_STORE_ID}}),
            rules     |-> [ currency |-> "SAR", gateway |-> Listed(InSet("gatewayFeeRules")),
                            cod |-> Listed(InSet("codFeeRules")),
                            shipping |-> Listed(InSet("shippingFallbackRules")) ] ])

SmokeTestPasses(db) ==
    /\ computeSeededOrder(db, 1001).totals.margin = SEED_EXPECTATIONS.prepaid
    /\ computeSeededOrder(db, 1002).totals.margin = SEED_EXPECTATIONS.refusedCod
    /\ computeSeededOrder(db, 1003).confidence.level = SEED_EXPECTATIONS.uncosted
=============================================================================
