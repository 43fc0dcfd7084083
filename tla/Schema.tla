-------------------------------- MODULE Schema --------------------------------
(***************************************************************************)
(* The tables every platform's service shares (db/schema.ts): of each, what *)
(* identifies a row, which rows it refers to and what a DELETE of those does *)
(* to it, and the CHECKs on it.  Columns no constraint mentions are left    *)
(* out.  The database that enforces the declarations is external.           *)
(*                                                                          *)
(* A table is an operator from a row to what the schema says of that row:   *)
(* its primary key, the UNIQUE constraints it takes a place in, the rows it *)
(* refers to, and whether its CHECKs pass.  A null takes part in a UNIQUE   *)
(* like any value: the only ones over nullable columns are the fee rules'   *)
(* keys, declared nullsNotDistinct.                                         *)
(***************************************************************************)
EXTENDS Integers, FiniteSets, Sequences

CONSTANT None   \* SQL's NULL

Row(key, unique, refs, checks) == [key |-> key, unique |-> unique, refs |-> refs, checks |-> checks]

Ref(column, table, key, onDelete) == [column |-> column, table |-> table, key |-> key, onDelete |-> onDelete]
Cascade(column, table, key) == {Ref(column, table, key, "cascade")}
SetNull(column, table, key) == IF key = None THEN {} ELSE {Ref(column, table, key, "set null")}
OfStore(r) == Cascade("storeId", "stores", r.storeId)
OfOrder(r) == Cascade("orderId", "orders", r.orderId)

nonNegative(value) == value >= 0
OrNull(value, values) == value \in values \union {None}
Bps(value) == value \in 0 .. 10000
\* A window that is open, or ends after it begins.
WindowOrdered(r) == r.effectiveTo = None \/ r.effectiveTo > r.effectiveFrom

CURRENCY_CODES      == {"SAR", "AED", "KWD", "BHD", "USD"}
ORDER_LIFECYCLES    == {"draft", "open", "completed", "cancelled"}
PAYMENT_STATES      == {"unpaid", "authorized", "paid", "partially_refunded", "refunded", "voided", "failed"}
FULFILLMENT_STATES  == {"unfulfilled", "partially_fulfilled", "in_transit", "delivered", "returned", "rto",
                        "not_applicable"}
FULFILLMENT_METHODS == {"carrier", "pickup", "self_delivery", "digital", "other"}
PAYMENT_INSTRUMENTS == {"card", "bnpl", "wallet", "cod", "bank_transfer", "free", "unknown", "other"}
CARD_SCHEMES        == {"mada", "visa", "mastercard", "amex", "unionpay", "other", "unknown"}
PAYMENT_LEG_STATES  == {"pending", "authorized", "captured", "failed", "refunded"}
SHIPMENT_DIRECTIONS == {"outbound", "return"}
SHIPMENT_STATUSES   == {"created", "in_transit", "out_for_delivery", "delivered", "failed_attempt",
                        "returned_to_origin", "cancelled", "lost", "unknown"}
RESTOCK_OUTCOMES    == {"restocked_sellable", "restocked_damaged", "not_restocked", "pending_receipt",
                        "not_applicable", "unknown"}
REVERSAL_REASONS    == {"customer_return", "damaged_or_defective", "wrong_item", "cancelled_before_dispatch",
                        "goodwill_or_price_adjustment", "chargeback", "other", "unknown"}
DEVICES             == {"desktop", "mobile", "tablet", "unknown"}
COST_SOURCES        == {"merchant_manual", "merchant_bulk_import", "platform", "category_default", "none"}
FEE_SOURCES         == {"merchant_entered", "gateway_statement", "default_table"}

-----------------------------------------------------------------------------
(* Stores and what they are connected by                                    *)

stores(r) == Row(r.id, {<<"platform_store", r.platform, r.platformStoreId>>}, {},
                 r.currency \in CURRENCY_CODES /\ Bps(r.vatRateBps))

platformCredentials(r) == Row(r.storeId, {}, OfStore(r), TRUE)

\* Faulty variant: the reference says nothing of deletions, so a store with a history cannot go.
webhookEventsPinned(r) ==
    Row(r.id, {<<"store_event", r.storeId, r.platformEventId>>},
        {Ref("storeId", "stores", r.storeId, "no action")},
        nonNegative(r.attempts) /\ (r.status = "processing") = (r.lockedAt # None))

webhookEvents(r) ==
    Row(r.id, {<<"store_event", r.storeId, r.platformEventId>>}, OfStore(r),
        /\ nonNegative(r.attempts)
        /\ r.status \in {"pending", "processing", "processed", "failed", "skipped"}
        /\ (r.status = "processing") = (r.lockedAt # None))

backfillCursors(r) ==
    Row(<<r.storeId, r.resource>>, {}, OfStore(r),
        r.resource \in {"orders", "products"} /\ r.status \in {"running", "paused", "complete", "failed"})

-----------------------------------------------------------------------------
(* The catalogue and its costs                                              *)

products(r) == Row(<<r.storeId, r.platformProductId>>, {}, OfStore(r), TRUE)

variants(r) == Row(<<r.storeId, r.platformProductId, r.platformVariantId>>, {}, OfStore(r), TRUE)

costHistory(r) == Row(r.id, {}, OfStore(r),
                      r.source \in COST_SOURCES /\ nonNegative(r.unitCost) /\ WindowOrdered(r))

-----------------------------------------------------------------------------
(* Fee rules                                                                *)

feeRuleSets(r) == Row(r.id, {}, OfStore(r), r.currency \in CURRENCY_CODES /\ WindowOrdered(r))

OfRuleSet(r) == Cascade("feeRuleSetId", "feeRuleSets", r.feeRuleSetId)

feeFormulaChecks(r) ==
    /\ nonNegative(r.percentBps) /\ nonNegative(r.fixed) /\ Bps(r.feeVatBps)
    /\ r.min # None /\ r.max # None => r.min <= r.max
    /\ r.source \in FEE_SOURCES

gatewayFeeRules(r) ==
    Row(r.id, {<<"key", r.feeRuleSetId, r.instrument, r.scheme, r.provider>>}, OfRuleSet(r),
        OrNull(r.instrument, PAYMENT_INSTRUMENTS) /\ OrNull(r.scheme, CARD_SCHEMES) /\ feeFormulaChecks(r))

codFeeRules(r) == Row(r.id, {<<"key", r.feeRuleSetId, r.carrier>>}, OfRuleSet(r), feeFormulaChecks(r))

shippingFallbackRules(r) ==
    Row(r.id, {<<"key", r.feeRuleSetId, r.country, r.region, r.carrier, r.direction>>}, OfRuleSet(r),
        nonNegative(r.cost) /\ r.direction \in SHIPMENT_DIRECTIONS \union {"any"})

-----------------------------------------------------------------------------
(* Orders                                                                   *)

orders(r) ==
    Row(r.id, {<<"store_platform_order", r.storeId, r.platformOrderId>>}, OfStore(r),
        /\ r.currency \in CURRENCY_CODES /\ Bps(r.vatRateBps)
        /\ r.lifecycle \in ORDER_LIFECYCLES /\ r.paymentState \in PAYMENT_STATES
        /\ r.fulfillmentState \in FULFILLMENT_STATES /\ r.fulfillmentMethod \in FULFILLMENT_METHODS
        /\ r.ingestionSource \in {"live", "backfill"} /\ OrNull(r.device, DEVICES))

orderItems(r) ==
    Row(r.id, {<<"order_line", r.orderId, r.platformLineId>>},
        OfOrder(r) \union OfStore(r) \union SetNull("costHistoryId", "costHistory", r.costHistoryId),
        /\ nonNegative(r.quantity) /\ r.costSource \in COST_SOURCES
        /\ r.lineTotal = r.gross - r.lineDiscount)

orderPayments(r) ==
    Row(r.id, {<<"order_leg", r.orderId, r.legIndex>>}, OfOrder(r),
        /\ r.instrument \in PAYMENT_INSTRUMENTS /\ r.state \in PAYMENT_LEG_STATES
        /\ (r.instrument = "card") = (r.scheme # None) /\ OrNull(r.scheme, CARD_SCHEMES))

orderDiscounts(r) ==
    Row(r.id, {<<"order_index", r.orderId, r.discountIndex>>}, OfOrder(r),
        r.target \in {"items", "shipping", "cod_fee"} /\ nonNegative(r.amount))

shipments(r) ==
    Row(r.id, {<<"store_platform_shipment", r.storeId, r.platformShipmentId>>}, OfOrder(r) \union OfStore(r),
        r.direction \in SHIPMENT_DIRECTIONS /\ r.status \in SHIPMENT_STATUSES)

shipmentLines(r) ==
    Row(<<r.shipmentId, r.orderItemId>>, {},
        Cascade("shipmentId", "shipments", r.shipmentId) \union Cascade("orderItemId", "orderItems", r.orderItemId),
        nonNegative(r.quantity))

reversals(r) ==
    Row(r.id, {}, OfOrder(r) \union OfStore(r),
        /\ r.kind \in {"refund", "void", "chargeback"} /\ r.reason \in REVERSAL_REASONS
        /\ r.restockOutcome \in RESTOCK_OUTCOMES
        /\ r.total = r.amount + r.shippingRefund + r.codFeeRefund + r.adjustment + r.vat)

reversalLines(r) ==
    Row(<<r.reversalId, r.orderItemId>>, {},
        Cascade("reversalId", "reversals", r.reversalId) \union Cascade("orderItemId", "orderItems", r.orderItemId),
        nonNegative(r.quantity) /\ r.restockOutcome \in RESTOCK_OUTCOMES)

-----------------------------------------------------------------------------
(* What is computed from them                                               *)

orderProfit(r) ==
    Row(r.orderId, {},
        OfOrder(r) \union OfStore(r) \union SetNull("feeRuleSetId", "feeRuleSets", r.feeRuleSetId),
        /\ r.status \in {"computed", "rejected"}
        /\ r.recognition \in {"recognized", "cost_only", "excluded"}
        /\ (r.status = "computed") = (r.margin # None)
        /\ (r.status = "computed") = (r.currency # None /\ r.businessDate # None)
        /\ r.restocked = None \/ r.restocked <= r.cogs)

\* A line refers to its order's profit; its item is a plain column.
orderProfitLines(r) ==
    Row(<<r.orderId, r.orderItemId>>, {}, Cascade("orderId", "orderProfit", r.orderId) \union OfStore(r),
        /\ r.costSource \in COST_SOURCES /\ nonNegative(r.quantity)
        /\ r.restocked <= r.cogs
        /\ r.margin = r.revenue - r.cogs - r.costs + r.impact)   \* its three revenues; its four other costs

dailyStoreRollup(r) == Row(<<r.storeId, r.businessDate>>, {}, OfStore(r), TRUE)

dailyVariantRollup(r) ==
    Row(<<r.storeId, r.businessDate, r.platformProductId, r.platformVariantId>>, {}, OfStore(r), TRUE)

storeSubscription(r) ==
    Row(r.storeId, {}, OfStore(r),
        /\ r.status \in {"trialing", "active", "past_due", "canceled", "expired"}
        /\ r.currentPeriodEnd > r.currentPeriodStart
        /\ (r.pendingPlanCode = None) = (r.pendingPlanEffectiveAt = None))

-----------------------------------------------------------------------------
(* The database that enforces them: its content is a set of rows per table. *)

Tables == { "stores", "platformCredentials", "webhookEvents", "backfillCursors", "products", "variants",
            "costHistory", "feeRuleSets", "gatewayFeeRules", "codFeeRules", "shippingFallbackRules", "orders",
            "orderItems", "orderPayments", "orderDiscounts", "shipments", "shipmentLines", "reversals",
            "reversalLines", "orderProfit", "orderProfitLines", "dailyStoreRollup", "dailyVariantRollup",
            "storeSubscription" }

Said(t, r) ==
    CASE t = "stores" -> stores(r)                     [] t = "platformCredentials" -> platformCredentials(r)
      [] t = "webhookEvents" -> webhookEvents(r)       [] t = "backfillCursors" -> backfillCursors(r)
      [] t = "products" -> products(r)                 [] t = "variants" -> variants(r)
      [] t = "costHistory" -> costHistory(r)           [] t = "feeRuleSets" -> feeRuleSets(r)
      [] t = "gatewayFeeRules" -> gatewayFeeRules(r)   [] t = "codFeeRules" -> codFeeRules(r)
      [] t = "shippingFallbackRules" -> shippingFallbackRules(r)
      [] t = "orders" -> orders(r)                     [] t = "orderItems" -> orderItems(r)
      [] t = "orderPayments" -> orderPayments(r)       [] t = "orderDiscounts" -> orderDiscounts(r)
      [] t = "shipments" -> shipments(r)               [] t = "shipmentLines" -> shipmentLines(r)
      [] t = "reversals" -> reversals(r)               [] t = "reversalLines" -> reversalLines(r)
      [] t = "orderProfit" -> orderProfit(r)           [] t = "orderProfitLines" -> orderProfitLines(r)
      [] t = "dailyStoreRollup" -> dailyStoreRollup(r) [] t = "dailyVariantRollup" -> dailyVariantRollup(r)
      [] t = "storeSubscription" -> storeSubscription(r)

Empty == [t \in Tables |-> {}]

Holds(db, ref) == \E r \in db[ref.table] : Said(ref.table, r).key = ref.key

\* One INSERT of several rows: all of them or, on any violated constraint, none.
Accepts(db, t, new) ==
    LET all == db[t] \union new
    IN  /\ new \intersect db[t] = {}
        /\ \A r \in new :
            LET said == Said(t, r)
            IN  /\ said.checks
                /\ \A ref \in said.refs : Holds([db EXCEPT ![t] = all], ref)
                /\ \A other \in all \ {r} : /\ Said(t, other).key # said.key
                                            /\ Said(t, other).unique \intersect said.unique = {}

Insert(db, t, new) == [db EXCEPT ![t] = @ \union new]

\* The rows that go with a row: those that refer to a row that goes, by a cascade.
RefersTo(r, t, gone, rule) ==
    \E ref \in Said(t, r).refs : ref.onDelete = rule /\ \E x \in gone[ref.table] : Said(ref.table, x).key = ref.key

Going(db, victims) ==
    LET Levels[n \in Nat] ==
            IF n = 0 THEN victims
            ELSE LET gone == Levels[n - 1]
                 IN  [t \in Tables |-> gone[t] \union {r \in db[t] : RefersTo(r, t, gone, "cascade")}]
    IN  Levels[4]   \* stores - orders - orderProfit - its lines is the longest chain

\* DELETE of one row: refused while a row that stays must refer to one that goes.
Deletable(db, t, row) ==
    LET gone == Going(db, [Empty EXCEPT ![t] = {row}])
    IN  \A u \in Tables : \A r \in db[u] \ gone[u] : ~RefersTo(r, u, gone, "no action")

Delete(db, t, row) ==
    LET gone == Going(db, [Empty EXCEPT ![t] = {row}])
        Cleared(r, refs) == [c \in DOMAIN r |-> IF c \in {ref.column : ref \in refs} THEN None ELSE r[c]]
        Left(u, r) == Cleared(r, {ref \in Said(u, r).refs :
                                     ref.onDelete = "set null" /\ RefersTo(r, u, gone, "set null")})
    IN  [u \in Tables |-> {Left(u, r) : r \in db[u] \ gone[u]}]
=============================================================================
