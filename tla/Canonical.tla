------------------------------ MODULE Canonical ------------------------------
(***************************************************************************)
(* The canonical schemas (packages/schemas): which records an adapter may   *)
(* hand over.  They are written apart from the engine's own validation and  *)
(* guard the same records; each is the predicate that `safeParse` decides.  *)
(* Free text, slugs, ids and the fields the engine never reads (quantities  *)
(* in a parcel, the platform's own instants) are left out.                  *)
(***************************************************************************)
EXTENDS ProfitEngine

Vocabulary == INSTANCE Schema WITH None <- Null   \* the enumerations of packages/contracts

MinorSchema(value) == validMinor(value)
RateBpsSchema(value) == value \in 0 .. BpsUnit
InstantSchema(value) == value # Null
QuantitySchema(value) == value \in Nat

CanonicalStoreSchema(store) ==
    store.currency \in Currencies /\ store.timezone # Null /\ RateBpsSchema(store.vatRateBps)

\* A card names its scheme, and nothing else has one.
PaymentBreakdownSchema(leg) ==
    /\ leg.instrument \in Vocabulary!PAYMENT_INSTRUMENTS /\ leg.state \in Vocabulary!PAYMENT_LEG_STATES
    /\ Vocabulary!OrNull(leg.scheme, Vocabulary!CARD_SCHEMES)
    /\ MinorSchema(leg.amount)
    /\ (leg.scheme = Null) = (leg.instrument # "card")

OrderDiscountSchema(discount) ==
    discount.target \in {"items", "shipping", "cod_fee"} /\ MinorSchema(discount.amount)

CanonicalOrderSchema(order) ==
    /\ InstantSchema(order.placedAt)
    /\ order.lifecycle \in Vocabulary!ORDER_LIFECYCLES /\ order.paymentState \in Vocabulary!PAYMENT_STATES
    /\ order.fulfillmentState \in Vocabulary!FULFILLMENT_STATES
    /\ order.fulfillmentMethod \in Vocabulary!FULFILLMENT_METHODS
    /\ order.currency \in Currencies /\ RateBpsSchema(order.vatRateBps)
    /\ \A amount \in {order.subtotal, order.vat, order.shipping, order.codFee, order.total} : MinorSchema(amount)
    /\ \A discount \in ToSet(order.discounts) : OrderDiscountSchema(discount)
    /\ \A leg \in ToSet(order.payments) : PaymentBreakdownSchema(leg)

CanonicalOrderItemSchema(item) ==
    /\ QuantitySchema(item.quantity)
    /\ \A amount \in {item.unitPrice, item.gross, item.lineDiscount, item.lineTotal} : MinorSchema(amount)
    /\ item.lineTotal = item.gross - item.lineDiscount

CanonicalShipmentSchema(shipment) ==
    /\ shipment.direction \in Vocabulary!SHIPMENT_DIRECTIONS /\ shipment.status \in Vocabulary!SHIPMENT_STATUSES
    /\ shipment.carrierCost # Null => MinorSchema(shipment.carrierCost)

CanonicalReversalLineSchema(line) ==
    QuantitySchema(line.quantity) /\ MinorSchema(line.amount) /\ line.restock \in Vocabulary!RESTOCK_OUTCOMES

ReversalFieldsParse(reversal) ==
    /\ reversal.kind \in {"refund", "void", "chargeback"} /\ reversal.reason \in Vocabulary!REVERSAL_REASONS
    /\ InstantSchema(reversal.occurredAt) /\ reversal.restock \in Vocabulary!RESTOCK_OUTCOMES
    /\ \A amount \in {reversal.amount, reversal.shippingRefund, reversal.codFeeRefund, reversal.adjustment,
                      reversal.vat, reversal.total} : MinorSchema(amount)
    /\ \A line \in ToSet(ReversalLines(reversal)) : CanonicalReversalLineSchema(line)

AccountsForItself(reversal) == reversal.total = reversal.amount + OrderLevelRefund(reversal) + reversal.vat

\* Faulty variant: the lines need not add up to the item revenue.
CanonicalReversalSchemaLoose(reversal) == ReversalFieldsParse(reversal) /\ AccountsForItself(reversal)

\* Every halala is accounted for, in the total and, where there are lines, by the lines.
CanonicalReversalSchema(reversal) ==
    /\ ReversalFieldsParse(reversal) /\ AccountsForItself(reversal)
    /\ reversal.lines = Null \/ SumOver(reversal.lines, LAMBDA l : l.amount) = reversal.amount

\* What an adapter that parsed everything it mapped hands to the engine.
CanonicalInput(in) ==
    /\ in.order # Null /\ in.store # Null
    /\ CanonicalStoreSchema(in.store) /\ CanonicalOrderSchema(in.order)
    /\ \A item \in ToSet(in.items) : CanonicalOrderItemSchema(item)
    /\ \A shipment \in ToSet(in.shipments) : CanonicalShipmentSchema(shipment)
    /\ \A reversal \in ToSet(in.reversals) : CanonicalReversalSchema(reversal)
===============================================================================
