------------------------------ MODULE OrderLife ------------------------------
(***************************************************************************)
(* An order through its life, as the platform reports it in canonical form *)
(* (packages/contracts), with what the engine makes of it at every moment. *)
(* The platform, the couriers and the merchant are external: their events  *)
(* are whatever the canonical contract allows.  After every event the      *)
(* recompute worker, external too, has the engine compute the order afresh.*)
(***************************************************************************)
EXTENDS Canonical, TLC

CONSTANTS
    Worlds,     \* what an order may start from: items, discounts, method, costs, rules, the store's VAT
                \* registration, and by how much the platform misreports its total
    Payments,   \* payment legs the platform may report
    Parcels,    \* shipments the platform may report, ids aside
    Refunds,    \* reversals the platform may report, ids aside
    Faults,     \* single faults an adapter may leave in an input
    MaxEach,    \* bound on payments, on shipments and on reversals
    MaxEvents   \* bound on the three together

(***************************************************************************)
(* What every input has, right or wrong: what is a list in the contract is *)
(* a list, ids are ids, a parcel's direction and status are of the          *)
(* contract's vocabulary, and the amounts the engine adds up without       *)
(* looking at them first are the whole numbers the schemas let through.    *)
(***************************************************************************)
IsList(s) == s \in Seq(ToSet(s))
HasId(item) == "id" \in DOMAIN item /\ item.id \in Int
HasAmounts(reversal) ==
    /\ {"amount", "shippingRefund", "codFeeRefund", "adjustment", "lines"} \subseteq DOMAIN reversal
    /\ {reversal.amount, reversal.shippingRefund, reversal.codFeeRefund, reversal.adjustment} \subseteq Int
    /\ reversal.lines = Null \/ IsList(reversal.lines)

HasCourse(parcel) ==
    /\ {"direction", "status"} \subseteq DOMAIN parcel
    /\ parcel.direction \in {"outbound", "return"} /\ parcel.status \in ShipmentStatuses

ASSUME WorldsAssumption ==
    \A w \in Worlds :
        /\ IsList(w.items) /\ \A item \in ToSet(w.items) : HasId(item)
        /\ IsList(w.discounts) /\ \A discount \in ToSet(w.discounts) : discount.amount \in Int
        /\ IsList(w.costs)
        /\ {"gateway", "cod", "shipping"} \subseteq DOMAIN w.rules
        /\ IsList(w.rules.gateway) /\ IsList(w.rules.cod) /\ IsList(w.rules.shipping)

ASSUME ParcelsAssumption == \A parcel \in Parcels : HasCourse(parcel)

ASSUME RefundsAssumption == \A reversal \in Refunds : HasAmounts(reversal)

ASSUME FaultsAssumption ==
    Faults \subseteq {"null_order", "currency", "no_currency", "timezone", "no_timezone", "placed_at", "item_twice",
                      "stray_item", "quantity", "fraction", "huge", "overflow", "cost_twice", "rule_twice",
                      "rule_bounds", "stray_refund", "refund_twice", "parcel_twice"}

VARIABLES
    input,    \* the engine's input: store, order, items, shipments, reversals, costs, rules
    refused,  \* an adapter's fault got into the input
    event,    \* what has happened since the order was last computed, or "none"
    result    \* what the engine said of the input it last computed

vars == <<input, refused, event, result>>

\* The result is of the present input, and is not a rejection.
UpToDate == event = "none"
Computed == UpToDate /\ result.status = "computed"

------------------------------------------------------------------------------
(* The canonical order: what it totals, and how a platform reports it.      *)

NewOrder(w) ==
    LET subtotal == SumOver(w.items, LAMBDA i : i.lineTotal)
        off      == SumOver(w.discounts, LAMBDA d : IF d.reflected THEN 0 ELSE d.amount)
    IN  [ id |-> 1, currency |-> "SAR", placedAt |-> 22, lifecycle |-> "draft", paymentState |-> "unpaid",
          fulfillmentState |-> "unfulfilled", isTest |-> FALSE, fulfillmentMethod |-> w.method,
          country |-> "SA", region |-> Null, vatRateBps |-> 1500, subtotal |-> subtotal, vat |-> 9,
          shipping |-> 15, codFee |-> 4,
          total |-> subtotal - off + 28 + w.skew, discounts |-> w.discounts, payments |-> <<>> ]

Init ==
    /\ refused = "no"
    /\ \E w \in Worlds :
           input = [ store |-> [currency |-> "SAR", timezone |-> "Asia/Riyadh", vatRateBps |-> 1500,
                                vatRegistered |-> w.registered],
                     order |-> NewOrder(w), items |-> w.items, shipments |-> <<>>, reversals |-> <<>>,
                     costs |-> w.costs, rules |-> w.rules ]
    /\ event = "new" /\ result = Null

\* A record as the platform numbers it.
Numbered(record, id) == [f \in DOMAIN record \union {"id"} |-> IF f = "id" THEN id ELSE record[f]]

Events == Len(input.order.payments) + Len(input.shipments) + Len(input.reversals)

Event(name, next) == UpToDate /\ event' = name /\ input' = next /\ UNCHANGED <<refused, result>>

Recompute ==
    /\ ~UpToDate /\ event' = "none"
    /\ result' = computeOrderProfit(input)
    /\ UNCHANGED <<input, refused>>

\* Nothing follows a fault: the input is dead-lettered as it is.
Submitted == refused = "no" /\ input.order.lifecycle # "draft"
NewEvent(seq) == Submitted /\ Len(seq) < MaxEach /\ Events < MaxEvents

Place ==
    /\ refused = "no" /\ input.order.lifecycle = "draft"
    /\ Event("place", [input EXCEPT !.order.lifecycle = "open"])

\* A captured leg; the order is paid once its legs cover it, or when the platform says so.
Pay(leg) ==
    /\ NewEvent(input.order.payments)
    /\ input.order.paymentState \in {"unpaid", "authorized"}
    /\ LET order  == [input.order EXCEPT !.payments = Append(@, leg)]
           state  == IF CapturedTotal(order) >= order.total \/ leg.instrument # "cod" THEN "paid" ELSE "authorized"
       IN  Event("pay", [input EXCEPT !.order = [order EXCEPT !.paymentState = state]])

PaymentLost(state) ==
    /\ Submitted
    /\ input.order.paymentState \in {"unpaid", "authorized"}
    /\ Event("lost", [input EXCEPT !.order.paymentState = state])

Ship(parcel) ==
    /\ NewEvent(input.shipments)
    /\ parcel.direction = "return" => input.shipments # <<>>
    /\ Event("ship", [input EXCEPT !.shipments = <<Numbered(parcel, Len(input.shipments) + 1)>> \o @,
                                   !.order.fulfillmentState = IF parcel.direction = "return" THEN "returned" ELSE "in_transit"])

Track(n, status) ==
    /\ Submitted
    /\ input.shipments[n].status = "in_transit"
    /\ input.shipments[n].direction = "return" <=> status = "delivered"
    /\ Event("track", [input EXCEPT !.shipments[n].status = status,
                                    !.order.fulfillmentState = IF status = "returned_to_origin" THEN "rto" ELSE @])

Refund(reversal) ==
    /\ NewEvent(input.reversals)
    /\ input.order.paymentState \in {"paid", "partially_refunded"}
    /\ Event("refund", [input EXCEPT !.reversals = <<Numbered(reversal, Len(input.reversals) + 1)>> \o @,
                                     !.order.paymentState = "partially_refunded"])

Cancel ==
    /\ Submitted /\ input.order.lifecycle = "open"
    /\ Event("cancel", [input EXCEPT !.order.lifecycle = "cancelled"])

\* A fault an adapter, a time zone or a rule table may leave in the input.
Corrupted(fault) ==
    CASE fault = "null_order"  -> [input EXCEPT !.order = Null]
      [] fault = "currency"    -> [input EXCEPT !.order.currency = "USD"]
      [] fault = "no_currency" -> [input EXCEPT !.order.currency = "XXX", !.store.currency = "XXX",
                                                !.rules.currency = "XXX"]
      [] fault = "timezone"    -> [input EXCEPT !.store.timezone = "Mars/Olympus"]
      [] fault = "no_timezone" -> [input EXCEPT !.store.timezone = Null]
      [] fault = "placed_at"   -> [input EXCEPT !.order.placedAt = Null]
      [] fault = "item_twice"  -> [input EXCEPT !.items = Append(@, @[1])]
      [] fault = "stray_item"  -> [input EXCEPT !.items[1].orderId = 2]
      [] fault = "quantity"    -> [input EXCEPT !.items[1].quantity = -1]
      [] fault = "fraction"    -> [input EXCEPT !.items[1].lineTotal = Null]
      [] fault = "huge"        -> [input EXCEPT !.order.total = MaxMinor + 1]
      [] fault = "overflow"    -> [input EXCEPT !.order.shipping = MaxMinor, !.order.codFee = MaxMinor]
      [] fault = "cost_twice"  -> [input EXCEPT !.costs = @ \o @]
      [] fault = "rule_twice"  -> [input EXCEPT !.rules.gateway =
                                       @ \o [n \in DOMAIN @ |-> [@[n] EXCEPT !.percentBps = 0]]]
      [] fault = "rule_bounds" -> [input EXCEPT !.rules.cod = @ \o
                                       <<[input.rules.gateway[1] EXCEPT !.min = 9, !.max = 1] @@ [carrier |-> 7]>>]
      [] fault = "stray_refund" -> [input EXCEPT !.reversals[1].orderId = 2]
      [] fault = "refund_twice" -> [input EXCEPT !.reversals = <<@[1]>> \o @]
      [] fault = "parcel_twice" -> [input EXCEPT !.shipments = <<@[1]>> \o @]

\* Faults are looked for in the simplest order that can have them.
Applicable(fault) ==
    /\ fault \notin {"stray_refund", "refund_twice", "parcel_twice"} => Events = 0
    /\ fault \in {"stray_refund", "refund_twice"} => input.reversals # <<>>
    /\ fault \in {"item_twice", "stray_item", "quantity", "fraction"} => input.items # <<>>
    /\ fault = "parcel_twice" => input.shipments # <<>>
    /\ fault = "cost_twice" => input.costs # <<>>
    /\ fault \in {"rule_twice", "rule_bounds"} => input.rules.gateway # <<>>

Corrupt(fault) ==
    /\ UpToDate /\ refused = "no"
    /\ Applicable(fault)
    /\ input' = Corrupted(fault)
    /\ refused' = fault /\ event' = "fault"
    /\ UNCHANGED result

Next ==
    \/ Place
    \/ \E leg \in Payments : Pay(leg)
    \/ \E state \in {"voided", "failed"} : PaymentLost(state)
    \/ \E parcel \in Parcels : Ship(parcel)
    \/ \E n \in DOMAIN input.shipments, status \in {"delivered", "lost", "returned_to_origin", "cancelled"} :
           Track(n, status)
    \/ \E reversal \in Refunds : Refund(reversal)
    \/ Cancel
    \/ \E fault \in Faults : Corrupt(fault)
    \/ Recompute

Spec == Init /\ [][Next]_vars

------------------------------------------------------------------------------
(* What the engine promises                                                 *)

SumLines(field) == SumFunction([i \in DOMAIN result.lines |-> result.lines[i][field]])

(* Whatever parcels, refunds and discounts an order has been through, its  *)
(* lines add up to its totals exactly, term by term                        *)
(* (compute-order-profit.ts:73-76, allocate-lines.ts).                     *)
LinesTieToTotals ==
    Computed /\ result.lines # <<>> =>
        /\ \A field \in {"margin", "cogs", "outbound", "returned", "gateway", "cod", "reversed", "restocked"} :
               SumLines(field) = result.totals[field]
        /\ SumLines("net") + SumLines("shipping") + SumLines("codFee") = result.totals.revenue

(* Every halala a refund took back is booked on some line, whether or not  *)
(* its detail adds up or names lines the order has (reversal.ts:222-290).  *)
RefundsAreBookedInFull ==
    Computed /\ result.recognition.kind = "recognized" /\ DOMAIN result.lines # {} =>
        result.totals.reversed =
            SumOver(input.reversals,
                    LAMBDA r : OrderLevelRefund(r) + IF r.lines # Null /\ ClaimedTotal(r) > r.amount
                                                     THEN ClaimedTotal(r) ELSE r.amount)

(* No sequence of returns puts more goods back on the shelf than a line    *)
(* sold, in units or in cost (reversal.ts:258-261, 321-326).               *)
StockBackIsBounded ==
    Computed => \A i \in DOMAIN result.lines :
        /\ result.lines[i].restocked \in 0 .. result.lines[i].cogs
        /\ result.lines[i].reversedQuantity \in 0 .. ById(input.items)[i].quantity

(* The first refund of all the item revenue, with the goods back on the    *)
(* shelf, credits all of the stock, however badly the revenue split        *)
(* disagrees with the cost split (reversal.ts:304-309).                    *)
FullReturnRecoversStock ==
    Computed /\ result.recognition.kind = "recognized" /\ Len(input.reversals) = 1
        /\ input.reversals[1].lines = Null /\ input.reversals[1].restock \in RECOVERS_COGS
        /\ input.reversals[1].amount >= input.order.subtotal
        /\ input.order.subtotal = SumFunction(LineTotals(ById(input.items)))
        => result.totals.restocked = result.totals.cogs

\* Who collected the cash of the order, if any did, and the records that answer for an item, a
\* parcel, a payment leg and the cash a carrier collected.
Collectors ==
    LET carriers == {input.shipments[n].carrier : n \in LiveLegs(input.shipments, "outbound")}
    IN  IF \A p \in ToSet(input.order.payments) : ~(p.instrument = "cod" /\ p.state = "captured") THEN {}
        ELSE IF carriers = {} THEN {Null} ELSE carriers
CostsOf(item) ==
    {c \in ToSet(input.costs) : \/ <<c.product, c.variant>> = <<item.product, item.variant>>
                                \/ item.sku # Null /\ c.sku = item.sku}
CourierRulesOf(shipment) ==
    {r \in ToSet(input.rules.shipping) :
        /\ r.direction \in {shipment.direction, "any"} /\ AgreesWith(r.carrier, shipment.carrier)
        /\ AgreesWith(r.country, input.order.country) /\ AgreesWith(r.region, input.order.region)}
FeeRulesOf(payment) ==
    {r \in ToSet(input.rules.gateway) :
        /\ AgreesWith(r.instrument, payment.instrument) /\ AgreesWith(r.provider, payment.provider)
        /\ SchemeUnknown(payment) \/ AgreesWith(r.scheme, payment.scheme)}
CashRulesOf(carrier) == {r \in ToSet(input.rules.cod) : AgreesWith(r.carrier, carrier)}

(* "exact" is never claimed for an order with a guess in it: every cost,   *)
(* courier invoice and fee came from a source that knows it, the order     *)
(* reconciles, and nothing about its refunds or its returned stock was     *)
(* inferred (engine/confidence.ts).                                        *)
ExactMeansKnown ==
    Computed /\ result.confidence.level = "exact" /\ result.recognition.kind # "excluded" =>
        /\ \A i \in DOMAIN result.lines :
               \E c \in CostsOf(ById(input.items)[i]) : c.source \in EXACT_COST_SOURCES
        /\ \A s \in ToSet(input.shipments) : s.status # "cancelled" => s.carrierCost # Null
        /\ input.order.fulfillmentMethod = "carrier" =>
               input.order.lifecycle = "cancelled" \/ LiveLegs(input.shipments, "outbound") # {}
        /\ \A p \in ToSet(input.order.payments) :
               CHARGEABLE(p) => /\ ~SchemeUnknown(p)
                                /\ \E r \in FeeRulesOf(p) : r.source = "gateway_statement"
        /\ \A c \in Collectors : \E r \in CashRulesOf(c) : r.source = "gateway_statement"
        /\ input.order.paymentState = "paid" => CapturedTotal(input.order) >= input.order.total
        /\ \A r \in ToSet(input.reversals) : r.lines # Null \/ result.recognition.kind # "recognized"
        /\ \A d \in result.diagnostics :
               d[1] \notin {"RESTOCK_UNKNOWN", "REVERSAL_LINE_UNMATCHED", "TOTALS_DO_NOT_RECONCILE"}

(* A margin that may be ranked among the loss makers is a number, not a    *)
(* bound: nothing that costs money was left at zero for want of a cost, an *)
(* invoice or a rule, and its revenue is the order's own                   *)
(* (compute-order-profit.ts:287-301, confidence.ts:62-66).                 *)
RankedMarginsAreNumbers ==
    Computed /\ isRankableForLossMaker(result) =>
        /\ input.items # <<>>
        /\ \A item \in ToSet(input.items) : CostsOf(item) # {}
        /\ \A s \in ToSet(input.shipments) :
               s.status # "cancelled" /\ s.carrierCost = Null =>
                   input.order.fulfillmentMethod = "carrier" /\ CourierRulesOf(s) # {}
        /\ \A p \in ToSet(input.order.payments) : CHARGEABLE(p) => FeeRulesOf(p) # {}
        /\ \A c \in Collectors : CashRulesOf(c) # {}

(* The rule table is a set: listing it in another order changes neither    *)
(* what is charged nor how sure the engine is, because no two rules of     *)
(* equal specificity can match the same leg (normalize.ts:72-98).          *)
RuleOrderIsIrrelevant ==
    Computed =>
        \E other \in {computeOrderProfit([input EXCEPT !.rules.gateway = Reverse(@), !.rules.cod = Reverse(@),
                                                      !.rules.shipping = Reverse(@)])} :
            /\ other.status = "computed"
            /\ other.totals.margin = result.totals.margin
            /\ other.confidence = result.confidence

(* An input an adapter got wrong is rejected with fatal diagnostics only;  *)
(* an order with only gaps in its data is computed, with warnings only     *)
(* (normalize.ts:111-276, diagnostics-builder.ts:14-33).                   *)
FaultsAreFatal ==
    UpToDate =>
        /\ Computed <=> refused = "no"
        /\ \A d \in result.diagnostics : severityOf(d[1]) = IF Computed THEN "warning" ELSE "fatal"
        /\ ~Computed => result.diagnostics # {}

(* What the canonical schemas accept, the engine never faults for its own  *)
(* figures, and books to the halala: the two validations of one record     *)
(* agree (schemas/canonical.ts:130-244, normalize.ts:140-260).  What is    *)
(* left to refuse is how records relate, the time zone's name, and sums    *)
(* past the range of a Minor.                                              *)
CanonicalInputsAreSound ==
    UpToDate /\ CanonicalInput(input) =>
        {d[1] : d \in result.diagnostics} \intersect
            {"NON_INTEGER_MINOR_UNITS", "NON_INTEGER_QUANTITY", "NEGATIVE_QUANTITY", "MALFORMED_TIMESTAMP",
             "REVERSAL_TOTAL_MISMATCH"} = {}

(* Money given back never flatters: a further refund on an order that goes *)
(* on earning lowers its margin by what was refunded, up to the cost of    *)
(* the goods it puts back on the shelf (reversal.ts:215-341).              *)
RefundsNeverFlatter ==
    [][ event = "refund" /\ event' = "none"
            /\ result.recognition.kind = "recognized" /\ result.lines # <<>>
        => /\ result'.totals.margin - result.totals.margin <=
                  (result'.totals.restocked - result.totals.restocked) - input.reversals[1].amount
           /\ input.reversals[1].restock \notin RECOVERS_COGS /\ input.reversals[1].lines = Null
                  => result'.totals.margin <= result.totals.margin ]_vars

(* Nothing is lost or made up between the order and its lines: the lines   *)
(* tie to the totals, and every halala given back is on one of them.       *)
EveryHalalaIsBooked == LinesTieToTotals /\ RefundsAreBookedInFull

(* Returned stock is credited in full where all of it came back, and never *)
(* beyond what was sold, whatever returns came before.                     *)
StockBackIsRight == StockBackIsBounded /\ FullReturnRecoversStock

(* The engine never overstates how sure it is: neither a guess called      *)
(* exact nor a gap ranked as a number.                                     *)
GradesAreEarned == ExactMeansKnown /\ RankedMarginsAreNumbers

(* What is refused is a fault and what is a fault is refused, by the       *)
(* adapter's schemas and by the engine alike.                              *)
ValidationsAgree == FaultsAreFatal /\ CanonicalInputsAreSound
===============================================================================
