----------------------------- MODULE ProfitTerms -----------------------------
(***************************************************************************)
(* The terms of an order's contribution margin, one operator per file of   *)
(* packages/core/src/engine: recognition, revenue, cost of goods, courier  *)
(* cost, gateway fees and cash-on-delivery cost.  Each returns its value   *)
(* with the diagnostics it raised, as the code's Computed<T> does.         *)
(*                                                                         *)
(* Items, shipments and reversals have integer ids, ordered as the code    *)
(* orders their text; items and shipments come as functions of their ids.  *)
(* A diagnostic is <<code, kind of subject, subject>>.                     *)
(***************************************************************************)
EXTENDS Money, SequencesExt

ShipmentStatuses == {"created", "in_transit", "out_for_delivery", "delivered", "failed_attempt",
                     "returned_to_origin", "cancelled", "lost", "unknown"}
EXACT_COST_SOURCES == {"merchant_manual", "merchant_bulk_import", "platform"}

onOrder(code) == {<<code, "order", 0>>}
diagnostic(code, kind, id) == {<<code, kind, id>>}
When(condition, diagnostics) == IF condition THEN diagnostics ELSE {}

\* addMinor over the amounts of a sequence of records.
SumOver(seq, Amount(_)) == SumFunction([n \in DOMAIN seq |-> Amount(seq[n])])

\* The first of the best-scoring rules that match: the one the code's loops keep.
BestOf(rules, Matches(_), Score(_)) ==
    LET fit == {i \in DOMAIN rules : Matches(rules[i])}
    IN  IF fit = {} THEN Null
        ELSE rules[CHOOSE i \in fit : \A j \in fit :
                        \/ Score(rules[j]) < Score(rules[i])
                        \/ Score(rules[j]) = Score(rules[i]) /\ i <= j]

------------------------------------------------------------------------------
(* Recognition: whether the order earns revenue, only costs, or is left out *)

DISPATCHED    == {"partially_fulfilled", "in_transit", "delivered", "returned", "rto"}
NEVER_SETTLED == {"unpaid", "authorized", "failed", "voided"}
LIVE          == ShipmentStatuses \ {"cancelled"}

LiveLegs(shipments, direction) ==
    {n \in DOMAIN shipments : shipments[n].direction = direction /\ shipments[n].status \in LIVE}

computeRecognition(order, shipments) ==
    LET unsettled  == order.paymentState \in NEVER_SETTLED
        dispatched == order.fulfillmentState \in DISPATCHED
        live       == LiveLegs(shipments, "outbound")
        Is(kind, reason) == [kind |-> kind, reason |-> reason]
    IN  CASE order.isTest -> Is("excluded", "test_order")
          [] ~order.isTest /\ order.lifecycle = "draft" -> Is("excluded", "draft")
          [] OTHER ->
             IF order.fulfillmentState = "rto" /\ unsettled THEN Is("cost_only", "rto_uncollected")
             ELSE IF live # {} /\ unsettled /\ \A n \in live : shipments[n].status = "lost"
                  THEN Is("cost_only", "goods_lost")
             ELSE IF order.paymentState \in {"voided", "failed"}
                  THEN IF dispatched THEN Is("cost_only", "payment_not_settled")
                       ELSE Is("excluded", "cancelled_before_economic_effect")
             ELSE IF order.lifecycle # "cancelled" \/ order.paymentState = "partially_refunded"
                  THEN Is("recognized", Null)
             ELSE IF order.paymentState \in {"paid", "refunded"}
                  THEN Is("cost_only", "cancelled_after_capture")
             ELSE IF dispatched THEN Is("cost_only", "cancelled_after_dispatch")
             ELSE Is("excluded", "cancelled_before_economic_effect")

------------------------------------------------------------------------------
(* Revenue                                                                  *)

LineTotals(items) == [i \in DOMAIN items |-> items[i].lineTotal]

unreflected(order, target) ==
    SumOver(order.discounts, LAMBDA d : IF d.target = target /\ ~d.reflected THEN d.amount ELSE 0)

computeLineRevenue(items, itemDiscount) ==
    LET share == allocateMinor(itemDiscount, LineTotals(items))
    IN  [i \in DOMAIN items |-> [discount |-> share[i], net |-> items[i].lineTotal - share[i]]]

computeRevenue(order, items, recognition) ==
    LET itemsGross       == SumFunction(LineTotals(items))
        itemDiscount     == unreflected(order, "items")
        shippingDiscount == unreflected(order, "shipping")
        codDiscount      == unreflected(order, "cod_fee")
        orderDiscount    == itemDiscount + shippingDiscount + codDiscount
        expectedTotal    == order.subtotal - orderDiscount + order.shipping + order.codFee + order.vat
        reconciles       == expectedTotal = order.total /\ order.subtotal = itemsGross
        earned           == recognition.kind = "recognized"
        Earned(amount)   == IF earned THEN amount ELSE 0
    IN  [ lines            |-> IF earned THEN computeLineRevenue(items, itemDiscount)
                               ELSE [i \in DOMAIN items |-> [discount |-> 0, net |-> 0]],
          items            |-> Earned(itemsGross),
          shipping         |-> Earned(order.shipping),
          codFee           |-> Earned(order.codFee),
          orderDiscount    |-> Earned(orderDiscount),
          revenue          |-> Earned(itemsGross + order.shipping + order.codFee - orderDiscount),
          vat              |-> Earned(order.vat),
          shippingDiscount |-> Earned(shippingDiscount),
          codFeeDiscount   |-> Earned(codDiscount),
          expectedTotal    |-> expectedTotal,
          reconciles       |-> reconciles,
          diagnostics      |->
              When(~reconciles, onOrder("TOTALS_DO_NOT_RECONCILE"))
              \union When(DOMAIN items = {}, onOrder("ORDER_HAS_NO_ITEMS"))
              \union When(recognition.kind = "cost_only", onOrder("RECOGNITION_COST_ONLY"))
              \union When(recognition.kind = "excluded", onOrder("ORDER_EXCLUDED")) ]

------------------------------------------------------------------------------
(* Cost of goods: the cost of the product and variant, else of the SKU.     *)

ResolvedCost(item, costs) ==
    LET byKey == BestOf(costs, LAMBDA c : c.product = item.product /\ c.variant = item.variant, LAMBDA c : 0)
        bySku == BestOf(costs, LAMBDA c : item.sku # Null /\ c.sku = item.sku, LAMBDA c : 0)
    IN  IF byKey # Null THEN byKey ELSE bySku

LineCogs(item, costs) ==
    LET cost == ResolvedCost(item, costs)
    IN  IF cost = Null THEN [unit |-> 0, cogs |-> 0, source |-> "none", covered |-> FALSE]
        ELSE [unit |-> cost.unitCost, cogs |-> cost.unitCost * item.quantity,
              source |-> cost.source, covered |-> cost.source \in EXACT_COST_SOURCES]

computeCogs(items, costs) ==
    LET lines     == [i \in DOMAIN items |-> LineCogs(items[i], costs)]
        missing   == {i \in DOMAIN items : lines[i].source = "none"}
        estimated == {i \in DOMAIN items \ missing : ~lines[i].covered}
    IN  [ lines        |-> lines,
          cogs         |-> SumFunction([i \in DOMAIN items |-> lines[i].cogs]),
          anyMissing   |-> missing # {},
          anyEstimated |-> estimated # {},
          diagnostics  |-> {<<"COST_MISSING", "line", i>> : i \in missing}
                           \union {<<"COST_ESTIMATED", "line", i>> : i \in estimated} ]

------------------------------------------------------------------------------
(* Courier cost, per live leg of one direction                              *)

Set(field, points) == IF field # Null THEN points ELSE 0
AgreesWith(field, value) == field = Null \/ field = value

\* Faulty variant: directions pooled, and every field worth the same.
matchShippingRulePooled(rules, order, carrier, direction) ==
    BestOf(rules,
           LAMBDA r : /\ r.direction \in {direction, "any"} /\ AgreesWith(r.carrier, carrier)
                      /\ AgreesWith(r.country, order.country) /\ AgreesWith(r.region, order.region),
           LAMBDA r : Set(r.country, 1) + Set(r.region, 1) + Set(r.carrier, 1))

\* A rule for the very direction beats any rule for both, whatever their scores.
matchShippingRule(rules, order, carrier, direction) ==
    LET Matches(rule) == /\ AgreesWith(rule.country, order.country)
                         /\ AgreesWith(rule.region, order.region)
                         /\ AgreesWith(rule.carrier, carrier)
        Score(rule)   == Set(rule.country, 4) + Set(rule.region, 2) + Set(rule.carrier, 1)
        Pick(dir)     == BestOf(rules, LAMBDA r : r.direction = dir /\ Matches(r), Score)
    IN  IF Pick(direction) # Null THEN Pick(direction) ELSE Pick("any")

WorstBasis(anyMissing, anyEstimated) ==
    IF anyMissing THEN "missing" ELSE IF anyEstimated THEN "estimated" ELSE "actual"

NoLeg(order, rules, direction) ==
    LET rule == matchShippingRule(rules, order, Null, direction)
        Leg(cost, basis, diagnostics) ==
            [cost |-> cost, basis |-> basis, parcels |-> <<>>, diagnostics |-> diagnostics]
    IN  IF \/ direction = "return"
           \/ order.fulfillmentMethod # "carrier"
           \/ order.lifecycle = "cancelled" /\ order.fulfillmentState \notin DISPATCHED
        THEN Leg(0, "not_applicable", {})
        ELSE IF rule = Null
        THEN Leg(0, "missing", onOrder("NO_OUTBOUND_SHIPMENT") \union onOrder("SHIPPING_FALLBACK_MISSING"))
        ELSE Leg(rule.cost, "estimated",
                 onOrder("NO_OUTBOUND_SHIPMENT") \union onOrder("SHIPPING_FALLBACK_USED"))

computeShippingCost(order, shipments, rules, direction) ==
    LET legs        == LiveLegs(shipments, direction)
        mayEstimate == order.fulfillmentMethod = "carrier"
        Rule(n)     == matchShippingRule(rules, order, shipments[n].carrier, direction)
        known       == {n \in legs : shipments[n].carrierCost # Null}
        used        == {n \in legs \ known : mayEstimate /\ Rule(n) # Null}
        absent      == legs \ (known \union used)
        parcels     == [n \in known \union used |->
                            [ cost    |-> IF n \in known THEN shipments[n].carrierCost ELSE Rule(n).cost,
                              lineIds |-> shipments[n].lineIds ]]
        Raise(code, S) == {<<code, "shipment", shipments[n].id>> : n \in S}
    IN  IF legs = {} THEN NoLeg(order, rules, direction)
        ELSE [ cost        |-> SumOver(parcels, LAMBDA p : p.cost),
               basis       |-> WorstBasis(absent # {}, used # {}),
               parcels     |-> parcels,
               diagnostics |-> Raise("CARRIER_COST_MISSING", legs \ known)
                               \union Raise("SHIPPING_FALLBACK_USED", used)
                               \union When(mayEstimate, Raise("SHIPPING_FALLBACK_MISSING", absent)) ]

------------------------------------------------------------------------------
(* Fees: a formula applied to an amount, and the rule that applies to a leg *)

applyFeeFormula(base, formula, vatRegistered) ==
    LET clamped == clampMinor(mulBps(base, formula.percentBps) + formula.fixed, formula.min, formula.max)
        exVat   == IF formula.ratesIncludeVat THEN splitVatInclusive(clamped, formula.feeVatBps).net
                   ELSE clamped
        vat     == IF formula.ratesIncludeVat THEN clamped - exVat ELSE mulBps(clamped, formula.feeVatBps)
    IN  [exVat |-> exVat, vat |-> vat, cost |-> IF vatRegistered THEN exVat ELSE exVat + vat]

NoFee == [exVat |-> 0, vat |-> 0, cost |-> 0]

basisOfFeeSource(source) == IF source = "gateway_statement" THEN "actual" ELSE "estimated"

\* The sum of the fees applied, with the worst of their bases.
FeeTotal(fees, basis, diagnostics) ==
    [ exVat |-> SumOver(fees, LAMBDA f : f.exVat), vat |-> SumOver(fees, LAMBDA f : f.vat),
      cost  |-> SumOver(fees, LAMBDA f : f.cost), basis |-> basis, diagnostics |-> diagnostics ]

specificity(rule) == Set(rule.instrument, 4) + Set(rule.scheme, 2) + Set(rule.provider, 1)

bestRule(rules, payment) ==
    BestOf(rules,
           LAMBDA r : /\ AgreesWith(r.instrument, payment.instrument)
                      /\ AgreesWith(r.scheme, payment.scheme)
                      /\ AgreesWith(r.provider, payment.provider),
           specificity)

\* The scheme is what is unknown: the rules it could have selected, at the best specificity.
schemeCandidates(rules, payment) ==
    LET eligible == {r \in ToSet(rules) : /\ AgreesWith(r.instrument, payment.instrument)
                                          /\ AgreesWith(r.provider, payment.provider)}
    IN  {r \in eligible : \A o \in eligible : specificity(o) <= specificity(r)}

CHARGEABLE(payment) == payment.state = "captured" /\ payment.instrument \notin {"cod", "free"}

SchemeUnknown(payment) == payment.instrument = "card" /\ payment.scheme \in {Null, "unknown"}

\* An unknown scheme is priced at the most expensive rule it could have had.
GatewayRule(payment, rules, vatRegistered) ==
    IF SchemeUnknown(payment)
    THEN BestOf(rules, LAMBDA r : r \in schemeCandidates(rules, payment),
                LAMBDA r : applyFeeFormula(payment.amount, r, vatRegistered).cost)
    ELSE bestRule(rules, payment)

CapturedTotal(order) ==
    SumOver(order.payments, LAMBDA p : IF p.state = "captured" THEN p.amount ELSE 0)

computeGatewayFees(order, rules, vatRegistered) ==
    LET underMapped == order.paymentState = "paid" /\ CapturedTotal(order) < order.total
        legs        == {n \in DOMAIN order.payments : CHARGEABLE(order.payments[n])}
        Pay(n)      == order.payments[n]
        Rule(n)     == GatewayRule(Pay(n), rules, vatRegistered)
        Estimated(n) == SchemeUnknown(Pay(n)) \/ basisOfFeeSource(Rule(n).source) = "estimated"
        unruled     == {n \in legs : Rule(n) = Null}
        fees        == [n \in DOMAIN order.payments |->
                            IF n \in legs \ unruled
                            THEN applyFeeFormula(Pay(n).amount, Rule(n), vatRegistered) ELSE NoFee]
        basis       == IF legs = {} THEN IF underMapped THEN "missing" ELSE "not_applicable"
                       ELSE WorstBasis(unruled # {} \/ underMapped, \E n \in legs \ unruled : Estimated(n))
        Raise(code, S) == {<<code, "payment", n>> : n \in S}
    IN  FeeTotal(fees, basis,
            When(underMapped, onOrder("PAYMENT_LEGS_UNDER_TOTAL"))
            \union Raise("UNKNOWN_PAYMENT_INSTRUMENT", {n \in legs : Pay(n).instrument \in {"unknown", "other"}})
            \union Raise("CARD_SCHEME_UNKNOWN", {n \in legs : SchemeUnknown(Pay(n))})
            \union Raise("FEE_RULE_MISSING", unruled)
            \union Raise("FEE_RULE_DEFAULT_USED", {n \in legs \ unruled : Rule(n).source = "default_table"}))

\* Cash collected over several carriers is charged to each of them in equal shares.
computeCodCost(order, shipments, rules, vatRegistered) ==
    LET legs      == {n \in DOMAIN order.payments :
                          order.payments[n].instrument = "cod" /\ order.payments[n].state = "captured"}
        carriers  == {shipments[n].carrier : n \in LiveLegs(shipments, "outbound")}
        charged   == IF carriers = {} THEN {Null} ELSE carriers
        ruleFor(c) == BestOf(rules, LAMBDA r : AgreesWith(r.carrier, c), LAMBDA r : Set(r.carrier, 1))
        Share(n, c) == IF Cardinality(carriers) > 1
                       THEN allocateMinor(order.payments[n].amount, [d \in carriers |-> 0])[c]
                       ELSE order.payments[n].amount
        shares    == SetToSeq(legs \X charged)
        fees      == [k \in DOMAIN shares |->
                          IF ruleFor(shares[k][2]) = Null THEN NoFee
                          ELSE applyFeeFormula(Share(shares[k][1], shares[k][2]),
                                               ruleFor(shares[k][2]), vatRegistered)]
        unruled   == {c \in charged : ruleFor(c) = Null}
        Sourced(source) == {c \in charged \ unruled : ruleFor(c).source = source}
        basis     == IF legs = {} THEN "not_applicable"
                     ELSE WorstBasis(unruled # {}, charged \ unruled # Sourced("gateway_statement"))
    IN  FeeTotal(fees, basis,
            When(unruled # {}, {<<"COD_FEE_RULE_MISSING", "payment", n>> : n \in legs})
            \union When(Sourced("default_table") # {}, {<<"FEE_RULE_DEFAULT_USED", "payment", n>> : n \in legs}))
===============================================================================
