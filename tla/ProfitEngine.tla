----------------------------- MODULE ProfitEngine -----------------------------
(***************************************************************************)
(* computeOrderProfit (packages/core): validates its input, computes the   *)
(* terms of the margin, books refunds and returned stock, pushes           *)
(* order-level amounts down to the lines and grades its own confidence.    *)
(* It is a pure function; nothing here is a state.                         *)
(***************************************************************************)
EXTENDS ProfitTerms

CONSTANTS
    Currencies,   \* CURRENCY_CODES
    ZoneOffset    \* the time zone database: known zone -> hours ahead of UTC

------------------------------------------------------------------------------
(* Validation (engine/normalize.ts)                                         *)

\* The positions whose key an earlier position already has.
Repeated(seq, Key(_)) == {n \in DOMAIN seq : \E m \in 1 .. n - 1 : Key(seq[m]) = Key(seq[n])}

NonNegative(amount) == validMinor(amount) /\ amount >= 0

feeFormulaIsValid(formula) ==
    /\ formula.percentBps \in Nat
    /\ formula.feeVatBps \in 0 .. BpsUnit
    /\ NonNegative(formula.fixed)
    /\ formula.min # Null => NonNegative(formula.min)
    /\ formula.max # Null => NonNegative(formula.max)
    /\ formula.min # Null /\ formula.max # Null => formula.min <= formula.max

validateFeeRuleSet(rules) ==
    LET badFee  == \E r \in ToSet(rules.gateway) \union ToSet(rules.cod) : ~feeFormulaIsValid(r)
        badCost == \E r \in ToSet(rules.shipping) : ~NonNegative(r.cost)
        twice   == \/ Repeated(rules.gateway, LAMBDA r : <<r.instrument, r.scheme, r.provider>>) # {}
                   \/ Repeated(rules.cod, LAMBDA r : r.carrier) # {}
                   \/ Repeated(rules.shipping, LAMBDA r : <<r.country, r.region, r.carrier, r.direction>>) # {}
    IN  When(badFee \/ badCost, onOrder("FEE_RULE_INVALID")) \union When(twice, onOrder("DUPLICATE_RULE_KEY"))

QuantityFault(quantity, kind, id) ==
    IF quantity \notin Int THEN diagnostic("NON_INTEGER_QUANTITY", kind, id)
    ELSE When(quantity < 0, diagnostic("NEGATIVE_QUANTITY", kind, id))

MoneyFault(amounts, kind, id) ==
    When(\E m \in amounts : ~validMinor(m), diagnostic("NON_INTEGER_MINOR_UNITS", kind, id))

ItemFaults(order, items) ==
    (UNION {LET item == items[n]
            IN  When(item.orderId # order.id, diagnostic("ITEM_ORDER_ID_MISMATCH", "line", item.id))
                \union QuantityFault(item.quantity, "line", item.id)
                \union MoneyFault({item.unitPrice, item.gross, item.lineDiscount, item.lineTotal}, "line", item.id) :
                    n \in DOMAIN items})
    \union {<<"DUPLICATE_ITEM_ID", "line", items[n].id>> :
                n \in Repeated(items, LAMBDA i : i.id) \union Repeated(items, LAMBDA i : i.lineId)}

ReversalLines(reversal) == IF reversal.lines = Null THEN <<>> ELSE reversal.lines

ReversalFaults(order, reversals) ==
    (UNION {LET reversal == reversals[n]
            IN  When(reversal.orderId # order.id, diagnostic("REVERSAL_ORDER_ID_MISMATCH", "reversal", reversal.id))
                \union UNION {QuantityFault(line.quantity, "reversal", reversal.id)
                              \union MoneyFault({line.amount}, "reversal", reversal.id) :
                                  line \in ToSet(ReversalLines(reversal))} : n \in DOMAIN reversals})
    \union {<<"DUPLICATE_ITEM_ID", "reversal", reversals[n].id>> : n \in Repeated(reversals, LAMBDA r : r.id)}

ShipmentFaults(shipments) ==
    (UNION {MoneyFault({shipments[n].carrierCost} \ {Null}, "shipment", shipments[n].id) : n \in DOMAIN shipments})
    \union {<<"DUPLICATE_ITEM_ID", "shipment", shipments[n].id>> : n \in Repeated(shipments, LAMBDA s : s.id)}

CostFaults(costs) ==
    LET Skued == SelectSeq(costs, LAMBDA c : c.sku # Null)
    IN  MoneyFault({c.unitCost : c \in ToSet(costs)}, "order", 0)
        \union When(\/ Repeated(costs, LAMBDA c : <<c.product, c.variant>>) # {}
                    \/ Repeated(Skued, LAMBDA c : c.sku) # {}, onOrder("DUPLICATE_COST_KEY"))

\* The fatal diagnostics of an input: none means that it is computed.
normalizeAndValidate(in) ==
    IF Null \in {in.order, in.store, in.rules} THEN onOrder("MALFORMED_INPUT")
    ELSE LET order == in.order
             store == in.store
         IN  When(store.currency \notin Currencies, onOrder("MALFORMED_INPUT"))
             \union When({order.currency, in.rules.currency} # {store.currency}, onOrder("CURRENCY_MISMATCH"))
             \union When(store.timezone = Null, onOrder("INVALID_TIMEZONE"))
             \union When(order.placedAt = Null, onOrder("MALFORMED_TIMESTAMP"))
             \union validateFeeRuleSet(in.rules)
             \union MoneyFault({order.subtotal, order.vat, order.shipping, order.codFee, order.total}, "order", 0)
             \union ItemFaults(order, in.items)
             \union ReversalFaults(order, in.reversals)
             \union ShipmentFaults(in.shipments)
             \union CostFaults(in.costs)

\* What a sum or a set is taken of is a function of ids, what is folded a sequence in id order.
ById(seq) == [i \in {r.id : r \in ToSet(seq)} |-> CHOOSE r \in ToSet(seq) : r.id = i]
InIdOrder(seq) == SortSeq(seq, LAMBDA a, b : a.id < b.id)

\* The store's calendar day an instant, in hours, falls on.
businessDateOf(instant, timezone) == (instant + ZoneOffset[timezone]) \div 24

------------------------------------------------------------------------------
(* Refunds and returned stock (engine/reversal.ts)                          *)

RECOVERS_COGS   == {"restocked_sellable"}
UNKNOWN_RESTOCK == {"pending_receipt", "unknown"}
ARRIVED_BACK    == {"returned_to_origin", "delivered"}

rtoGoodsRecovered(shipments) ==
    \E s \in Range(shipments) : s.direction = "return" /\ s.status \in ARRIVED_BACK

Smaller(a, b) == IF a < b THEN a ELSE b
AtLeastZero(n) == IF n < 0 THEN 0 ELSE n

Plus(f, g) == [k \in DOMAIN f |-> IF k \in DOMAIN g THEN f[k] + g[k] ELSE f[k]]

\* Adds an allocation of `total` by line weight to a tally.
spread(total, tally, weights) ==
    IF total = 0 \/ DOMAIN weights = {} THEN tally ELSE Plus(tally, allocateMinor(total, weights))

(***************************************************************************)
(* Spreads a credit by weight, no line taking more than its own cost, and  *)
(* spreads again what the full lines could not take.  The first round also *)
(* deals to lines that are already full; a round in which nothing lands    *)
(* ends the loop.  A round that leaves a remainder otherwise fills a line, *)
(* so the loop is over after one round per line.                           *)
(***************************************************************************)
Absorbed(state, take, costs) ==
    LET into  == Plus(state.into, take)
        taken == SumFunction(take)
    IN  [ into      |-> into,
          remaining |-> state.remaining - taken,
          open      |-> {k \in state.open : taken # 0 /\ costs[k] - into[k] > 0} ]

\* What each open line takes of its share.
Taken(state, share, costs) ==
    [k \in state.open |-> AtLeastZero(Smaller(share[k], costs[k] - state.into[k]))]

AbsorbOnce(state, weights, costs) ==
    IF state.remaining <= 0 \/ state.open = {} THEN state
    ELSE Absorbed(state,
                  Taken(state, allocateMinor(state.remaining, [k \in state.open |-> weights[k]]), costs), costs)

\* Faulty variant: what the full lines could not take is discarded.
spreadCappedOnce(total, tally, weights, costs) ==
    AbsorbOnce([into |-> tally, remaining |-> total, open |-> {k \in DOMAIN weights : costs[k] > 0}],
               weights, costs).into

spreadCappedByCogs(total, tally, weights, costs) ==
    LET lines == DOMAIN weights
        round[n \in 0 .. Cardinality(lines) + 1] ==
            IF n = 0 THEN [into |-> tally, remaining |-> total, open |-> {k \in lines : costs[k] > 0}]
            ELSE AbsorbOnce(round[n - 1], weights, costs)
    IN  round[Cardinality(lines) + 1].into

OrderLevelRefund(reversal) == reversal.shippingRefund + reversal.codFeeRefund + reversal.adjustment

ClaimedTotal(reversal) == SumOver(ReversalLines(reversal), LAMBDA l : l.amount)

\* What its lines claim of each line of the order.
ClaimedOf(reversal, ids) ==
    [i \in ids |-> SumOver(ReversalLines(reversal), LAMBDA l : IF l.item = i THEN l.amount ELSE 0)]

\* Faulty variant: a refunded line the order does not have is dropped.
unmatchedIfKnown(reversal, ids) == AtLeastZero(reversal.amount - ClaimedTotal(reversal))

\* Item revenue on no line of the order: what the lines leave out, and what they claim of others.
unmatched(reversal, ids) ==
    AtLeastZero(reversal.amount - ClaimedTotal(reversal))
    + SumOver(ReversalLines(reversal), LAMBDA l : IF l.item \in ids THEN 0 ELSE l.amount)

\* The revenue a reversal takes back from each line.  With line detail, the lines as claimed and
\* the rest by line weight; without, everything by line weight.
ReversedRevenue(reversal, weights) ==
    LET orderLevel == OrderLevelRefund(reversal)
        claimed    == ClaimedOf(reversal, DOMAIN weights)
    IN  IF reversal.lines = Null THEN spread(reversal.amount + orderLevel, claimed, weights)
        ELSE spread(orderLevel, spread(unmatched(reversal, DOMAIN weights), claimed, weights), weights)

\* Some of the split over the lines is the engine's own arithmetic, and why.
AllocatedBecause(reversal, ids) ==
    LET Why(condition, code) == When(condition, diagnostic(code, "reversal", reversal.id))
    IN  Why(reversal.lines # Null /\ ClaimedTotal(reversal) # reversal.amount, "REVERSAL_TOTAL_MISMATCH")
        \union Why(\E l \in ToSet(ReversalLines(reversal)) : l.item \notin ids, "REVERSAL_LINE_UNMATCHED")
        \union Why(reversal.lines = Null \/ OrderLevelRefund(reversal) # 0, "REVERSAL_LINES_ALLOCATED")

RestockUnknown(reversal, ids) ==
    LET outcomes == IF reversal.lines = Null THEN {reversal.restock}
                    ELSE {l.restock : l \in {l \in ToSet(reversal.lines) : l.item \in ids}}
    IN  When(outcomes \intersect UNKNOWN_RESTOCK # {}, diagnostic("RESTOCK_UNKNOWN", "reversal", reversal.id))

\* The goods of one detailed line, booked on the tallies of the order's lines.
BookReversalLine(t, line, quantities, unitCosts) ==
    IF line.item \notin DOMAIN quantities THEN t
    ELSE LET creditable == AtLeastZero(Smaller(line.quantity, quantities[line.item] - t.quantity[line.item]))
         IN  [t EXCEPT !.quantity[line.item] = @ + creditable,
                       !.restocked[line.item] =
                           @ + IF line.restock \in RECOVERS_COGS THEN unitCosts[line.item] * creditable ELSE 0]

BookDetailed(t, reversal, items, cogs) ==
    LET quantities == [i \in DOMAIN items |-> items[i].quantity]
        units      == [i \in DOMAIN items |-> cogs[i].unit]
    IN  FoldLeft(LAMBDA acc, l : BookReversalLine(acc, l, quantities, units), t, reversal.lines)

\* Without line detail: the stock in proportion to the item revenue reversed.
BookUndetailed(t, reversal, items, cogs) ==
    LET weights    == LineTotals(items)
        costs      == [i \in DOMAIN items |-> cogs[i].cogs]
        itemsGross == SumFunction(weights)
        restocks   == reversal.restock \in RECOVERS_COGS /\ reversal.amount > 0 /\ itemsGross > 0
        share      == (SumFunction(costs) * reversal.amount) \div itemsGross
    IN  [t EXCEPT !.restocked = IF restocks THEN spreadCappedByCogs(share, @, weights, costs) ELSE @]

\* The goods the reversals bring back, each cut down by what those before it brought.
GoodsBack(reversals, items, cogs) ==
    LET zero       == [i \in DOMAIN items |-> 0]
        Book(t, r) == IF r.lines = Null THEN BookUndetailed(t, r, items, cogs) ELSE BookDetailed(t, r, items, cogs)
    IN  FoldLeft(Book, [quantity |-> zero, restocked |-> zero], InIdOrder(reversals))

\* You cannot get back more goods than you shipped.
CogsBack(restocked, cogs) == AtLeastZero(Smaller(restocked, cogs))

ReversalImpact(lines, allocated, inferredRestock, diagnostics) ==
    [ lines     |-> lines,
      reversed  |-> SumFunction([i \in DOMAIN lines |-> lines[i].reversed]),
      restocked |-> SumFunction([i \in DOMAIN lines |-> lines[i].restocked]),
      impact    |-> SumFunction([i \in DOMAIN lines |-> lines[i].impact]),
      allocated |-> allocated, inferredRestock |-> inferredRestock, diagnostics |-> diagnostics ]

\* Faulty variant: the goods are booked, the money is not.
LineReversalGoodsOnly(quantity, reversed, restocked) ==
    [quantity |-> quantity, reversed |-> reversed, restocked |-> restocked, impact |-> restocked]

LineReversal(quantity, reversed, restocked) ==
    [quantity |-> quantity, reversed |-> reversed, restocked |-> restocked, impact |-> restocked - reversed]

\* What the reversals together say of each line.
TalliedLines(reversals, items, cogs, recognized) ==
    LET goods   == GoodsBack(reversals, items, cogs)
        money   == [n \in DOMAIN reversals |-> ReversedRevenue(reversals[n], LineTotals(items))]
        Back(i) == SumFunction([n \in DOMAIN reversals |-> money[n][i]])
    IN  [i \in DOMAIN items |->
            LineReversal(Smaller(goods.quantity[i], items[i].quantity), IF recognized THEN Back(i) ELSE 0,
                         CogsBack(goods.restocked[i], cogs[i].cogs))]

TalliedImpact(reversals, items, cogs, recognized) ==
    LET reasons == UNION {AllocatedBecause(r, DOMAIN items) : r \in ToSet(reversals)}
    IN  ReversalImpact(TalliedLines(reversals, items, cogs, recognized), reasons # {}, FALSE,
                       reasons \union UNION {RestockUnknown(r, DOMAIN items) : r \in ToSet(reversals)})

computeReversalImpact(reversals, items, cogs, recognition, shipments, dispatched) ==
    LET ids        == DOMAIN items
        undispatchedRecovery ==
            /\ recognition.kind = "cost_only"
            /\ recognition.reason \in {"cancelled_after_capture", "cancelled_after_dispatch", "payment_not_settled"}
            /\ ~dispatched
        rtoRecovery == recognition.kind = "cost_only" /\ recognition.reason = "rto_uncollected"
        empty      == [i \in ids |-> LineReversal(0, 0, 0)]
        wholeOrder == [i \in ids |-> LineReversal(items[i].quantity, 0, cogs[i].cogs)]
    IN  IF undispatchedRecovery THEN ReversalImpact(wholeOrder, FALSE, TRUE, {})
        ELSE IF rtoRecovery
        THEN IF rtoGoodsRecovered(shipments) THEN ReversalImpact(wholeOrder, FALSE, TRUE, {})
             ELSE ReversalImpact(empty, FALSE, FALSE, onOrder("RESTOCK_UNKNOWN"))
        ELSE IF reversals = <<>> THEN ReversalImpact(empty, FALSE, FALSE, {})
        ELSE TalliedImpact(reversals, items, cogs, recognition.kind = "recognized")

------------------------------------------------------------------------------
(* Order-level amounts pushed down to the lines (engine/allocate-lines.ts)  *)

\* Freight parcel by parcel, unless some parcel does not say which lines it carried.
spreadParcels(parcels, total, weights) ==
    LET carried == [n \in DOMAIN parcels |-> parcels[n].lineIds \intersect DOMAIN weights]
        share   == [n \in DOMAIN parcels |-> allocateMinor(parcels[n].cost, [i \in carried[n] |-> weights[i]])]
    IN  IF DOMAIN parcels = {} \/ \E n \in DOMAIN parcels : carried[n] = {}
        THEN allocateMinor(total, weights)
        ELSE [i \in DOMAIN weights |->
                  SumFunction([n \in DOMAIN parcels |-> IF i \in carried[n] THEN share[n][i] ELSE 0])]

allocateOrderCostsToLines(items, revenue, cogs, reversal, outbound, returned, gateway, cod) ==
    LET weights  == LineTotals(items)
        reversed == [i \in DOMAIN items |-> reversal[i].reversed]
        shipping == allocateMinor(revenue.shipping - revenue.shippingDiscount, weights)
        codFee   == allocateMinor(revenue.codFee - revenue.codFeeDiscount, weights)
        out      == spreadParcels(outbound.parcels, outbound.cost, weights)
        back     == IF \E i \in DOMAIN items : reversed[i] > 0 THEN allocateMinor(returned.cost, reversed)
                    ELSE spreadParcels(returned.parcels, returned.cost, weights)
        fee      == allocateMinor(gateway.cost, weights)
        codCost  == allocateMinor(cod.cost, weights)
    IN  [i \in DOMAIN items |->
            [ net |-> revenue.lines[i].net, shipping |-> shipping[i], codFee |-> codFee[i], cogs |-> cogs[i].cogs,
              outbound |-> out[i], returned |-> back[i], gateway |-> fee[i], cod |-> codCost[i],
              reversedQuantity |-> reversal[i].quantity, reversed |-> reversed[i],
              restocked |-> reversal[i].restocked, impact |-> reversal[i].impact,
              margin |-> revenue.lines[i].net + shipping[i] + codFee[i] + reversal[i].impact
                         - (cogs[i].cogs + out[i] + back[i] + fee[i] + codCost[i]),
              covered |-> IF cogs[i].covered THEN revenue.lines[i].net ELSE 0 ]]

------------------------------------------------------------------------------
(* Confidence (engine/confidence.ts)                                        *)

SETTLED == {"actual", "not_applicable"}

\* Faulty variant: the bases alone are graded.
deriveConfidenceFromBases(terms, codes) ==
    LET bases == {terms.cogs, terms.outbound, terms.returned, terms.gateway, terms.cod}
    IN  [ revenue |-> IF terms.reconciles THEN "reported" ELSE "unreconciled", cogs |-> terms.cogs,
          outbound |-> terms.outbound, returned |-> terms.returned, gateway |-> terms.gateway, cod |-> terms.cod,
          reversal |-> terms.reversal,
          level |-> IF "missing" \in bases \/ ~terms.reconciles THEN "incomplete"
                    ELSE IF bases \subseteq SETTLED /\ terms.reversal # "allocated" THEN "exact" ELSE "estimated" ]

deriveConfidence(terms, codes) ==
    LET cogs     == IF "RESTOCK_UNKNOWN" \in codes /\ terms.cogs \in SETTLED THEN "estimated" ELSE terms.cogs
        reversal == IF codes \intersect {"REVERSAL_LINE_UNMATCHED", "REVERSAL_TOTAL_MISMATCH"} # {}
                    THEN "allocated" ELSE terms.reversal
        revenue  == IF terms.reconciles /\ "ORDER_HAS_NO_ITEMS" \notin codes THEN "reported" ELSE "unreconciled"
        bases    == {cogs, terms.outbound, terms.returned, terms.gateway, terms.cod}
    IN  [ revenue |-> revenue, cogs |-> cogs, outbound |-> terms.outbound, returned |-> terms.returned,
          gateway |-> terms.gateway, cod |-> terms.cod, reversal |-> reversal,
          level |-> IF "missing" \in bases \/ revenue = "unreconciled" THEN "incomplete"
                    ELSE IF bases \subseteq SETTLED /\ reversal # "allocated" THEN "exact"
                    ELSE "estimated" ]

------------------------------------------------------------------------------
(* The engine (compute-order-profit.ts)                                     *)

FATAL == {"CURRENCY_MISMATCH", "ITEM_ORDER_ID_MISMATCH", "REVERSAL_ORDER_ID_MISMATCH",
          "NON_INTEGER_MINOR_UNITS", "NEGATIVE_QUANTITY", "NON_INTEGER_QUANTITY", "DUPLICATE_COST_KEY",
          "DUPLICATE_ITEM_ID", "DUPLICATE_RULE_KEY", "FEE_RULE_INVALID", "MALFORMED_INPUT",
          "MALFORMED_TIMESTAMP", "INVALID_TIMEZONE", "INTERNAL_INVARIANT_VIOLATED"}

severityOf(code) == IF code \in FATAL THEN "fatal" ELSE "warning"

Rejected(diagnostics) == [status |-> "rejected", diagnostics |-> diagnostics]

marginBpsOf(margin, revenue) ==
    IF revenue <= 0 THEN Null ELSE divRoundHalfAwayFromZero(margin * BpsUnit, revenue)

\* The terms of the margin.
termsOf(in, items, shipments, recognition, cogs) ==
    [ recognition |-> recognition,
      revenue     |-> computeRevenue(in.order, items, recognition),
      cogs        |-> cogs,
      outbound    |-> computeShippingCost(in.order, shipments, in.rules.shipping, "outbound"),
      returned    |-> computeShippingCost(in.order, shipments, in.rules.shipping, "return"),
      gateway     |-> computeGatewayFees(in.order, in.rules.gateway, in.store.vatRegistered),
      cod         |-> computeCodCost(in.order, shipments, in.rules.cod, in.store.vatRegistered),
      reversal    |-> computeReversalImpact(in.reversals, items, cogs.lines, recognition, shipments,
                                            in.order.fulfillmentState \in DISPATCHED) ]

Excluded(t) == t.recognition.kind = "excluded"

linesOf(t, items) ==
    IF Excluded(t) \/ DOMAIN items = {} THEN <<>>
    ELSE allocateOrderCostsToLines(items, t.revenue, t.cogs.lines, t.reversal.lines,
                                   t.outbound, t.returned, t.gateway, t.cod)

\* Of an excluded order not even the costs are recognized.
totalsOf(t, lines) ==
    LET Cost(amount) == IF Excluded(t) THEN 0 ELSE amount
    IN  [ items |-> t.revenue.items, shipping |-> t.revenue.shipping, codFee |-> t.revenue.codFee,
          orderDiscount |-> t.revenue.orderDiscount, revenue |-> t.revenue.revenue, vat |-> t.revenue.vat,
          cogs |-> Cost(t.cogs.cogs), outbound |-> Cost(t.outbound.cost), returned |-> Cost(t.returned.cost),
          gatewayExVat |-> Cost(t.gateway.exVat), gatewayVat |-> Cost(t.gateway.vat), gateway |-> Cost(t.gateway.cost),
          codExVat |-> Cost(t.cod.exVat), codVat |-> Cost(t.cod.vat), cod |-> Cost(t.cod.cost),
          reversed |-> Cost(t.reversal.reversed), restocked |-> Cost(t.reversal.restocked),
          impact |-> Cost(t.reversal.impact),
          margin |-> t.revenue.revenue + Cost(t.reversal.impact)
                     - Cost(t.cogs.cogs + t.outbound.cost + t.returned.cost + t.gateway.cost + t.cod.cost),
          covered |-> SumFunction([i \in DOMAIN lines |-> lines[i].covered]) ]

diagnosticsOf(t) ==
    t.revenue.diagnostics \union t.cogs.diagnostics \union t.outbound.diagnostics \union t.returned.diagnostics
    \union t.gateway.diagnostics \union t.cod.diagnostics \union t.reversal.diagnostics

basesOf(t, items, reversals) ==
    LET Basis(basis) == IF Excluded(t) THEN "not_applicable" ELSE basis
    IN  [ reconciles |-> t.revenue.reconciles,
          cogs     |-> IF Excluded(t) \/ DOMAIN items = {} THEN "not_applicable"
                       ELSE WorstBasis(t.cogs.anyMissing, t.cogs.anyEstimated \/ t.reversal.inferredRestock),
          outbound |-> Basis(t.outbound.basis), returned |-> Basis(t.returned.basis),
          gateway  |-> Basis(t.gateway.basis), cod |-> Basis(t.cod.basis),
          reversal |-> IF reversals = <<>> THEN "not_applicable"
                       ELSE IF t.reversal.allocated THEN "allocated" ELSE "reported" ]

\* A sum past the range of a Minor throws, wherever it is taken.
Overflows(in, t, totals, lines) ==
    \E m \in Range(totals) \union (UNION {Range(lines[i]) : i \in DOMAIN lines})
             \union {t.revenue.expectedTotal, CapturedTotal(in.order), t.gateway.cost, t.cod.cost, t.cogs.cogs} :
        ~validMinor(m)

resultOf(in, items, t, totals, lines, diagnostics) ==
    IF Overflows(in, t, totals, lines) THEN Rejected(onOrder("INTERNAL_INVARIANT_VIOLATED"))
    ELSE [ status |-> "computed", businessDate |-> businessDateOf(in.order.placedAt, in.store.timezone),
           recognition |-> t.recognition, totals |-> totals,
           marginBps |-> marginBpsOf(totals.margin, t.revenue.revenue), lines |-> lines,
           confidence |-> deriveConfidence(basesOf(t, items, in.reversals), {d[1] : d \in diagnostics}),
           diagnostics |-> diagnostics ]

summedUp(in, items, t, lines) == resultOf(in, items, t, totalsOf(t, lines), lines, diagnosticsOf(t))
pushedDown(in, items, t)      == summedUp(in, items, t, linesOf(t, items))

\* The whole calculation on a valid input, in canonical order.
computeInOrder(in, items, shipments) ==
    pushedDown(in, items, termsOf(in, items, shipments, computeRecognition(in.order, shipments),
                                  computeCogs(items, in.costs)))

compute(in) == computeInOrder(in, ById(in.items), ById(in.shipments))

\* Total: whatever goes wrong is a rejected result, never an exception.
computeOrderProfit(in) ==
    LET fatal == normalizeAndValidate(in)
    IN  IF fatal # {} THEN Rejected(fatal)
        ELSE IF in.store.timezone \notin DOMAIN ZoneOffset THEN Rejected(onOrder("INVALID_TIMEZONE"))
        ELSE compute(in)

isRankableForLossMaker(result) ==
    /\ result.status = "computed"
    /\ result.confidence.level # "incomplete"
    /\ result.recognition.kind # "excluded"
===============================================================================
