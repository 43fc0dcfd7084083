----------------------------- MODULE MCOrderLife -----------------------------
EXTENDS OrderLife

Item(n, total, qty, variant) ==
    [ id |-> n, orderId |-> 1, lineId |-> 10 + n, product |-> n, variant |-> variant, sku |-> n,
      quantity |-> qty, unitPrice |-> total \div qty, gross |-> total + 2, lineDiscount |-> 2, lineTotal |-> total ]

\* A high-margin line beside a low-margin one, with a free gift; a single line.
Mixed == <<Item(1, 90, 3, Null), Item(2, 10, 2, 5), Item(3, 0, 1, Null)>>
Single == <<Item(1, 40, 1, Null)>>

Cost(n, variant, sku, unit, source) ==
    [product |-> n, variant |-> variant, sku |-> sku, unitCost |-> unit, source |-> source]

\* All exact (one by SKU); one line without a cost; one guessed.
Costed == << Cost(1, Null, 1, 3, "merchant_manual"), Cost(9, 5, 2, 4, "platform"),
             Cost(3, Null, Null, 2, "platform"), Cost(2, 6, Null, 9, "category_default") >>
Guessed == << Cost(1, Null, Null, 3, "category_default") >>

Fee(instrument, scheme, bps, fixed, source) ==
    [ instrument |-> instrument, scheme |-> scheme, provider |-> Null, percentBps |-> bps, fixed |-> fixed,
      min |-> Null, max |-> 6, feeVatBps |-> 1500, ratesIncludeVat |-> bps = 250, source |-> source ]

Ruled ==
    [ currency |-> "SAR",
      gateway  |-> << Fee("card", "visa", 250, 1, "gateway_statement"), Fee("card", "mada", 100, 1, "gateway_statement"),
                      Fee("card", Null, 300, 0, "default_table"), Fee(Null, Null, 400, 0, "merchant_entered") >>,
      cod      |-> << Fee(Null, Null, 0, 5, "gateway_statement") @@ [carrier |-> 1],
                      Fee(Null, Null, 0, 6, "default_table") @@ [carrier |-> Null] >>,
      shipping |-> << [country |-> "SA", region |-> Null, carrier |-> Null, direction |-> "any", cost |-> 20],
                      [country |-> Null, region |-> Null, carrier |-> 2, direction |-> "outbound", cost |-> 17] >> ]
Unruled == [ currency |-> "SAR", gateway |-> <<>>, cod |-> <<>>, shipping |-> <<>> ]

Discounted == << [target |-> "items", reflected |-> FALSE, amount |-> 7],
                 [target |-> "shipping", reflected |-> FALSE, amount |-> 5],
                 [target |-> "items", reflected |-> TRUE, amount |-> 3] >>

World(items, discounts, method, costs, rules, registered, skew) ==
    [ items |-> items, discounts |-> discounts, method |-> method, costs |-> costs, rules |-> rules,
      registered |-> registered, skew |-> skew ]

MCWorlds == { World(Mixed, <<>>, "carrier", Costed, Ruled, TRUE, 0),
              World(Mixed, Discounted, "carrier", Guessed, Ruled, FALSE, 0),
              World(Single, Discounted, "digital", Costed, Unruled, TRUE, 1) }

Leg(instrument, scheme, amount) ==
    [instrument |-> instrument, scheme |-> scheme, provider |-> Null, state |-> "captured", amount |-> amount]

MCPayments == { Leg("card", "visa", 128), Leg("card", "unknown", 60), Leg("cod", Null, 121) }

Parcel(direction, carrier, cost, lineIds) ==
    [ direction |-> direction, status |-> "in_transit", carrier |-> carrier, carrierCost |-> cost,
      lineIds |-> lineIds ]

MCParcels == { Parcel("outbound", 1, 13, {1}), Parcel("outbound", 2, Null, {2, 3}), Parcel("return", 1, 8, {2}) }

Reversal(amount, shipping, lines, restock) ==
    [ orderId |-> 1, amount |-> amount, shippingRefund |-> shipping, codFeeRefund |-> 0, adjustment |-> 0,
      vat |-> 1, total |-> amount + shipping + 1, lines |-> lines, restock |-> restock, kind |-> "refund",
      reason |-> "customer_return", occurredAt |-> 50 ]

ReturnLine(item, qty, amount, restock) == [item |-> item, quantity |-> qty, amount |-> amount, restock |-> restock]

MCRefunds ==
    { Reversal(100, 0, Null, "restocked_sellable"),
      Reversal(10, 5, Null, "pending_receipt"),
      Reversal(40, 0, <<ReturnLine(1, 1, 30, "restocked_sellable"), ReturnLine(7, 1, 5, "unknown")>>, "not_applicable"),
      Reversal(90, 0, <<ReturnLine(1, 4, 90, "restocked_sellable")>>, "not_applicable") }

MCFaults == { "null_order", "currency", "no_currency", "timezone", "no_timezone", "placed_at", "item_twice",
              "stray_item", "quantity", "fraction", "huge", "overflow", "cost_twice", "rule_twice",
              "rule_bounds", "stray_refund", "refund_twice", "parcel_twice" }

MCZoneOffset == [z \in {"Asia/Riyadh"} |-> 3]
===============================================================================
