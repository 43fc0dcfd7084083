---------------------------- MODULE MCProfitStore ----------------------------
EXTENDS ProfitStore

Entry(product, variant, sku, cost, from) ==
    [product |-> product, variant |-> variant, sku |-> sku, cost |-> cost, from |-> from]

\* A product's cost, two corrections of it, and one of its variant's.
MCFirstCost == Entry(1, Null, Null, 1, 0)
MCEntries == { Entry(1, Null, Null, 2, 1), Entry(1, Null, Null, 3, 2), Entry(1, 5, 8, 4, 1) }

Key(product, variant, sku) == [product |-> product, variant |-> variant, sku |-> sku]

\* A line costed by its variant or its product, and one costed by SKU alone.
MCLines == { {Key(1, 5, 8)}, {Key(1, 5, 8), Key(2, Null, 8)} }

MCPlacedAt == [o \in Orders |-> o - 1]
===============================================================================
