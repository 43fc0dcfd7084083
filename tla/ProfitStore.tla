----------------------------- MODULE ProfitStore -----------------------------
(***************************************************************************)
(* The stored results of the engine and the daily rollups over them        *)
(* (order-profit.repository.ts), with the cost history they are computed   *)
(* from.  Saving a result marks the buckets it touches dirty in the same   *)
(* transaction; a rebuild clears only dirty ones.                          *)
(*                                                                         *)
(* The platform, the recompute worker and the rebuild worker are external: *)
(* a recompute reads the order's facts and costs, computes, and saves      *)
(* later or never; a rebuild reads the bucket's rows and writes the bucket *)
(* in one transaction.  A bucket's sums are kept as the set of rows they   *)
(* are the sums of.                                                        *)
(***************************************************************************)
EXTENDS CostHistory, Sequences, Functions

CONSTANTS
    Workers,      \* recompute workers
    Orders,
    placedAt,     \* order -> the instant it was placed
    Dates,        \* business dates
    Lines,        \* what may be on an order: sets of product keys
    Price,        \* what a line earns before its cost
    Limit,        \* findStaleOrderIds' limit
    MaxVersion,   \* bound on CALC_VERSION
    MaxChanges    \* bound on corrections of costs and changes of facts together

\* What a line may be said to earn, and an order; a bucket of such figures.
Figures == {Price - c : c \in {0} \union {e.cost : e \in Recordable}}
Margins == {SumFunction(f) : f \in UNION {[l -> Figures] : l \in Lines}}
Bucket  == [dirty: BOOLEAN, rows: SUBSET (Orders \X (Figures \union Margins))]

ASSUME StoreAssumption ==
    /\ Dates # {} /\ Lines # {}
    /\ Null \notin Dates /\ Null \notin Bucket

VARIABLES
    facts,          \* order -> its business date, its lines, and whether the engine accepts it
    due,            \* orders whose facts changed since they were last saved
    changes,        \* corrections and late facts so far
    calcVersion,    \* CALC_VERSION of the deployed engine
    work,           \* worker -> the result it is about to save, or Null
    orderProfit,    \* order -> its order_profit row with its order_profit_lines, or Null
    computedAt,     \* the orders with a row, longest since saved first
    storeRollup,    \* date -> daily_store_rollup row, or Null
    variantRollup,  \* <<date, product, variant>> -> daily_variant_rollup row, or Null
    marking         \* dates markDirtyByFeeRuleSet has read and not yet marked, or Null

profitVars == <<facts, due, changes, calcVersion, work, orderProfit, computedAt, storeRollup, variantRollup, marking>>
vars == <<costVars, profitVars>>

\* A line's bucket: a missing variant is stored as the empty string.
NoVariant == "none"
BucketKey(key) == <<key.product, IF key.variant = Null THEN NoVariant ELSE key.variant>>
BucketKeys == {BucketKey(key) : key \in UNION Lines}

Computed(o) == orderProfit[o] # Null /\ orderProfit[o].status = "computed"
Margin(row) == SumFunction(row.lines)

------------------------------------------------------------------------------
(* What the engine makes of an order                                        *)

\* `cost` picks, for every line, one of the costs in force when the order was placed.
CostsOf(o) ==
    {cost \in [facts[o].lines -> {0} \union {r.cost : r \in history}] :
        \A key \in facts[o].lines :
            LET rows == resolveAsOf(key, placedAt[o])
            IN  IF rows = {} THEN cost[key] = 0 ELSE \E r \in rows : cost[key] = r.cost}

resultOf(o, cost) ==
    IF ~facts[o].accepted THEN [order |-> o, status |-> "rejected", version |-> calcVersion]
    ELSE [order |-> o, status |-> "computed", version |-> calcVersion, date |-> facts[o].date,
          lines |-> [key \in facts[o].lines |-> Price - cost[key]]]

findStaleOrderIds ==
    LET stale == SelectSeq(computedAt, LAMBDA o : orderProfit[o].version < calcVersion)
    IN  {stale[n] : n \in 1 .. (IF Len(stale) < Limit THEN Len(stale) ELSE Limit)}

------------------------------------------------------------------------------
(* save                                                                     *)

Dirty(bucket) == IF bucket = Null THEN [dirty |-> TRUE, rows |-> {}] ELSE [bucket EXCEPT !.dirty = TRUE]

\* Faulty variant: only the day's bucket is marked.
markDirtyStoreOnly(date, lines) ==
    /\ storeRollup' = [storeRollup EXCEPT ![date] = Dirty(@)]
    /\ UNCHANGED variantRollup

markDirty(date, lines) ==
    /\ storeRollup' = [storeRollup EXCEPT ![date] = Dirty(@)]
    /\ variantRollup' = [b \in DOMAIN variantRollup |->
                            IF b[1] = date /\ \E key \in lines : BucketKey(key) = <<b[2], b[3]>>
                            THEN Dirty(variantRollup[b]) ELSE variantRollup[b]]

\* Faulty variant: a dead-lettered order keeps the version it had.
RejectedUnstamped(result, old) ==
    [status |-> "rejected", version |-> IF old = Null THEN result.version ELSE old.version,
     date |-> Null, feeRuleSet |-> Null, lines |-> <<>>]

\* A rejected row: stamped and dated, every figure cleared, its lines deleted.
RejectedRow(result, old) ==
    [status |-> "rejected", version |-> result.version, date |-> Null, feeRuleSet |-> Null, lines |-> <<>>]

ComputedRow(result) ==
    [status |-> "computed", version |-> result.version, date |-> result.date, feeRuleSet |-> "rules",
     lines |-> result.lines]

\* The row, the time of its computation, and the worker's hands.
Saved(w, o, row) ==
    /\ orderProfit' = [orderProfit EXCEPT ![o] = row]
    /\ computedAt' = Append(SelectSeq(computedAt, LAMBDA p : p # o), o)
    /\ work' = [work EXCEPT ![w] = Null]
    /\ due' = due \ {o}
    /\ UNCHANGED <<costVars, facts, changes, calcVersion, marking>>

SaveComputed(w) ==
    /\ work[w] # Null /\ work[w].result.status = "computed"
    /\ LET result == work[w].result
       IN  /\ Saved(w, result.order, ComputedRow(result))
           /\ markDirty(result.date, DOMAIN result.lines)

\* A rejection first reads which day the order used to be on; another save may come in between.
SaveRejectedRead(w) ==
    /\ work[w] # Null /\ work[w].result.status = "rejected" /\ work[w].step = "computed"
    /\ LET old == orderProfit[work[w].result.order]
       IN  work' = [work EXCEPT ![w].step = "read", ![w].previous = IF old = Null THEN Null ELSE old.date]
    /\ UNCHANGED <<costVars, facts, due, changes, calcVersion, orderProfit, computedAt, storeRollup, variantRollup, marking>>

SaveRejected(w) ==
    /\ work[w] # Null /\ work[w].step = "read"
    /\ LET result == work[w].result
           date   == work[w].previous
       IN  /\ Saved(w, result.order, RejectedRow(result, orderProfit[result.order]))
           /\ storeRollup' = IF date = Null THEN storeRollup ELSE [storeRollup EXCEPT ![date] = Dirty(@)]
    /\ UNCHANGED variantRollup

\* markDirtyByFeeRuleSet: the dates are read, then marked, with no transaction around the two.
FeeRulesRead ==
    /\ marking = Null
    /\ LET dates == {orderProfit[o].date : o \in {o \in Orders : orderProfit[o] # Null
                                                                 /\ orderProfit[o].feeRuleSet = "rules"}} \ {Null}
       IN  dates # {} /\ marking' = dates
    /\ UNCHANGED <<costVars, facts, due, changes, calcVersion, work, orderProfit, computedAt, storeRollup, variantRollup>>

FeeRulesMark ==
    /\ marking # Null
    /\ storeRollup' = [d \in Dates |-> IF d \in marking THEN Dirty(storeRollup[d]) ELSE storeRollup[d]]
    /\ marking' = Null
    /\ UNCHANGED <<costVars, facts, due, changes, calcVersion, work, orderProfit, computedAt, variantRollup>>

------------------------------------------------------------------------------
(* The platform and the workers                                             *)

Init ==
    /\ CostInit
    /\ facts = [o \in Orders |-> [date |-> CHOOSE d \in Dates : TRUE, lines |-> CHOOSE l \in Lines : TRUE,
                                  accepted |-> TRUE]]
    /\ due = Orders /\ changes = 0 /\ calcVersion = 1
    /\ work = [w \in Workers |-> Null]
    /\ orderProfit = [o \in Orders |-> Null] /\ computedAt = <<>>
    /\ storeRollup = [d \in Dates |-> Null]
    /\ variantRollup = [b \in {<<d>> \o k : d \in Dates, k \in BucketKeys} |-> Null]
    /\ marking = Null

\* A late fact: another day, other lines, or something the engine refuses.
Report(o, date, lines, accepted) ==
    /\ changes < MaxChanges
    /\ facts[o] # [date |-> date, lines |-> lines, accepted |-> accepted]
    /\ facts' = [facts EXCEPT ![o] = [date |-> date, lines |-> lines, accepted |-> accepted]]
    /\ due' = due \union {o}
    /\ changes' = changes + 1
    /\ UNCHANGED <<costVars, calcVersion, work, orderProfit, computedAt, storeRollup, variantRollup, marking>>

\* A merchant corrects a cost.
Correct(w, entry) ==
    /\ changes < MaxChanges
    /\ RecordCheck(w, entry)
    /\ changes' = changes + 1
    /\ UNCHANGED <<facts, due, calcVersion, work, orderProfit, computedAt, storeRollup, variantRollup, marking>>

Deploy ==
    /\ calcVersion < MaxVersion
    /\ calcVersion' = calcVersion + 1
    /\ UNCHANGED <<costVars, facts, due, changes, work, orderProfit, computedAt, storeRollup, variantRollup, marking>>

Recompute(w, o) ==
    /\ work[w] = Null
    /\ o \in due \union findStaleOrderIds
    /\ \E cost \in CostsOf(o) :
           work' = [work EXCEPT ![w] = [result |-> resultOf(o, cost), step |-> "computed", previous |-> Null]]
    /\ UNCHANGED <<costVars, facts, due, changes, calcVersion, orderProfit, computedAt, storeRollup, variantRollup, marking>>

WorkerCrash(w) ==
    /\ work[w] # Null
    /\ work' = [work EXCEPT ![w] = Null]
    /\ UNCHANGED <<costVars, facts, due, changes, calcVersion, orderProfit, computedAt, storeRollup, variantRollup, marking>>

\* The rows a bucket sums.
StoreRows(d) == {<<o, Margin(orderProfit[o])>> : o \in {o \in Orders : Computed(o) /\ orderProfit[o].date = d}}
VariantRows(b) ==
    UNION {{<<o, orderProfit[o].lines[key]>> : key \in {key \in DOMAIN orderProfit[o].lines : BucketKey(key) = <<b[2], b[3]>>}} :
               o \in {o \in Orders : Computed(o) /\ orderProfit[o].date = b[1]}}

RebuildStore(d) ==
    /\ storeRollup[d] # Null /\ storeRollup[d].dirty
    /\ storeRollup' = [storeRollup EXCEPT ![d] = [dirty |-> FALSE, rows |-> StoreRows(d)]]
    /\ UNCHANGED <<costVars, facts, due, changes, calcVersion, work, orderProfit, computedAt, variantRollup, marking>>

RebuildVariant(b) ==
    /\ variantRollup[b] # Null /\ variantRollup[b].dirty
    /\ variantRollup' = [variantRollup EXCEPT ![b] = [dirty |-> FALSE, rows |-> VariantRows(b)]]
    /\ UNCHANGED <<costVars, facts, due, changes, calcVersion, work, orderProfit, computedAt, storeRollup, marking>>

Next ==
    \/ \E w \in Writers : \/ \E entry \in Entries : Correct(w, entry)
                          \/ (RecordClose(w) \/ RecordCommit(w)) /\ UNCHANGED profitVars
    \/ \E o \in Orders, d \in Dates, l \in Lines, a \in BOOLEAN : Report(o, d, l, a)
    \/ Deploy
    \/ \E w \in Workers : \/ \E o \in Orders : Recompute(w, o)
                          \/ SaveComputed(w) \/ SaveRejectedRead(w) \/ SaveRejected(w) \/ WorkerCrash(w)
    \/ FeeRulesRead \/ FeeRulesMark
    \/ \E d \in Dates : RebuildStore(d)
    \/ \E b \in DOMAIN variantRollup : RebuildVariant(b)

Spec == Init /\ [][Next]_vars

\* Workers run, and a worker or a transaction that fails does not always fail.
Saving(w, o) == work[w] # Null /\ work[w].result.order = o
Fairness ==
    \A o \in Orders :
        /\ SF_vars(\E w \in Workers : Recompute(w, o))
        /\ SF_vars(\E w \in Workers : Saving(w, o) /\ SaveRejectedRead(w))
        /\ SF_vars(\E w \in Workers : Saving(w, o) /\ (SaveComputed(w) \/ SaveRejected(w)))

FairSpec == Spec /\ Fairness

------------------------------------------------------------------------------
(* What the store promises                                                  *)

(* A clean bucket never misses or misstates an order that is in it: of     *)
(* every stored result, the day's bucket and the bucket of each of its     *)
(* lines either hold its present figures or are marked for a rebuild, in   *)
(* whatever order saves, rebuilds and rule changes came                    *)
(* (order-profit.repository.ts:105-247).                                   *)
CleanBucketsAreComplete ==
    \A o \in Orders : Computed(o) =>
        /\ LET bucket == storeRollup[orderProfit[o].date]
           IN  bucket # Null /\ (bucket.dirty \/ <<o, Margin(orderProfit[o])>> \in bucket.rows)
        /\ \A key \in DOMAIN orderProfit[o].lines :
               LET bucket == variantRollup[<<orderProfit[o].date>> \o BucketKey(key)]
               IN  bucket # Null /\ (bucket.dirty \/ <<o, orderProfit[o].lines[key]>> \in bucket.rows)

(* A bucket that is clean says what the stored results say: the comment at *)
(* order-profit.repository.ts:11-15 calls anything else "silently stale".  *)
CleanMeansCurrent ==
    /\ \A d \in Dates : storeRollup[d] # Null => storeRollup[d].dirty \/ storeRollup[d].rows = StoreRows(d)
    /\ \A b \in DOMAIN variantRollup :
           variantRollup[b] # Null => variantRollup[b].dirty \/ variantRollup[b].rows = VariantRows(b)

(* After a deploy every stored result is brought up to the new arithmetic, *)
(* dead-lettered orders included, and the sweep then leaves it alone       *)
(* (order-profit.repository.ts:23-25, 253-261).                            *)
StaleRowsDrain ==
    \A o \in Orders : [](orderProfit[o] # Null /\ orderProfit[o].version < calcVersion
                          => <>(orderProfit[o] # Null /\ orderProfit[o].version = calcVersion))

(* A correction never changes what anything cost before it takes effect,   *)
(* even when corrections race (cost-history.repository.ts:51-55).          *)
EntriesInForce(key, at) == {CostRow(r, Null) : r \in resolveAsOf(key, at)}
PastCostsAreFixed ==
    [][ \A w \in Writers : correction[w] # Null /\ correction'[w] = Null =>
            \A key \in UNION Lines, at \in 0 .. correction[w].entry.from - 1 :
                EntriesInForce(key, at)' = EntriesInForce(key, at) ]_costVars

(* Once a product has a cost it has one at every later instant: no         *)
(* correction, however it races, leaves a gap between two windows          *)
(* (cost-history.repository.ts:83-88, 153-180).                            *)
CostsHaveNoGap ==
    /\ \A r \in history, at \in {e.from : e \in Entries} : r.from <= at => resolveAsOf(r, at) # {}
    /\ countKeysWithCost = Cardinality({<<r.product, r.variant>> : r \in history})

(* The cost of an instant, once there is one, is there for good and        *)
(* changes only by a correction that takes effect at or before it.         *)
CostsAreKept == []CostsHaveNoGap /\ PastCostsAreFixed
===============================================================================
