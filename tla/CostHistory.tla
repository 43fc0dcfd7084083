----------------------------- MODULE CostHistory -----------------------------
(***************************************************************************)
(* cost_history: what a product cost, as half-open windows [from, to) that *)
(* a correction closes and never edits                                     *)
(* (cost-history.repository.ts).  A correction is one transaction of three *)
(* statements; under READ COMMITTED each statement sees what is committed  *)
(* when it starts, an UPDATE re-checks the rows it had to wait for, and no *)
(* index forbids a second open window.                                     *)
(***************************************************************************)
EXTENDS Integers, FiniteSets

CONSTANTS
    Null,
    Writers,     \* concurrent callers of `record`
    FirstCost,   \* the entry the product's history begins with
    Entries      \* what they may record: product, variant (Null: all of them), sku, cost, from

Recordable == Entries \union {FirstCost}

ASSUME EntriesAssumption == Null \notin Nat /\ \A e \in Recordable : e.from \in Nat

VARIABLES
    history,     \* the rows of cost_history
    correction   \* writer -> its open transaction, or Null

costVars == <<history, correction>>

\* A cost_history row: an entry with the end of its window, Null while it is open.
CostRow(entry, to) ==
    [product |-> entry.product, variant |-> entry.variant, sku |-> entry.sku, cost |-> entry.cost,
     from |-> entry.from, to |-> to]

SameKey(row, key) == row.product = key.product /\ row.variant = key.variant
OpenRows(key) == {r \in history : SameKey(r, key) /\ r.to = Null}

\* Rows tied on effectiveFrom come back in no particular order: any may be the first.
Newest(rows) == {r \in rows : \A other \in rows : other.from <= r.from}

InForce(at) == {r \in history : r.from <= at /\ (r.to = Null \/ r.to > at)}

\* The rows one of which is the cost of `key` as of `at`: its own, else its product's, else its SKU's.
resolveAsOf(key, at) ==
    LET exact        == Newest({r \in InForce(at) : SameKey(r, key)})
        productLevel == Newest({r \in InForce(at) : r.product = key.product /\ r.variant = Null})
        bySku        == Newest({r \in InForce(at) : key.sku # Null /\ r.sku = key.sku})
    IN  CASE exact # {} -> exact
          [] exact = {} /\ productLevel # {} -> productLevel
          [] OTHER -> bySku

countKeysWithCost == Cardinality({<<r.product, r.variant>> : r \in {r \in history : r.to = Null}})

CostInit == history = {CostRow(FirstCost, Null)} /\ correction = [w \in Writers |-> Null]

\* The first statement: refused as backdated unless the open window it reads starts earlier.
RecordCheck(w, entry) ==
    /\ correction[w] = Null
    /\ OpenRows(entry) = {} \/ \E open \in OpenRows(entry) : open.from < entry.from
    /\ correction' = [correction EXCEPT ![w] = [entry |-> entry, step |-> "checked", closing |-> {}]]
    /\ UNCHANGED history

\* The UPDATE starts: these are the open windows it sees.
RecordClose(w) ==
    /\ correction[w] # Null /\ correction[w].step = "checked"
    /\ correction' = [correction EXCEPT ![w].step = "closing", ![w].closing = OpenRows(correction[w].entry)]
    /\ UNCHANGED history

\* Faulty variant: the open window is edited in place.
RecordInPlace(entry, closed) ==
    IF closed = {} THEN history \union {CostRow(entry, Null)}
    ELSE (history \ closed) \union {[r EXCEPT !.cost = entry.cost] : r \in closed}

\* The windows still open are closed where the new one begins.
Recorded(entry, closed) ==
    (history \ closed) \union {[r EXCEPT !.to = entry.from] : r \in closed} \union {CostRow(entry, Null)}

\* The commit; an inverted window fails cost_history_window_ordered and rolls everything back.
RecordCommit(w) ==
    /\ correction[w] # Null /\ correction[w].step = "closing"
    /\ LET entry  == correction[w].entry
           closed == correction[w].closing \intersect history
       IN  history' = IF \E r \in closed : r.from >= entry.from THEN history ELSE Recorded(entry, closed)
    /\ correction' = [correction EXCEPT ![w] = Null]
===============================================================================
