--------------------------- MODULE ProfitStoreProofs ---------------------------
(***************************************************************************)
(* Proofs about the stored results: corrections of costs that race leave   *)
(* no gap and never rewrite the past, and no clean rollup misses a result. *)
(***************************************************************************)
EXTENDS ProfitStore, SequenceTheorems, TLAPS

CostRows == [product: {e.product : e \in Recordable}, variant: {e.variant : e \in Recordable},
             sku: {e.sku : e \in Recordable}, cost: {e.cost : e \in Recordable},
             from: Nat, to: Nat \union {Null}]

Corrections == [entry: Entries, step: {"checked", "closing"}, closing: SUBSET CostRows]

CostTypeOK ==
    /\ history \subseteq CostRows
    /\ correction \in [Writers -> Corrections \union {Null}]

\* A transaction closes only windows of its own key that it saw open.
ClosingOK ==
    \A w \in Writers : correction[w] # Null =>
        \A r \in correction[w].closing : SameKey(r, correction[w].entry) /\ r.to = Null

\* From a key's first row on, every instant has a newest row in force,
NoGap ==
    \A r \in history, at \in Nat : r.from <= at =>
        \E m \in InForce(at) : /\ SameKey(m, r)
                               /\ \A o \in InForce(at) : SameKey(o, r) => o.from <= m.from

\* ... and a key with a row has an open one.
StillOpen == \A r \in history : \E m \in history : SameKey(m, r) /\ m.to = Null

CostInv == CostTypeOK /\ ClosingOK /\ NoGap /\ StillOpen

-----------------------------------------------------------------------------
(* What a commit leaves *)

LEMMA RowOfEntry ==
    ASSUME NEW e \in Recordable, NEW to \in Nat \union {Null}
    PROVE  CostRow(e, to) \in CostRows
  BY EntriesAssumption DEF CostRow, CostRows

\* The rows after a commit: the new one, the ones left alone and the ones closed.
LEMMA RecordedRows ==
    ASSUME history \subseteq CostRows, NEW e \in Entries, NEW closed \in SUBSET history
    PROVE  /\ Recorded(e, closed) \subseteq CostRows
           /\ CostRow(e, Null) \in Recorded(e, closed)
           /\ \A r \in history \ closed : r \in Recorded(e, closed)
           /\ \A r \in closed : [r EXCEPT !.to = e.from] \in Recorded(e, closed)
           /\ \A x \in Recorded(e, closed) :
                 \/ x = CostRow(e, Null) \/ x \in history \ closed
                 \/ \E r \in closed : x = [r EXCEPT !.to = e.from]
<1>1. e \in Recordable /\ e.from \in Nat
  BY EntriesAssumption DEF Recordable
<1>2. CostRow(e, Null) \in CostRows
  BY <1>1, RowOfEntry
<1>3. \A r \in closed : [r EXCEPT !.to = e.from] \in CostRows
  BY <1>1 DEF CostRows
<1> QED
  BY <1>2, <1>3 DEF Recorded

\* A row's columns are those of the entry, and closing it touches `to` only.
LEMMA Columns ==
    /\ \A e, to : LET x == CostRow(e, to)
                  IN  /\ x.product = e.product /\ x.variant = e.variant /\ x.sku = e.sku
                      /\ x.cost = e.cost /\ x.from = e.from /\ x.to = to
    /\ \A r \in CostRows : \A to :
          LET x == [r EXCEPT !.to = to]
          IN  /\ x.product = r.product /\ x.variant = r.variant /\ x.sku = r.sku
              /\ x.cost = r.cost /\ x.from = r.from /\ x.to = to
  BY DEF CostRow, CostRows

LEMMA CommitKeepsCover ==
    ASSUME CostTypeOK, NoGap, StillOpen, NEW e \in Entries, NEW closed \in SUBSET history,
           \A r \in closed : SameKey(r, e) /\ r.to = Null /\ r.from < e.from,
           history' = Recorded(e, closed)
    PROVE  history' \subseteq CostRows /\ NoGap' /\ StillOpen'
<1> DEFINE new == CostRow(e, Null)
           Shut(r) == [r EXCEPT !.to = e.from]
<1>1. /\ history \subseteq CostRows /\ history' \subseteq CostRows
      /\ new \in history'
      /\ \A r \in history \ closed : r \in history'
      /\ \A r \in closed : Shut(r) \in history'
      /\ \A x \in history' : \/ x = new \/ x \in history \ closed
                             \/ \E r \in closed : x = Shut(r)
  BY RecordedRows DEF CostTypeOK
<1>2. e.from \in Nat /\ Null \notin Nat
  BY EntriesAssumption DEF Recordable
<1>3. /\ SameKey(new, e) /\ new.from = e.from /\ new.to = Null
      /\ \A r \in closed : /\ SameKey(Shut(r), r) /\ SameKey(Shut(r), e)
                           /\ Shut(r).from = r.from /\ Shut(r).to = e.from
  BY <1>1, Columns DEF SameKey
<1>4. \A r \in history \union history' : r.from \in Nat /\ r.to \in Nat \union {Null}
  BY <1>1 DEF CostRows
<1> HIDE DEF new, Shut
<1>5. \A a, b, c : /\ SameKey(a, b) => SameKey(b, a)
                   /\ SameKey(a, b) /\ SameKey(b, c) => SameKey(a, c)
  BY DEF SameKey
<1>6. \A x \in history' : SameKey(x, e) \/ x \in history \ closed
  BY <1>1, <1>3
<1>7. StillOpen'
  <2> SUFFICES ASSUME NEW r \in history'
               PROVE  \E m \in history' : SameKey(m, r) /\ m.to = Null
    BY DEF StillOpen, SameKey
  <2>1. CASE SameKey(r, e)
    BY <1>1, <1>3, <1>5, <2>1
  <2>2. CASE ~SameKey(r, e)
    <3>1. PICK m \in history : SameKey(m, r) /\ m.to = Null
      BY <1>6, <2>2 DEF StillOpen
    <3>2. m \notin closed
      BY <1>5, <2>2, <3>1
    <3> QED
      BY <1>1, <3>1, <3>2
  <2> QED
    BY <2>1, <2>2
<1>8. NoGap'
  <2> SUFFICES ASSUME NEW r \in history', NEW at \in Nat, r.from <= at
               PROVE  \E m \in InForce(at)' : /\ SameKey(m, r)
                                              /\ \A o \in InForce(at)' : SameKey(o, r) => o.from <= m.from
    BY DEF NoGap, SameKey
  <2>0. /\ InForce(at) = {x \in history : x.from <= at /\ (x.to = Null \/ x.to > at)}
        /\ InForce(at)' = {x \in history' : x.from <= at /\ (x.to = Null \/ x.to > at)}
    BY DEF InForce
  \* The past of the key: its rows are in force as they were.
  <2>1. CASE at < e.from
    <3>1. PICK y \in history : SameKey(y, r) /\ y.from = r.from
      BY <1>1, <1>2, <1>3, <1>4, <1>5, <2>1 DEF SameKey
    <3>2. PICK m \in InForce(at) : /\ SameKey(m, y)
                                   /\ \A o \in InForce(at) : SameKey(o, y) => o.from <= m.from
      BY <3>1 DEF NoGap
    <3>3. \E n \in InForce(at)' : SameKey(n, m) /\ n.from = m.from
      <4>1. CASE m \in closed
        <5>1. Shut(m) \in InForce(at)'
          BY <1>1, <1>2, <1>3, <1>4, <2>0, <2>1, <3>2, <4>1
        <5> QED
          BY <1>3, <4>1, <5>1
      <4>2. CASE m \notin closed
        <5>1. m \in InForce(at)'
          BY <1>1, <2>0, <3>2, <4>2
        <5> QED
          BY <5>1 DEF SameKey
      <4> QED
        BY <4>1, <4>2
    <3>4. \A o \in InForce(at)' : \E q \in InForce(at) : SameKey(q, o) /\ q.from = o.from
      <4> SUFFICES ASSUME NEW o \in InForce(at)'
                   PROVE  \E q \in InForce(at) : SameKey(q, o) /\ q.from = o.from
        OBVIOUS
      <4>1. o # new
        BY <1>2, <1>3, <2>0, <2>1
      <4>2. CASE o \in history \ closed
        BY <2>0, <4>2 DEF SameKey
      <4>3. CASE \E q \in closed : o = Shut(q)
        <5>1. PICK q \in closed : o = Shut(q)
          BY <4>3
        <5>2. q \in InForce(at)
          BY <1>3, <2>0, <5>1
        <5> QED
          BY <1>3, <1>5, <5>1, <5>2
      <4> QED
        BY <1>1, <2>0, <4>1, <4>2, <4>3
    <3>5. PICK n \in InForce(at)' : SameKey(n, m) /\ n.from = m.from
      BY <3>3
    <3>6. SameKey(n, r)
      BY <1>5, <3>1, <3>2, <3>5
    <3>7. ASSUME NEW o \in InForce(at)', SameKey(o, r) PROVE o.from <= n.from
      <4>1. PICK q \in InForce(at) : SameKey(q, o) /\ q.from = o.from
        BY <3>4
      <4>2. SameKey(q, y)
        BY <1>5, <3>1, <3>7, <4>1
      <4> QED
        BY <3>2, <3>5, <4>1, <4>2
    <3> QED
      BY <3>5, <3>6, <3>7
  \* Another key: nothing of it was touched.
  <2>2. CASE ~SameKey(r, e)
    <3>1. r \in history
      BY <1>6, <2>2
    <3>2. PICK m \in InForce(at) : /\ SameKey(m, r)
                                   /\ \A o \in InForce(at) : SameKey(o, r) => o.from <= m.from
      BY <3>1 DEF NoGap
    <3>3. m \in InForce(at)'
      BY <1>1, <1>5, <2>0, <2>2, <3>2
    <3>4. \A o \in InForce(at)' : SameKey(o, r) => o \in InForce(at)
      BY <1>5, <1>6, <2>0, <2>2
    <3> QED
      BY <3>2, <3>3, <3>4
  \* The key, from the new row's instant on.
  <2>3. CASE SameKey(r, e) /\ at >= e.from
    <3>1. new \in InForce(at)' /\ SameKey(new, r)
      BY <1>1, <1>3, <1>5, <2>0, <2>3
    <3>2. \A o \in InForce(at)' : o = new \/ (o \in InForce(at) /\ o \notin closed)
      BY <1>1, <1>2, <1>3, <1>4, <2>0, <2>3
    <3>3. CASE \E y \in history : SameKey(y, e) /\ y.from <= at
      <4>1. PICK y \in history : SameKey(y, e) /\ y.from <= at
        BY <3>3
      <4>2. PICK m \in InForce(at) : /\ SameKey(m, y)
                                     /\ \A o \in InForce(at) : SameKey(o, y) => o.from <= m.from
        BY <4>1 DEF NoGap
      <4>3. \A o \in InForce(at)' : SameKey(o, r) => o = new \/ o.from <= m.from
        BY <1>5, <2>3, <3>2, <4>1, <4>2
      <4>4. m.from \in Nat /\ m \in history /\ \A o \in InForce(at)' : o.from \in Nat
        BY <1>4, <2>0
      <4>5. CASE m \notin closed /\ m.from >= e.from
        <5>1. m \in InForce(at)' /\ SameKey(m, r)
          BY <1>1, <1>5, <2>0, <2>3, <4>1, <4>2, <4>5
        <5> QED
          BY <1>2, <1>3, <4>3, <4>4, <4>5, <5>1
      <4>6. CASE ~(m \notin closed /\ m.from >= e.from)
        <5>1. m.from <= new.from
          BY <1>2, <1>3, <4>4, <4>6
        <5> QED
          BY <1>2, <1>3, <3>1, <4>3, <4>4, <5>1
      <4> QED
        BY <4>5, <4>6
    <3>4. CASE ~\E y \in history : SameKey(y, e) /\ y.from <= at
      <4>1. \A o \in InForce(at)' : SameKey(o, r) => o = new
        BY <1>5, <2>0, <2>3, <3>2, <3>4
      <4> QED
        BY <1>2, <1>3, <3>1, <4>1
    <3> QED
      BY <3>3, <3>4
  <2> QED
    BY <1>2, <2>1, <2>2, <2>3
<1> QED
  BY <1>1, <1>7, <1>8

-----------------------------------------------------------------------------
(* The steps of a correction *)

\* What a transaction closes at its commit.
LEMMA ClosedRows ==
    ASSUME CostTypeOK, ClosingOK, NEW w \in Writers, correction[w] # Null,
           NEW closed, closed = correction[w].closing \intersect history,
           ~\E r \in closed : r.from >= correction[w].entry.from
    PROVE  /\ correction[w].entry \in Entries /\ closed \in SUBSET history
           /\ \A r \in closed : /\ SameKey(r, correction[w].entry) /\ r.to = Null
                                /\ r.from < correction[w].entry.from
<1>1. correction[w].entry \in Entries
  BY DEF CostTypeOK, Corrections
<1>2. correction[w].entry.from \in Nat /\ \A r \in history : r.from \in Nat
  BY <1>1, EntriesAssumption DEF Recordable, CostTypeOK, CostRows
<1> QED
  BY <1>1, <1>2 DEF ClosingOK

\* The steps that touch neither the rows nor a transaction.
LEMMA CostQuiet ==
    ASSUME CostInv, UNCHANGED costVars
    PROVE  CostInv'
  BY DEF CostInv, CostTypeOK, ClosingOK, NoGap, StillOpen, InForce, SameKey, costVars

LEMMA CostInitial == CostInit => CostInv
<1> SUFFICES ASSUME CostInit PROVE CostInv
  OBVIOUS
<1> DEFINE first == CostRow(FirstCost, Null)
<1>1. first \in CostRows /\ first.to = Null /\ first.from \in Nat
  BY RowOfEntry, Columns, EntriesAssumption DEF Recordable
<1>2. history = {first}
  BY DEF CostInit
<1> HIDE DEF first
<1>3. CostTypeOK /\ ClosingOK
  BY <1>1, <1>2 DEF CostInit, CostTypeOK, ClosingOK
<1>4. NoGap /\ StillOpen
  BY <1>1, <1>2 DEF NoGap, StillOpen, InForce, SameKey
<1> QED
  BY <1>3, <1>4 DEF CostInv

LEMMA CostStep ==
    ASSUME CostInv, [Next]_vars
    PROVE  CostInv'
<1> USE DEF CostInv
<1>1. ASSUME NEW w \in Writers, NEW e \in Entries, Correct(w, e) PROVE CostInv'
  <2> DEFINE txn == [entry |-> e, step |-> "checked", closing |-> {}]
  <2>1. txn \in Corrections
    BY DEF Corrections
  <2>2. txn.closing = {}
    OBVIOUS
  <2>3. correction' = [correction EXCEPT ![w] = txn] /\ history' = history
    BY <1>1 DEF Correct, RecordCheck
  <2> HIDE DEF txn
  <2>4. CostTypeOK' /\ ClosingOK'
    BY <2>1, <2>2, <2>3 DEF CostTypeOK, ClosingOK
  <2> QED
    BY <2>3, <2>4 DEF NoGap, StillOpen, InForce, SameKey
<1>2. ASSUME NEW w \in Writers, RecordClose(w) PROVE CostInv'
  <2> DEFINE open == OpenRows(correction[w].entry)
             txn == [correction[w] EXCEPT !.step = "closing", !.closing = open]
  <2>1. open \in SUBSET CostRows /\ \A r \in open : SameKey(r, correction[w].entry) /\ r.to = Null
    BY DEF OpenRows, CostTypeOK
  <2>2. correction[w] \in Corrections
    BY <1>2 DEF RecordClose, CostTypeOK
  <2>3. correction' = [correction EXCEPT ![w].step = "closing", ![w].closing = open] /\ history' = history
    BY <1>2 DEF RecordClose
  <2> HIDE DEF open
  <2>4. correction' = [correction EXCEPT ![w] = txn]
    BY <2>3 DEF CostTypeOK
  <2>5. txn \in Corrections /\ txn.entry = correction[w].entry /\ txn.closing = open
    BY <2>1, <2>2 DEF Corrections
  <2> HIDE DEF txn
  <2>6. CostTypeOK'
    BY <2>3, <2>4, <2>5 DEF CostTypeOK
  <2>7. ClosingOK'
    BY <2>1, <2>4, <2>5 DEF ClosingOK, CostTypeOK
  <2> QED
    BY <2>3, <2>6, <2>7 DEF NoGap, StillOpen, InForce, SameKey
<1>3. ASSUME NEW w \in Writers, RecordCommit(w) PROVE CostInv'
  <2> DEFINE e == correction[w].entry
             closed == correction[w].closing \intersect history
  <2>1. /\ correction[w] # Null /\ correction' = [correction EXCEPT ![w] = Null]
        /\ history' = IF \E r \in closed : r.from >= e.from THEN history ELSE Recorded(e, closed)
    BY <1>3 DEF RecordCommit
  <2>2. history' \subseteq CostRows /\ NoGap' /\ StillOpen'
    <3>1. CASE \E r \in closed : r.from >= e.from
      BY <2>1, <3>1 DEF CostTypeOK, NoGap, StillOpen, InForce, SameKey
    <3>2. CASE ~\E r \in closed : r.from >= e.from
      <4>1. /\ e \in Entries /\ closed \in SUBSET history
            /\ \A r \in closed : SameKey(r, e) /\ r.to = Null /\ r.from < e.from
        BY <2>1, <3>2, ClosedRows
      <4>2. history' = Recorded(e, closed)
        BY <2>1, <3>2
      <4> HIDE DEF e, closed
      <4> QED
        BY <4>1, <4>2, CommitKeepsCover
    <3> QED
      BY <3>1, <3>2
  <2>3. CostTypeOK' /\ ClosingOK'
    BY <2>1, <2>2 DEF CostTypeOK, ClosingOK
  <2> QED
    BY <2>2, <2>3
<1>4. UNCHANGED costVars \/ (\E w \in Writers : (\E e \in Entries : Correct(w, e)) \/ RecordClose(w) \/ RecordCommit(w))
  BY DEF Next, Report, Deploy, Recompute, SaveComputed, SaveRejectedRead, SaveRejected, Saved, WorkerCrash,
         FeeRulesRead, FeeRulesMark, RebuildStore, RebuildVariant, vars
<1> QED
  BY <1>1, <1>2, <1>3, <1>4, CostQuiet

-----------------------------------------------------------------------------
(* The past *)

\* What is recorded in some rows, wherever their windows end.
EntriesOf(rows) == {CostRow(r, Null) : r \in rows}

\* resolveAsOf, of the rows in force.
Resolve(rows, key) ==
    LET exact        == Newest({r \in rows : SameKey(r, key)})
        productLevel == Newest({r \in rows : r.product = key.product /\ r.variant = Null})
        bySku        == Newest({r \in rows : key.sku # Null /\ r.sku = key.sku})
    IN  CASE exact # {} -> exact
          [] exact = {} /\ productLevel # {} -> productLevel
          [] OTHER -> bySku

LEMMA SameEntry ==
    ASSUME NEW a, NEW b, CostRow(a, Null) = CostRow(b, Null)
    PROVE  /\ a.product = b.product /\ a.variant = b.variant /\ a.sku = b.sku
           /\ a.cost = b.cost /\ a.from = b.from
  BY DEF CostRow

LEMMA EntriesEqual ==
    ASSUME NEW A, NEW B
    PROVE  EntriesOf(A) = EntriesOf(B) <=>
             /\ \A x \in A : \E y \in B : CostRow(x, Null) = CostRow(y, Null)
             /\ \A x \in B : \E y \in A : CostRow(x, Null) = CostRow(y, Null)
<1>1. \A S, v : v \in EntriesOf(S) <=> \E x \in S : v = CostRow(x, Null)
  BY DEF EntriesOf
<1>2. EntriesOf(A) = EntriesOf(B) <=> \A v : v \in EntriesOf(A) <=> v \in EntriesOf(B)
  BY DEF EntriesOf
<1>3. ASSUME EntriesOf(A) = EntriesOf(B), NEW x
      PROVE  /\ x \in A => \E y \in B : CostRow(x, Null) = CostRow(y, Null)
             /\ x \in B => \E y \in A : CostRow(x, Null) = CostRow(y, Null)
  BY <1>1, <1>3
<1>4. ASSUME \A x \in A : \E y \in B : CostRow(x, Null) = CostRow(y, Null),
             \A x \in B : \E y \in A : CostRow(x, Null) = CostRow(y, Null), NEW v
      PROVE  v \in EntriesOf(A) <=> v \in EntriesOf(B)
  BY <1>1, <1>4
<1> QED
  BY <1>2, <1>3, <1>4

LEMMA NewestEntries ==
    ASSUME NEW A, NEW B, EntriesOf(A) = EntriesOf(B)
    PROVE  EntriesOf(Newest(A)) = EntriesOf(Newest(B)) /\ (Newest(A) = {} <=> Newest(B) = {})
<1>1. ASSUME NEW S, NEW T, EntriesOf(S) = EntriesOf(T), NEW x \in Newest(S)
      PROVE  \E y \in Newest(T) : CostRow(x, Null) = CostRow(y, Null)
  <2>1. PICK y \in T : CostRow(x, Null) = CostRow(y, Null)
    BY <1>1, EntriesEqual DEF Newest
  <2>2. y.from = x.from
    BY <2>1, SameEntry
  <2>3. \A o \in T : o.from <= y.from
    <3> SUFFICES ASSUME NEW o \in T PROVE o.from <= y.from
      OBVIOUS
    <3>1. PICK p \in S : CostRow(p, Null) = CostRow(o, Null)
      BY <1>1, EntriesEqual
    <3>2. p.from = o.from /\ p.from <= x.from
      BY <1>1, <3>1, SameEntry DEF Newest
    <3> QED
      BY <2>2, <3>2
  <2> QED
    BY <2>1, <2>3 DEF Newest
<1>2. \A x \in Newest(A) : \E y \in Newest(B) : CostRow(x, Null) = CostRow(y, Null)
  BY <1>1
<1>3. \A x \in Newest(B) : \E y \in Newest(A) : CostRow(x, Null) = CostRow(y, Null)
  BY <1>1
<1> QED
  BY <1>2, <1>3, EntriesEqual

LEMMA ResolveEntries ==
    ASSUME NEW A, NEW B, NEW key, EntriesOf(A) = EntriesOf(B)
    PROVE  EntriesOf(Resolve(A, key)) = EntriesOf(Resolve(B, key))
<1> DEFINE Exact(S) == {r \in S : SameKey(r, key)}
           Product(S) == {r \in S : r.product = key.product /\ r.variant = Null}
           Sku(S) == {r \in S : key.sku # Null /\ r.sku = key.sku}
<1>1. /\ \A x \in A : \E y \in B : CostRow(x, Null) = CostRow(y, Null)
      /\ \A x \in B : \E y \in A : CostRow(x, Null) = CostRow(y, Null)
  BY EntriesEqual
<1>2. \A x, y : CostRow(x, Null) = CostRow(y, Null) =>
         x.product = y.product /\ x.variant = y.variant /\ x.sku = y.sku
  BY SameEntry
<1>3. /\ \A x \in Exact(A) : \E y \in Exact(B) : CostRow(x, Null) = CostRow(y, Null)
      /\ \A x \in Exact(B) : \E y \in Exact(A) : CostRow(x, Null) = CostRow(y, Null)
  <2>1. ASSUME NEW x \in Exact(A) PROVE \E y \in Exact(B) : CostRow(x, Null) = CostRow(y, Null)
    <3>1. PICK y \in B : CostRow(x, Null) = CostRow(y, Null)
      BY <1>1
    <3>2. y \in Exact(B)
      BY <1>2, <3>1 DEF SameKey
    <3> QED
      BY <3>1, <3>2
  <2>2. ASSUME NEW x \in Exact(B) PROVE \E y \in Exact(A) : CostRow(x, Null) = CostRow(y, Null)
    <3>1. PICK y \in A : CostRow(x, Null) = CostRow(y, Null)
      BY <1>1
    <3>2. y \in Exact(A)
      BY <1>2, <3>1 DEF SameKey
    <3> QED
      BY <3>1, <3>2
  <2> QED
    BY <2>1, <2>2
<1>4. /\ \A x \in Product(A) : \E y \in Product(B) : CostRow(x, Null) = CostRow(y, Null)
      /\ \A x \in Product(B) : \E y \in Product(A) : CostRow(x, Null) = CostRow(y, Null)
  <2>1. ASSUME NEW x \in Product(A) PROVE \E y \in Product(B) : CostRow(x, Null) = CostRow(y, Null)
    <3>1. PICK y \in B : CostRow(x, Null) = CostRow(y, Null)
      BY <1>1
    <3>2. y \in Product(B)
      BY <1>2, <3>1
    <3> QED
      BY <3>1, <3>2
  <2>2. ASSUME NEW x \in Product(B) PROVE \E y \in Product(A) : CostRow(x, Null) = CostRow(y, Null)
    <3>1. PICK y \in A : CostRow(x, Null) = CostRow(y, Null)
      BY <1>1
    <3>2. y \in Product(A)
      BY <1>2, <3>1
    <3> QED
      BY <3>1, <3>2
  <2> QED
    BY <2>1, <2>2
<1>5. /\ \A x \in Sku(A) : \E y \in Sku(B) : CostRow(x, Null) = CostRow(y, Null)
      /\ \A x \in Sku(B) : \E y \in Sku(A) : CostRow(x, Null) = CostRow(y, Null)
  <2>1. ASSUME NEW x \in Sku(A) PROVE \E y \in Sku(B) : CostRow(x, Null) = CostRow(y, Null)
    <3>1. PICK y \in B : CostRow(x, Null) = CostRow(y, Null)
      BY <1>1
    <3>2. y \in Sku(B)
      BY <1>2, <3>1
    <3> QED
      BY <3>1, <3>2
  <2>2. ASSUME NEW x \in Sku(B) PROVE \E y \in Sku(A) : CostRow(x, Null) = CostRow(y, Null)
    <3>1. PICK y \in A : CostRow(x, Null) = CostRow(y, Null)
      BY <1>1
    <3>2. y \in Sku(A)
      BY <1>2, <3>1
    <3> QED
      BY <3>1, <3>2
  <2> QED
    BY <2>1, <2>2
<1> HIDE DEF Exact, Product, Sku
<1>6. /\ EntriesOf(Exact(A)) = EntriesOf(Exact(B)) /\ EntriesOf(Product(A)) = EntriesOf(Product(B))
      /\ EntriesOf(Sku(A)) = EntriesOf(Sku(B))
  BY <1>3, <1>4, <1>5, EntriesEqual
<1>7. /\ EntriesOf(Newest(Exact(A))) = EntriesOf(Newest(Exact(B)))
      /\ Newest(Exact(A)) = {} <=> Newest(Exact(B)) = {}
      /\ EntriesOf(Newest(Product(A))) = EntriesOf(Newest(Product(B)))
      /\ Newest(Product(A)) = {} <=> Newest(Product(B)) = {}
      /\ EntriesOf(Newest(Sku(A))) = EntriesOf(Newest(Sku(B)))
  BY <1>6, NewestEntries
<1>8. \A S \in {A, B} : Resolve(S, key) = IF Newest(Exact(S)) # {} THEN Newest(Exact(S))
                                          ELSE IF Newest(Product(S)) # {} THEN Newest(Product(S))
                                          ELSE Newest(Sku(S))
  BY DEF Resolve, Exact, Product, Sku
<1> QED
  BY <1>7, <1>8

\* A commit leaves what was in force before it takes effect.
LEMMA CommitKeepsPast ==
    ASSUME CostTypeOK, NEW e \in Entries, NEW closed \in SUBSET history,
           \A r \in closed : SameKey(r, e) /\ r.to = Null /\ r.from < e.from,
           history' = Recorded(e, closed), NEW at \in Nat, at < e.from
    PROVE  EntriesOf(InForce(at)') = EntriesOf(InForce(at))
<1> DEFINE new == CostRow(e, Null)
           Shut(r) == [r EXCEPT !.to = e.from]
<1>1. /\ history \subseteq CostRows
      /\ \A r \in history \ closed : r \in history'
      /\ \A r \in closed : Shut(r) \in history'
      /\ \A x \in history' : \/ x = new \/ x \in history \ closed
                             \/ \E r \in closed : x = Shut(r)
  BY RecordedRows DEF CostTypeOK
<1>2. e.from \in Nat /\ Null \notin Nat /\ new.from = e.from
  BY EntriesAssumption, Columns DEF Recordable
<1>3. \A r \in closed : /\ Shut(r).from = r.from /\ Shut(r).to = e.from
                        /\ CostRow(Shut(r), Null) = CostRow(r, Null)
  BY <1>1, Columns DEF CostRow
<1>4. /\ InForce(at) = {x \in history : x.from <= at /\ (x.to = Null \/ x.to > at)}
      /\ InForce(at)' = {x \in history' : x.from <= at /\ (x.to = Null \/ x.to > at)}
  BY DEF InForce
<1> HIDE DEF new, Shut
<1>5. \A x \in InForce(at)' : \E y \in InForce(at) : CostRow(x, Null) = CostRow(y, Null)
  BY <1>1, <1>2, <1>3, <1>4
<1>6. \A x \in InForce(at) : \E y \in InForce(at)' : CostRow(x, Null) = CostRow(y, Null)
  BY <1>1, <1>2, <1>3, <1>4
<1> QED
  BY <1>5, <1>6, EntriesEqual

LEMMA PastStep ==
    ASSUME CostInv, [Next]_vars, NEW w \in Writers, correction[w] # Null, correction'[w] = Null,
           NEW key, NEW at \in 0 .. correction[w].entry.from - 1
    PROVE  EntriesOf(Resolve(InForce(at)', key)) = EntriesOf(Resolve(InForce(at), key))
<1>1. CASE history' = history
  BY <1>1 DEF InForce
<1>2. CASE history' # history
  <2>1. PICK v \in Writers : RecordCommit(v)
    BY <1>2 DEF Next, Correct, RecordCheck, RecordClose, Report, Deploy, Recompute, SaveComputed,
         SaveRejectedRead, SaveRejected, Saved, WorkerCrash, FeeRulesRead, FeeRulesMark, RebuildStore,
         RebuildVariant, vars, costVars
  <2>2. v = w
    BY <2>1 DEF RecordCommit, CostInv, CostTypeOK
  <2> DEFINE e == correction[w].entry
             closed == correction[w].closing \intersect history
  <2>3. ~(\E r \in closed : r.from >= e.from) /\ history' = Recorded(e, closed)
    BY <1>2, <2>1, <2>2 DEF RecordCommit
  <2>4. /\ e \in Entries /\ closed \in SUBSET history
        /\ \A r \in closed : SameKey(r, e) /\ r.to = Null /\ r.from < e.from
    BY <2>3, ClosedRows DEF CostInv
  <2>5. at \in Nat /\ at < e.from
    BY <2>4, EntriesAssumption DEF Recordable
  <2> HIDE DEF e, closed
  <2>6. EntriesOf(InForce(at)') = EntriesOf(InForce(at))
    BY <2>3, <2>4, <2>5, CommitKeepsPast DEF CostInv
  <2> QED
    BY <2>6, ResolveEntries
<1> QED
  BY <1>1, <1>2

\* Once there is a cost for an instant it is there for good, and only a
\* correction that takes effect at or before that instant changes it: for any
\* entries, and any number of corrections racing under READ COMMITTED.
THEOREM CostsCorrect == Spec => CostsAreKept
<1> DEFINE A == \A w \in Writers : correction[w] # Null /\ correction'[w] = Null =>
                  \A key \in UNION Lines, at \in 0 .. correction[w].entry.from - 1 :
                      EntriesInForce(key, at)' = EntriesInForce(key, at)
<1>1. Init => CostInv
  BY CostInitial DEF Init
<1>2. CostInv /\ [Next]_vars => CostInv'
  BY CostStep
<1>3. CostInv => CostsHaveNoGap
  <2> SUFFICES ASSUME CostInv PROVE CostsHaveNoGap
    OBVIOUS
  <2>1. ASSUME NEW r \in history, NEW at \in {e.from : e \in Entries}, r.from <= at
        PROVE  resolveAsOf(r, at) # {}
    <3>1. at \in Nat
      BY <2>1, EntriesAssumption DEF Recordable
    <3>2. Newest({x \in InForce(at) : SameKey(x, r)}) # {}
      BY <2>1, <3>1 DEF CostInv, NoGap, Newest
    <3> QED
      BY <3>2 DEF resolveAsOf
  <2>2. {<<r.product, r.variant>> : r \in {r \in history : r.to = Null}} = {<<r.product, r.variant>> : r \in history}
    BY DEF CostInv, StillOpen, SameKey
  <2> QED
    BY <2>1, <2>2 DEF CostsHaveNoGap, countKeysWithCost
<1>4. CostInv /\ [Next]_vars => [A]_costVars
  <2>1. \A key, at : /\ EntriesInForce(key, at) = EntriesOf(Resolve(InForce(at), key))
                     /\ EntriesInForce(key, at)' = EntriesOf(Resolve(InForce(at)', key))
    BY DEF EntriesInForce, resolveAsOf, EntriesOf, Resolve
  <2> QED
    BY <2>1, PastStep
<1> QED
  BY <1>1, <1>2, <1>3, <1>4, PTL DEF Spec, CostsAreKept, PastCostsAreFixed

-----------------------------------------------------------------------------
(* Rollups *)

LineFigures == UNION {[l -> Figures] : l \in Lines}
VariantKeys == {<<d>> \o k : d \in Dates, k \in BucketKeys}

Results == [order: Orders, status: {"rejected"}, version: Nat]
           \union [order: Orders, status: {"computed"}, version: Nat, date: Dates, lines: LineFigures]

Works == [result: Results, step: {"computed", "read"}, previous: Dates \union {Null}]

FactsOK == /\ facts \in [Orders -> [date: Dates, lines: Lines, accepted: BOOLEAN]]
           /\ calcVersion \in Nat

WorkOK == work \in [Workers -> Works \union {Null}]

\* A stored row of a computed result has its day and its lines.
RowsOK ==
    /\ DOMAIN orderProfit = Orders
    /\ \A o \in Orders : orderProfit[o] # Null =>
          /\ orderProfit[o].date \in Dates \union {Null}
          /\ orderProfit[o].status = "computed" =>
                orderProfit[o].date \in Dates /\ orderProfit[o].lines \in LineFigures

RollupsOK == /\ storeRollup \in [Dates -> Bucket \union {Null}]
             /\ variantRollup \in [VariantKeys -> Bucket \union {Null}]

StoreInv == CostInv /\ FactsOK /\ WorkOK /\ RowsOK /\ RollupsOK /\ CleanBucketsAreComplete

\* A bucket that holds this figure, or is marked for a rebuild.
Shows(bucket, figure) == bucket # Null /\ (bucket.dirty \/ figure \in bucket.rows)

\* The bucket of a line sold on a day.
VariantKey(d, key) == <<d>> \o BucketKey(key)

LEMMA VariantKeyIs ==
    ASSUME NEW d, NEW key
    PROVE  /\ VariantKey(d, key)[1] = d
           /\ <<VariantKey(d, key)[2], VariantKey(d, key)[3]>> = BucketKey(key)
           /\ d \in Dates /\ key \in UNION Lines => VariantKey(d, key) \in VariantKeys
<1>1. ASSUME NEW x, NEW y
      PROVE  LET b == <<d>> \o <<x, y>> IN b[1] = d /\ b[2] = x /\ b[3] = y
  <2> DEFINE one == <<d>>
             two == <<x, y>>
             S == {d, x, y}
  <2>1. one \in Seq(S) /\ two \in Seq(S) /\ Len(one) = 1 /\ Len(two) = 2
    OBVIOUS
  <2>2. one[1] = d /\ two[1] = x /\ two[2] = y
    OBVIOUS
  <2> HIDE DEF one, two, S
  <2> DEFINE both == one \o two
             n == Len(one)
             m == Len(two)
  <2>3. \A i \in 1 .. n + m : both[i] = IF i <= n THEN one[i] ELSE two[i - n]
    BY <2>1, ConcatProperties, Zenon
  <2> HIDE DEF both, n, m
  <2>4. both[1] = d /\ both[2] = x /\ both[3] = y
    <3>0. n = 1 /\ m = 2
      BY <2>1 DEF n, m
    <3>1. \A i \in 1 .. 3 : both[i] = IF i <= 1 THEN one[i] ELSE two[i - 1]
      BY <2>3, <3>0
    <3>2. both[1] = one[1] /\ both[2] = two[2 - 1] /\ both[3] = two[3 - 1]
      BY <3>1
    <3> QED
      BY <2>2, <3>2
  <2> QED
    BY <2>4 DEF both, one, two
<1>2. \E x, y : BucketKey(key) = <<x, y>>
  BY DEF BucketKey
<1>3. d \in Dates /\ key \in UNION Lines => VariantKey(d, key) \in VariantKeys
  BY DEF VariantKeys, VariantKey, BucketKeys
<1> QED
  BY <1>1, <1>2, <1>3 DEF VariantKey

LEMMA CleanIsShown ==
    CleanBucketsAreComplete <=>
      \A o \in Orders : Computed(o) =>
         /\ Shows(storeRollup[orderProfit[o].date], <<o, Margin(orderProfit[o])>>)
         /\ \A key \in DOMAIN orderProfit[o].lines :
               Shows(variantRollup[VariantKey(orderProfit[o].date, key)], <<o, orderProfit[o].lines[key]>>)
  BY DEF CleanBucketsAreComplete, Shows, VariantKey

LEMMA DirtyShows ==
    ASSUME NEW b \in Bucket \union {Null}, NEW figure
    PROVE  Dirty(b) \in Bucket /\ Shows(Dirty(b), figure)
<1>1. Dirty(b) \in Bucket /\ Dirty(b).dirty = TRUE
  BY DEF Dirty, Bucket
<1> QED
  BY <1>1, StoreAssumption DEF Shows

LEMMA LineFiguresAre ==
    ASSUME NEW f \in LineFigures
    PROVE  /\ DOMAIN f \in Lines /\ \A key \in DOMAIN f : key \in UNION Lines /\ f[key] \in Figures
           /\ SumFunction(f) \in Margins
  BY DEF LineFigures, Margins

\* What a rebuild writes is a bucket, and it holds every figure it should.
LEMMA RebuiltStore ==
    ASSUME RowsOK, NEW d \in Dates
    PROVE  /\ [dirty |-> FALSE, rows |-> StoreRows(d)] \in Bucket
           /\ \A o \in Orders : Computed(o) /\ orderProfit[o].date = d =>
                 <<o, Margin(orderProfit[o])>> \in StoreRows(d)
<1>1. \A o \in Orders : Computed(o) => Margin(orderProfit[o]) \in Margins
  BY LineFiguresAre DEF Computed, RowsOK, Margin
<1> QED
  BY <1>1 DEF Bucket, StoreRows

LEMMA RebuiltVariant ==
    ASSUME RowsOK, NEW b
    PROVE  /\ [dirty |-> FALSE, rows |-> VariantRows(b)] \in Bucket
           /\ \A o \in Orders : Computed(o) => \A key \in DOMAIN orderProfit[o].lines :
                 b = VariantKey(orderProfit[o].date, key) => <<o, orderProfit[o].lines[key]>> \in VariantRows(b)
<1>1. \A o \in Orders : Computed(o) => \A key \in DOMAIN orderProfit[o].lines : orderProfit[o].lines[key] \in Figures
  BY LineFiguresAre DEF Computed, RowsOK
<1>2. \A v : v \in VariantRows(b) <=>
        \E o \in Orders : /\ Computed(o) /\ orderProfit[o].date = b[1]
                          /\ \E key \in DOMAIN orderProfit[o].lines :
                               BucketKey(key) = <<b[2], b[3]>> /\ v = <<o, orderProfit[o].lines[key]>>
  BY DEF VariantRows
<1>3. VariantRows(b) \in SUBSET (Orders \X (Figures \union Margins))
  BY <1>1, <1>2
<1> QED
  BY <1>2, <1>3, VariantKeyIs DEF Bucket

LEMMA ResultIs ==
    ASSUME FactsOK, CostTypeOK, NEW o \in Orders, NEW cost \in CostsOf(o)
    PROVE  [result |-> resultOf(o, cost), step |-> "computed", previous |-> Null] \in Works
<1>1. facts[o] \in [date: Dates, lines: Lines, accepted: BOOLEAN] /\ calcVersion \in Nat
  BY DEF FactsOK
<1>2. \A key \in facts[o].lines : Price - cost[key] \in Figures
  <2>1. cost \in [facts[o].lines -> {0} \union {r.cost : r \in history}]
    BY Zenon DEF CostsOf
  <2>2. \A r \in history : r.cost \in {e.cost : e \in Recordable}
    BY DEF CostTypeOK, CostRows
  <2>3. \A key \in facts[o].lines : cost[key] \in {0} \union {e.cost : e \in Recordable}
    BY <2>1, <2>2
  <2> QED
    BY <2>3 DEF Figures
<1> DEFINE lines == [key \in facts[o].lines |-> Price - cost[key]]
<1>3. lines \in LineFigures
  BY <1>1, <1>2 DEF LineFigures
<1>4. resultOf(o, cost) = IF ~facts[o].accepted THEN [order |-> o, status |-> "rejected", version |-> calcVersion]
                          ELSE [order |-> o, status |-> "computed", version |-> calcVersion,
                                date |-> facts[o].date, lines |-> lines]
  BY DEF resultOf
<1> HIDE DEF lines
<1>5. resultOf(o, cost) \in Results
  BY <1>1, <1>3, <1>4 DEF Results
<1> QED
  BY <1>5 DEF Works

\* Marking buckets hides nothing: what was shown, or due for a rebuild, stays so.
MayBeDirtied ==
    /\ \A d \in Dates : storeRollup'[d] \in {storeRollup[d], Dirty(storeRollup[d])}
    /\ \A b \in VariantKeys : variantRollup'[b] \in {variantRollup[b], Dirty(variantRollup[b])}

ShownThen(o) ==
    /\ Shows(storeRollup'[orderProfit'[o].date], <<o, Margin(orderProfit'[o])>>)
    /\ \A key \in DOMAIN orderProfit'[o].lines :
          Shows(variantRollup'[VariantKey(orderProfit'[o].date, key)], <<o, orderProfit'[o].lines[key]>>)

ComputedThen(o) == orderProfit'[o] # Null /\ orderProfit'[o].status = "computed"

LEMMA ShownThenIsClean ==
    ASSUME \A o \in Orders : ComputedThen(o) => ShownThen(o)
    PROVE  CleanBucketsAreComplete'
  BY DEF CleanBucketsAreComplete, Computed, ComputedThen, ShownThen, Shows, VariantKey, Margin

LEMMA StillShown ==
    ASSUME RowsOK, RollupsOK, CleanBucketsAreComplete, MayBeDirtied,
           NEW o \in Orders, orderProfit'[o] = orderProfit[o], ComputedThen(o)
    PROVE  ShownThen(o)
<1> DEFINE d == orderProfit[o].date
           ls == orderProfit[o].lines
<1>1. Computed(o) /\ d \in Dates /\ ls \in LineFigures
  BY DEF ComputedThen, Computed, RowsOK
<1>2. /\ Shows(storeRollup[d], <<o, Margin(orderProfit[o])>>)
      /\ \A key \in DOMAIN ls : Shows(variantRollup[VariantKey(d, key)], <<o, ls[key]>>)
  BY <1>1, CleanIsShown
<1>3. \A key \in DOMAIN ls : VariantKey(d, key) \in VariantKeys
  BY <1>1, LineFiguresAre, VariantKeyIs
<1> HIDE DEF d, ls
<1>4. Shows(storeRollup'[d], <<o, Margin(orderProfit[o])>>)
  BY <1>1, <1>2, DirtyShows DEF MayBeDirtied, RollupsOK
<1>5. \A key \in DOMAIN ls : Shows(variantRollup'[VariantKey(d, key)], <<o, ls[key]>>)
  BY <1>2, <1>3, DirtyShows DEF MayBeDirtied, RollupsOK
<1> QED
  BY <1>4, <1>5 DEF ShownThen, d, ls

\* Only the rollups change, and only by being marked.
LEMMA MarkKeeps ==
    ASSUME RowsOK, RollupsOK, CleanBucketsAreComplete, MayBeDirtied, UNCHANGED orderProfit
    PROVE  CleanBucketsAreComplete'
<1>1. \A o \in Orders : ComputedThen(o) => ShownThen(o)
  BY StillShown
<1> QED
  BY <1>1, ShownThenIsClean

LEMMA StoreInitial == Init => StoreInv
<1> SUFFICES ASSUME Init PROVE StoreInv
  OBVIOUS
<1>1. (CHOOSE d \in Dates : TRUE) \in Dates /\ (CHOOSE l \in Lines : TRUE) \in Lines
  BY StoreAssumption
<1>2. FactsOK
  BY <1>1 DEF Init, FactsOK
<1>3. WorkOK /\ RowsOK /\ RollupsOK /\ CleanBucketsAreComplete
  BY DEF Init, WorkOK, RowsOK, RollupsOK, VariantKeys, CleanBucketsAreComplete, Computed
<1> QED
  BY <1>2, <1>3, CostInitial DEF Init, StoreInv

\* The worker that saves: the row it writes and the buckets it marks.
LEMMA SaveComputedKeeps ==
    ASSUME StoreInv, NEW w \in Workers, SaveComputed(w)
    PROVE  FactsOK' /\ WorkOK' /\ RowsOK' /\ RollupsOK' /\ CleanBucketsAreComplete'
<1> DEFINE result == work[w].result
           o == result.order
           d == result.date
           row == ComputedRow(result)
<1>1. /\ result \in Results /\ result.status = "computed"
      /\ orderProfit' = [orderProfit EXCEPT ![o] = row]
      /\ work' = [work EXCEPT ![w] = Null]
      /\ markDirty(d, DOMAIN result.lines)
      /\ UNCHANGED <<facts, calcVersion>>
  BY DEF SaveComputed, Saved, StoreInv, WorkOK, Works
<1>2. o \in Orders /\ d \in Dates /\ result.lines \in LineFigures
  BY <1>1 DEF Results
<1>3. row.date = d /\ row.lines = result.lines /\ row.status = "computed"
  BY DEF ComputedRow
<1> HIDE DEF o, d, row
<1>4. FactsOK' /\ WorkOK'
  BY <1>1 DEF StoreInv, FactsOK, WorkOK
<1>5. RowsOK'
  BY <1>1, <1>2, <1>3 DEF StoreInv, RowsOK
<1>6. /\ storeRollup' = [storeRollup EXCEPT ![d] = Dirty(storeRollup[d])]
      /\ variantRollup' = [b \in VariantKeys |->
             IF b[1] = d /\ \E key \in DOMAIN result.lines : BucketKey(key) = <<b[2], b[3]>>
             THEN Dirty(variantRollup[b]) ELSE variantRollup[b]]
  BY <1>1 DEF markDirty, StoreInv, RollupsOK
<1>7. \A b \in Bucket \union {Null} : Dirty(b) \in Bucket
  BY DirtyShows
<1>8. RollupsOK' /\ MayBeDirtied
  BY <1>2, <1>6, <1>7 DEF StoreInv, RollupsOK, MayBeDirtied
<1>9. ShownThen(o)
  <2>1. storeRollup'[d] = Dirty(storeRollup[d]) /\ storeRollup[d] \in Bucket \union {Null}
    BY <1>2, <1>6 DEF StoreInv, RollupsOK
  <2>2. ASSUME NEW key \in DOMAIN result.lines
        PROVE  /\ variantRollup'[VariantKey(d, key)] = Dirty(variantRollup[VariantKey(d, key)])
               /\ variantRollup[VariantKey(d, key)] \in Bucket \union {Null}
    <3> DEFINE b == VariantKey(d, key)
    <3>1. b \in VariantKeys /\ b[1] = d /\ <<b[2], b[3]>> = BucketKey(key)
      BY <1>2, LineFiguresAre, VariantKeyIs
    <3> HIDE DEF b
    <3>2. variantRollup'[b] = Dirty(variantRollup[b]) /\ variantRollup[b] \in Bucket \union {Null}
      BY <1>6, <3>1 DEF StoreInv, RollupsOK
    <3> QED
      BY <3>2 DEF b
  <2>3. orderProfit'[o].date = d /\ orderProfit'[o].lines = result.lines
    BY <1>1, <1>2, <1>3 DEF StoreInv, RowsOK
  <2> QED
    BY <2>1, <2>2, <2>3, DirtyShows DEF ShownThen
<1>10. \A p \in Orders \ {o} : orderProfit'[p] = orderProfit[p]
  BY <1>1 DEF StoreInv, RowsOK
<1>11. \A p \in Orders : ComputedThen(p) => ShownThen(p)
  BY <1>8, <1>9, <1>10, StillShown DEF StoreInv
<1> QED
  BY <1>4, <1>5, <1>8, <1>11, ShownThenIsClean

LEMMA SaveRejectedKeeps ==
    ASSUME StoreInv, NEW w \in Workers, SaveRejected(w)
    PROVE  FactsOK' /\ WorkOK' /\ RowsOK' /\ RollupsOK' /\ CleanBucketsAreComplete'
<1> DEFINE o == work[w].result.order
           d == work[w].previous
           row == RejectedRow(work[w].result, orderProfit[o])
<1>1. /\ work[w] \in Works
      /\ orderProfit' = [orderProfit EXCEPT ![o] = row]
      /\ work' = [work EXCEPT ![w] = Null]
      /\ storeRollup' = IF d = Null THEN storeRollup ELSE [storeRollup EXCEPT ![d] = Dirty(storeRollup[d])]
      /\ UNCHANGED <<facts, calcVersion, variantRollup>>
  BY DEF SaveRejected, Saved, StoreInv, WorkOK
<1>2. o \in Orders /\ d \in Dates \union {Null}
  BY <1>1 DEF Works, Results
<1>3. row.date = Null /\ row.status = "rejected"
  BY DEF RejectedRow
<1> HIDE DEF o, d, row
<1>4. FactsOK' /\ WorkOK'
  BY <1>1 DEF StoreInv, FactsOK, WorkOK
<1>5. RowsOK'
  BY <1>1, <1>2, <1>3 DEF StoreInv, RowsOK
<1>6. \A b \in Bucket \union {Null} : Dirty(b) \in Bucket
  BY DirtyShows
<1>7. RollupsOK' /\ MayBeDirtied
  BY <1>1, <1>2, <1>6 DEF StoreInv, RollupsOK, MayBeDirtied
<1>8. ~ComputedThen(o)
  BY <1>1, <1>2, <1>3 DEF StoreInv, RowsOK, ComputedThen
<1>9. \A p \in Orders \ {o} : orderProfit'[p] = orderProfit[p]
  BY <1>1 DEF StoreInv, RowsOK
<1>10. \A p \in Orders : ComputedThen(p) => ShownThen(p)
  BY <1>7, <1>8, <1>9, StillShown DEF StoreInv
<1> QED
  BY <1>4, <1>5, <1>7, <1>10, ShownThenIsClean

LEMMA RebuildKeeps ==
    ASSUME StoreInv, \/ \E d \in Dates : RebuildStore(d)
                     \/ \E b \in DOMAIN variantRollup : RebuildVariant(b)
    PROVE  FactsOK' /\ WorkOK' /\ RowsOK' /\ RollupsOK' /\ CleanBucketsAreComplete'
<1>1. UNCHANGED <<facts, calcVersion, work, orderProfit>>
  BY DEF RebuildStore, RebuildVariant
<1>2. FactsOK' /\ WorkOK' /\ RowsOK'
  BY <1>1 DEF StoreInv, FactsOK, WorkOK, RowsOK
<1>3. ASSUME NEW o \in Orders, ComputedThen(o)
      PROVE  /\ Computed(o) /\ orderProfit[o].date \in Dates
             /\ Shows(storeRollup[orderProfit[o].date], <<o, Margin(orderProfit[o])>>)
             /\ \A key \in DOMAIN orderProfit[o].lines :
                   /\ VariantKey(orderProfit[o].date, key) \in VariantKeys
                   /\ Shows(variantRollup[VariantKey(orderProfit[o].date, key)], <<o, orderProfit[o].lines[key]>>)
  <2>1. Computed(o) /\ orderProfit[o].date \in Dates /\ orderProfit[o].lines \in LineFigures
    BY <1>1, <1>3 DEF ComputedThen, Computed, StoreInv, RowsOK
  <2> QED
    BY <2>1, CleanIsShown, LineFiguresAre, VariantKeyIs DEF StoreInv
<1>4. ASSUME NEW d \in Dates, RebuildStore(d) PROVE RollupsOK' /\ CleanBucketsAreComplete'
  <2> DEFINE bucket == [dirty |-> FALSE, rows |-> StoreRows(d)]
  <2>1. /\ bucket \in Bucket /\ bucket.rows = StoreRows(d)
        /\ \A o \in Orders : Computed(o) /\ orderProfit[o].date = d =>
              <<o, Margin(orderProfit[o])>> \in StoreRows(d)
    BY RebuiltStore DEF StoreInv
  <2>2. storeRollup' = [storeRollup EXCEPT ![d] = bucket] /\ UNCHANGED variantRollup
    BY <1>4 DEF RebuildStore
  <2>3. bucket # Null
    BY <2>1, StoreAssumption
  <2> HIDE DEF bucket
  <2>4. RollupsOK'
    BY <2>1, <2>2 DEF StoreInv, RollupsOK
  <2>5. ASSUME NEW o \in Orders, ComputedThen(o) PROVE ShownThen(o)
    <3>1. Shows(storeRollup'[orderProfit[o].date], <<o, Margin(orderProfit[o])>>)
      <4>1. CASE orderProfit[o].date = d
        BY <1>3, <2>1, <2>2, <2>3, <2>5, <4>1 DEF Shows, StoreInv, RollupsOK
      <4>2. CASE orderProfit[o].date # d
        BY <1>3, <2>2, <2>5, <4>2 DEF StoreInv, RollupsOK
      <4> QED
        BY <4>1, <4>2
    <3> QED
      BY <1>1, <1>3, <2>2, <2>5, <3>1 DEF ShownThen
  <2> QED
    BY <2>4, <2>5, ShownThenIsClean
<1>5. ASSUME NEW b \in DOMAIN variantRollup, RebuildVariant(b) PROVE RollupsOK' /\ CleanBucketsAreComplete'
  <2> DEFINE bucket == [dirty |-> FALSE, rows |-> VariantRows(b)]
  <2>1. /\ bucket \in Bucket /\ bucket.rows = VariantRows(b)
        /\ \A o \in Orders : Computed(o) => \A key \in DOMAIN orderProfit[o].lines :
              b = VariantKey(orderProfit[o].date, key) => <<o, orderProfit[o].lines[key]>> \in VariantRows(b)
    BY RebuiltVariant DEF StoreInv
  <2>2. /\ variantRollup' = [variantRollup EXCEPT ![b] = bucket] /\ UNCHANGED storeRollup
        /\ b \in VariantKeys
    BY <1>5 DEF RebuildVariant, StoreInv, RollupsOK
  <2>3. bucket # Null
    BY <2>1, StoreAssumption
  <2> HIDE DEF bucket
  <2>4. RollupsOK'
    BY <2>1, <2>2 DEF StoreInv, RollupsOK
  <2>5. ASSUME NEW o \in Orders, ComputedThen(o) PROVE ShownThen(o)
    <3>1. ASSUME NEW key \in DOMAIN orderProfit[o].lines
          PROVE  Shows(variantRollup'[VariantKey(orderProfit[o].date, key)], <<o, orderProfit[o].lines[key]>>)
      <4>1. CASE VariantKey(orderProfit[o].date, key) = b
        BY <1>3, <2>1, <2>2, <2>3, <2>5, <4>1 DEF Shows, StoreInv, RollupsOK
      <4>2. CASE VariantKey(orderProfit[o].date, key) # b
        BY <1>3, <2>2, <2>5, <4>2 DEF StoreInv, RollupsOK
      <4> QED
        BY <4>1, <4>2
    <3> QED
      BY <1>1, <1>3, <2>2, <2>5, <3>1 DEF ShownThen
  <2> QED
    BY <2>4, <2>5, ShownThenIsClean
<1> QED
  BY <1>2, <1>4, <1>5

LEMMA StoreStep ==
    ASSUME StoreInv, [Next]_vars
    PROVE  StoreInv'
<1>0. CostInv'
  BY CostStep DEF StoreInv
<1>1. CASE UNCHANGED <<facts, calcVersion, work, orderProfit, storeRollup, variantRollup>>
  BY <1>0, <1>1 DEF StoreInv, FactsOK, WorkOK, RowsOK, RollupsOK, CleanBucketsAreComplete, Computed, Margin
<1>2. ASSUME NEW o \in Orders, NEW d \in Dates, NEW l \in Lines, NEW a \in BOOLEAN, Report(o, d, l, a)
      PROVE  StoreInv'
  <2>1. /\ facts' = [facts EXCEPT ![o] = [date |-> d, lines |-> l, accepted |-> a]]
        /\ UNCHANGED <<calcVersion, work, orderProfit, storeRollup, variantRollup>>
    BY <1>2 DEF Report
  <2>2. FactsOK'
    BY <2>1 DEF StoreInv, FactsOK
  <2> QED
    BY <1>0, <2>1, <2>2 DEF StoreInv, WorkOK, RowsOK, RollupsOK, CleanBucketsAreComplete, Computed, Margin
<1>3. CASE Deploy
  BY <1>0, <1>3 DEF Deploy, StoreInv, FactsOK, WorkOK, RowsOK, RollupsOK, CleanBucketsAreComplete, Computed, Margin
<1>4. ASSUME NEW w \in Workers, \/ \E o \in Orders : Recompute(w, o)
                                \/ SaveRejectedRead(w) \/ WorkerCrash(w)
      PROVE  StoreInv'
  <2>1. UNCHANGED <<facts, calcVersion, orderProfit, storeRollup, variantRollup>>
    BY <1>4 DEF Recompute, SaveRejectedRead, WorkerCrash
  <2>2. WorkOK'
    <3>1. ASSUME NEW o \in Orders, Recompute(w, o) PROVE WorkOK'
      <4>1. PICK cost \in CostsOf(o) :
              work' = [work EXCEPT ![w] = [result |-> resultOf(o, cost), step |-> "computed", previous |-> Null]]
        BY <3>1 DEF Recompute
      <4> QED
        BY <4>1, ResultIs DEF StoreInv, CostInv, WorkOK
    <3>2. CASE SaveRejectedRead(w)
      <4> DEFINE old == orderProfit[work[w].result.order]
                 date == IF old = Null THEN Null ELSE old.date
      <4>1. work[w] \in Works /\ work' = [work EXCEPT ![w].step = "read", ![w].previous = date]
        BY <3>2 DEF SaveRejectedRead, StoreInv, WorkOK
      <4>2. date \in Dates \union {Null}
        BY <4>1 DEF Works, Results, StoreInv, RowsOK
      <4> HIDE DEF date
      <4>3. work' = [work EXCEPT ![w] = [work[w] EXCEPT !.step = "read", !.previous = date]]
        BY <4>1 DEF StoreInv, WorkOK
      <4>4. [work[w] EXCEPT !.step = "read", !.previous = date] \in Works
        BY <4>1, <4>2 DEF Works
      <4> QED
        BY <4>3, <4>4 DEF StoreInv, WorkOK
    <3>3. CASE WorkerCrash(w)
      BY <3>3 DEF WorkerCrash, StoreInv, WorkOK
    <3> QED
      BY <1>4, <3>1, <3>2, <3>3
  <2> QED
    BY <1>0, <2>1, <2>2 DEF StoreInv, FactsOK, RowsOK, RollupsOK, CleanBucketsAreComplete, Computed, Margin
<1>5. CASE FeeRulesMark
  <2>1. /\ storeRollup' = [d \in Dates |-> IF d \in marking THEN Dirty(storeRollup[d]) ELSE storeRollup[d]]
        /\ UNCHANGED <<facts, calcVersion, work, orderProfit, variantRollup>>
    BY <1>5 DEF FeeRulesMark
  <2>2. \A b \in Bucket \union {Null} : Dirty(b) \in Bucket
    BY DirtyShows
  <2>3. RollupsOK' /\ MayBeDirtied
    BY <2>1, <2>2 DEF StoreInv, RollupsOK, MayBeDirtied
  <2>4. CleanBucketsAreComplete'
    BY <2>1, <2>3, MarkKeeps DEF StoreInv
  <2> QED
    BY <1>0, <2>1, <2>3, <2>4 DEF StoreInv, FactsOK, WorkOK, RowsOK
<1>6. ASSUME NEW w \in Workers, SaveComputed(w) \/ SaveRejected(w) PROVE StoreInv'
  BY <1>0, <1>6, SaveComputedKeeps, SaveRejectedKeeps DEF StoreInv
<1>7. CASE (\E d \in Dates : RebuildStore(d)) \/ \E b \in DOMAIN variantRollup : RebuildVariant(b)
  BY <1>0, <1>7, RebuildKeeps DEF StoreInv
<1>8. CASE FeeRulesRead \/ \E w \in Writers : \/ \E e \in Entries : Correct(w, e)
                                              \/ (RecordClose(w) \/ RecordCommit(w)) /\ UNCHANGED profitVars
  BY <1>1, <1>8 DEF FeeRulesRead, Correct, profitVars
<1>9. CASE UNCHANGED vars
  BY <1>1, <1>9 DEF vars, profitVars
<1> QED
  BY <1>2, <1>3, <1>4, <1>5, <1>6, <1>7, <1>8, <1>9 DEF Next

\* No clean rollup misses or misstates a stored result, for any orders, days,
\* lines and costs, and any number of workers whose saves, rebuilds, crashes
\* and rule changes come in any order.
THEOREM CleanBucketsCorrect == Spec => []CleanBucketsAreComplete
<1>1. StoreInv /\ [Next]_vars => StoreInv'
  BY StoreStep
<1>2. StoreInv => CleanBucketsAreComplete
  BY DEF StoreInv
<1> QED
  BY <1>1, <1>2, StoreInitial, PTL DEF Spec

=============================================================================
