-------------------------- MODULE WebhookQueueProofs --------------------------
(***************************************************************************)
(* Theorems about WebhookQueue, for every set of events, workers and        *)
(* reapers, every retry policy and every batch size.                        *)
(***************************************************************************)
EXTENDS WebhookQueue, TLAPS

\* backoffMs is a delay, whatever the attempt count.
LEMMA BackoffIsDelay ==
    ASSUME NEW a \in Nat
    PROVE  backoffMs(a) \in Nat
  BY ConstAssumption DEF backoffMs

\* The row an unfinished attempt leaves is a row, and holds no lock.
LEMMA UnfinishedRow ==
    ASSUME NEW r \in Row, NEW a \in Nat, NEW t \in Nat
    PROVE  /\ Unfinished(r, a, t) \in Row
           /\ Unfinished(r, a, t).lockedAt = Null
           /\ Unfinished(r, a, t).attempts = r.attempts
           /\ a >= MaxAttempts => Unfinished(r, a, t).status = "failed"
           /\ a < MaxAttempts => Unfinished(r, a, t).status = "pending"
           /\ Unfinished(r, a, t).status \in {"failed", "pending"}
<1> DEFINE s == IF exhausted(a) THEN "failed" ELSE "pending"
           n == IF exhausted(a) THEN t ELSE t + backoffMs(a)
<1>1. s \in Statuses /\ n \in Nat
  BY BackoffIsDelay, ConstAssumption DEF Statuses
<1>2. Unfinished(r, a, t) = [r EXCEPT !.status = s, !.lockedAt = Null, !.nextAttemptAt = n]
  BY DEF Unfinished
<1>3. /\ a >= MaxAttempts => s = "failed"
      /\ a < MaxAttempts => s = "pending"
      /\ s \in {"failed", "pending"}
  BY ConstAssumption DEF exhausted
<1> HIDE DEF s, n
<1> QED
  BY <1>1, <1>2, <1>3 DEF Row

\* Rows written by requeue, claim and a finished report.
LEMMA RequeuedRow ==
    ASSUME NEW r \in Row, NEW t \in Nat
    PROVE  /\ Requeued(r, t) \in Row /\ Requeued(r, t).status = "pending"
           /\ Requeued(r, t).attempts = 0 /\ Requeued(r, t).lockedAt = Null
<1>1. "pending" \in Statuses
  BY DEF Statuses
<1> QED
  BY <1>1 DEF Row, Requeued

LEMMA ClaimedRow ==
    ASSUME NEW r \in Row, NEW t \in Nat
    PROVE  /\ Claimed(r, t) \in Row /\ Claimed(r, t).status = "processing"
           /\ Claimed(r, t).attempts = r.attempts + 1 /\ Claimed(r, t).lockedAt = t
<1>1. "processing" \in Statuses /\ r.attempts + 1 \in Nat
  BY DEF Statuses, Row
<1> QED
  BY <1>1 DEF Row, Claimed

LEMMA FinishedRow ==
    ASSUME NEW r \in Row, NEW s \in Statuses
    PROVE  /\ Finished(r, s) \in Row /\ Finished(r, s).status = s
           /\ Finished(r, s).attempts = r.attempts /\ Finished(r, s).lockedAt = Null
  BY DEF Row, Finished

-----------------------------------------------------------------------------
(* Type correctness *)

LEMMA TypeInit == Init => TypeOK
  BY ConstAssumption DEF Init, TypeOK, NoRow, Row, Statuses, Idle, NoStale

LEMMA TypeStep == TypeOK /\ [Next]_vars => TypeOK'
<1> SUFFICES ASSUME TypeOK, [Next]_vars
             PROVE  TypeOK'
  OBVIOUS
<1> USE ConstAssumption
<1>1. ASSUME NEW e \in Events, enqueue(e)
      PROVE  TypeOK'
  BY <1>1 DEF TypeOK, enqueue, NoRow, Row, Statuses
<1>2. ASSUME NEW e \in Events, requeue(e)
      PROVE  TypeOK'
  BY <1>2, RequeuedRow DEF TypeOK, requeue
<1>3. ASSUME NEW w \in Workers, ClaimSelect(w)
      PROVE  TypeOK'
  <2>1. PICK S \in SUBSET Events : claiming' = [claiming EXCEPT ![w] = S]
    BY <1>3 DEF ClaimSelect, Batches, Due
  <2> QED
    BY <1>3, <2>1 DEF ClaimSelect, TypeOK
<1>4. ASSUME NEW w \in Workers, ClaimUpdate(w)
      PROVE  TypeOK'
  <2>1. row' \in [Events -> Row]
    BY <1>4, ClaimedRow DEF TypeOK, ClaimUpdate
  <2> QED
    BY <1>4, <2>1 DEF TypeOK, ClaimUpdate
<1>5. ASSUME NEW w \in Workers, NEW e \in Events, NEW s \in {"processed", "skipped"},
             Finish(w, e, s)
      PROVE  TypeOK'
  <2>1. s \in Statuses
    BY DEF Statuses
  <2> QED
    BY <1>5, <2>1, FinishedRow DEF TypeOK, Finish, Reported
<1>6. ASSUME NEW w \in Workers, NEW e \in Events, MarkFailedRead(w, e)
      PROVE  TypeOK'
  BY <1>6 DEF TypeOK, MarkFailedRead, Row
<1>7. ASSUME NEW w \in Workers, NEW e \in Events, MarkFailedWrite(w, e)
      PROVE  TypeOK'
  <2>1. Unfinished(row[e], failing[w].attempts, failing[w].at) \in Row
    BY UnfinishedRow DEF TypeOK
  <2> QED
    BY <1>7, <2>1 DEF TypeOK, MarkFailedWrite, Reported, Idle
<1>8. ASSUME NEW w \in Workers, Crash(w)
      PROVE  TypeOK'
  BY <1>8 DEF TypeOK, Crash, Idle
<1>9. ASSUME NEW r \in Reapers, ReapSelect(r)
      PROVE  TypeOK'
  BY <1>9 DEF TypeOK, ReapSelect, Stale, Row
<1>10. ASSUME NEW r \in Reapers, ReapUpdate(r)
       PROVE  TypeOK'
  <2>1. \A e \in Events : Unfinished(row[e], reaping[r].attempts[e], reaping[r].at) \in Row
    BY UnfinishedRow DEF TypeOK
  <2> QED
    BY <1>10, <2>1 DEF TypeOK, ReapUpdate, NoStale
<1>11. ASSUME NEW r \in Reapers, ReaperCrash(r)
       PROVE  TypeOK'
  BY <1>11 DEF TypeOK, ReaperCrash, NoStale
<1>12. CASE Tick
  BY <1>12 DEF TypeOK, Tick
<1>13. CASE UNCHANGED vars
  BY <1>13 DEF TypeOK, vars
<1> QED
  BY <1>1, <1>2, <1>3, <1>4, <1>5, <1>6, <1>7, <1>8, <1>9, <1>10, <1>11, <1>12, <1>13
     DEF Next, Work, markProcessed, markSkipped

\* Every variable keeps its type, whatever the workers, reapers and operator do.
THEOREM TypeCorrect == Spec => []TypeOK
<1>1. QED
  BY TypeInit, TypeStep, PTL DEF Spec

-----------------------------------------------------------------------------
(* The lock column *)

LEMMA LockStep == TypeOK /\ LockIffProcessing /\ [Next]_vars => LockIffProcessing'
<1> SUFFICES ASSUME TypeOK, LockIffProcessing, [Next]_vars
             PROVE  LockIffProcessing'
  OBVIOUS
<1> USE DEF LockIffProcessing
<1>1. ASSUME NEW e \in Events, enqueue(e)
      PROVE  LockIffProcessing'
  BY <1>1 DEF TypeOK, enqueue, NoRow
<1>2. ASSUME NEW e \in Events, requeue(e)
      PROVE  LockIffProcessing'
  BY <1>2, RequeuedRow DEF TypeOK, requeue
<1>3. ASSUME NEW w \in Workers, ClaimUpdate(w)
      PROVE  LockIffProcessing'
  <2>1. claimedAt[w] \in Nat /\ claimedAt[w] # Null
    BY ConstAssumption DEF TypeOK
  <2>2. ASSUME NEW x \in Events
        PROVE  (row'[x].status = "processing") <=> (row'[x].lockedAt # Null)
    <3>1. row[x] \in Row
      BY DEF TypeOK
    <3>2. CASE x \in claiming[w]
      BY <1>3, <2>1, <3>1, <3>2, ClaimedRow DEF ClaimUpdate
    <3>3. CASE x \notin claiming[w]
      BY <1>3, <3>3 DEF ClaimUpdate
    <3> QED
      BY <3>2, <3>3
  <2> QED
    BY <2>2
<1>4. ASSUME NEW w \in Workers, NEW e \in Events, NEW s \in {"processed", "skipped"},
             Finish(w, e, s)
      PROVE  LockIffProcessing'
  <2>1. s \in Statuses
    BY DEF Statuses
  <2> QED
    BY <1>4, <2>1, FinishedRow DEF TypeOK, Finish
<1>5. ASSUME NEW w \in Workers, NEW e \in Events, MarkFailedWrite(w, e)
      PROVE  LockIffProcessing'
  <2>1. /\ Unfinished(row[e], failing[w].attempts, failing[w].at).lockedAt = Null
        /\ Unfinished(row[e], failing[w].attempts, failing[w].at).status
              \in {"failed", "pending"}
    <3>1. row[e] \in Row /\ failing[w].attempts \in Nat /\ failing[w].at \in Nat
      BY DEF TypeOK
    <3> QED
      BY <3>1, UnfinishedRow
  <2> QED
    BY <1>5, <2>1 DEF TypeOK, MarkFailedWrite
<1>6. ASSUME NEW r \in Reapers, ReapUpdate(r)
      PROVE  LockIffProcessing'
  <2>1. \A e \in Events :
          /\ Unfinished(row[e], reaping[r].attempts[e], reaping[r].at).lockedAt = Null
          /\ Unfinished(row[e], reaping[r].attempts[e], reaping[r].at).status
                \in {"failed", "pending"}
    BY UnfinishedRow DEF TypeOK
  <2> QED
    BY <1>6, <2>1 DEF TypeOK, ReapUpdate
<1>7. ASSUME UNCHANGED row
      PROVE  LockIffProcessing'
  BY <1>7
<1> QED
  BY <1>1, <1>2, <1>3, <1>4, <1>5, <1>6, <1>7
     DEF Next, Work, markProcessed, markSkipped, ClaimSelect, MarkFailedRead, Crash,
         ReapSelect, ReaperCrash, Tick, vars

\* webhook_events_lock_iff_processing is never what stops a write: late
\* reports, several reapers and slow workers included.
THEOREM LockCorrect == Spec => []LockIffProcessing
<1>1. Init => LockIffProcessing
  BY DEF Init, LockIffProcessing, NoRow
<1>2. QED
  BY <1>1, LockStep, TypeCorrect, PTL DEF Spec

-----------------------------------------------------------------------------
(* Exclusive leases *)

\* What an unfinished report or a reap does to the columns the proofs look at.
LEMMA UnfinishedEffect ==
    ASSUME NEW r \in Row, NEW a \in Nat, NEW t \in Nat, a <= MaxAttempts
    PROVE  /\ Unfinished(r, a, t).status \in {"failed", "pending"}
           /\ Unfinished(r, a, t).attempts = r.attempts
           /\ Unfinished(r, a, t).status = "pending" => a < MaxAttempts
           /\ Unfinished(r, a, t).status = "failed" => a = MaxAttempts
<1>1. MaxAttempts \in Nat
  BY ConstAssumption
<1> QED
  BY <1>1, UnfinishedRow

LEMMA QueueStep ==
    ASSUME ThresholdHonoured, QueueInv, [Next]_vars
    PROVE  QueueInv'
<1>0. TypeOK' /\ LockIffProcessing'
  BY TypeStep, LockStep DEF QueueInv
<1> SUFFICES /\ LeaseExclusive' /\ ClaimsExclusive' /\ AttemptsWithinPolicy'
             /\ ReadsStayFresh' /\ HoldsArePrompt'
  BY <1>0 DEF QueueInv
<1>t. TypeOK /\ TypeOK'
  BY <1>0 DEF QueueInv
<1>1. ASSUME NEW e \in Events, enqueue(e)
      PROVE  /\ LeaseExclusive' /\ ClaimsExclusive' /\ AttemptsWithinPolicy'
             /\ ReadsStayFresh' /\ HoldsArePrompt'
  <2>0. /\ row[e].status = "absent" =>
             row'[e].status = "pending" /\ row'[e].attempts = 0
        /\ row[e].status # "absent" => row'[e] = row[e]
        /\ \A x \in Events : x # e => row'[x] = row[x]
        /\ UNCHANGED <<now, claiming, held, claimedAt, failing, reaping>>
    BY <1>1, <1>t DEF TypeOK, enqueue, NoRow
  <2>1. LeaseExclusive'
    BY <2>0, ConstAssumption DEF QueueInv, LeaseExclusive
  <2>2. ClaimsExclusive'
    <3>1. ASSUME NEW v \in Workers, NEW x \in claiming[v]
          PROVE  x \in Events /\ row'[x] = row[x]
      <4>1. x \in Events /\ row[x].status = "pending"
        BY <1>t DEF QueueInv, ClaimsExclusive, TypeOK
      <4> QED
        BY <2>0, <4>1
    <3> QED
      BY <2>0, <3>1 DEF QueueInv, ClaimsExclusive
  <2>3. AttemptsWithinPolicy'
    BY <2>0, ConstAssumption DEF QueueInv, ClaimsExclusive, AttemptsWithinPolicy, TypeOK, Row
  <2>4. ReadsStayFresh'
    <3>1. ASSUME NEW w \in Workers, failing[w].id # Null
          PROVE  /\ failing[w].id \in held[w]
                 /\ failing[w].attempts = row'[failing[w].id].attempts
      <4>1. /\ failing[w].id \in held[w] /\ failing[w].id \in Events
            /\ failing[w].attempts = row[failing[w].id].attempts
        BY <3>1, <1>t DEF QueueInv, ReadsStayFresh, TypeOK
      <4>2. row[failing[w].id].status = "processing"
        BY <4>1 DEF QueueInv, LeaseExclusive
      <4> QED
        BY <2>0, <4>1, <4>2
    <3>2. ASSUME NEW r \in Reapers, NEW x \in reaping[r].ids
          PROVE  row'[x] = row[x]
      <4>1. x \in Events /\ row[x].status = "processing"
        BY <1>t DEF QueueInv, ReadsStayFresh, TypeOK
      <4> QED
        BY <2>0, <4>1
    <3> QED
      BY <2>0, <3>1, <3>2 DEF QueueInv, ReadsStayFresh
  <2>5. HoldsArePrompt'
    BY <2>0, ConstAssumption DEF QueueInv, HoldsArePrompt, TypeOK
  <2> QED
    BY <2>1, <2>2, <2>3, <2>4, <2>5
<1>2. ASSUME NEW e \in Events, requeue(e)
      PROVE  /\ LeaseExclusive' /\ ClaimsExclusive' /\ AttemptsWithinPolicy'
             /\ ReadsStayFresh' /\ HoldsArePrompt'
  <2>0. /\ row[e].status = "failed" /\ row'[e].status = "pending" /\ row'[e].attempts = 0
        /\ \A x \in Events : x # e => row'[x] = row[x]
        /\ UNCHANGED <<now, claiming, held, claimedAt, failing, reaping>>
    BY <1>2, <1>t, RequeuedRow DEF TypeOK, requeue
  <2>1. LeaseExclusive'
    BY <2>0, ConstAssumption DEF QueueInv, LeaseExclusive
  <2>2. ClaimsExclusive'
    <3>1. ASSUME NEW v \in Workers, NEW x \in claiming[v]
          PROVE  x \in Events /\ row'[x] = row[x]
      <4>1. x \in Events /\ row[x].status = "pending"
        BY <1>t DEF QueueInv, ClaimsExclusive, TypeOK
      <4> QED
        BY <2>0, <4>1
    <3> QED
      BY <2>0, <3>1 DEF QueueInv, ClaimsExclusive
  <2>3. AttemptsWithinPolicy'
    BY <2>0, ConstAssumption DEF QueueInv, ClaimsExclusive, AttemptsWithinPolicy, TypeOK, Row
  <2>4. ReadsStayFresh'
    <3>1. /\ \A w \in Workers : failing[w].id # Null => failing[w].id # e
          /\ \A r \in Reapers : e \notin reaping[r].ids
      BY <2>0 DEF QueueInv, LeaseExclusive, ReadsStayFresh
    <3>2. \A w \in Workers : failing[w].id # Null => failing[w].id \in Events
      BY <1>t DEF TypeOK
    <3>3. \A r \in Reapers : reaping[r].ids \subseteq Events
      BY <1>t DEF TypeOK
    <3> QED
      BY <2>0, <3>1, <3>2, <3>3 DEF QueueInv, ReadsStayFresh
  <2>5. HoldsArePrompt'
    BY <2>0, ConstAssumption DEF QueueInv, HoldsArePrompt, TypeOK
  <2> QED
    BY <2>1, <2>2, <2>3, <2>4, <2>5
<1>3. ASSUME NEW w \in Workers, ClaimSelect(w)
      PROVE  /\ LeaseExclusive' /\ ClaimsExclusive' /\ AttemptsWithinPolicy'
             /\ ReadsStayFresh' /\ HoldsArePrompt'
  <2>0. PICK S \in SUBSET Events :
          /\ claiming' = [claiming EXCEPT ![w] = S]
          /\ \A e \in S : row[e].status = "pending" /\ Unlocked(e)
    BY <1>3 DEF ClaimSelect, Batches, Due
  <2>x. /\ held[w] = {} /\ claimedAt' = [claimedAt EXCEPT ![w] = now]
        /\ UNCHANGED <<now, row, held, failing, reaping>>
    BY <1>3 DEF ClaimSelect
  <2>1. LeaseExclusive'
    BY <2>x, <1>t DEF QueueInv, LeaseExclusive, TypeOK
  <2>2. ClaimsExclusive'
    BY <2>0, <2>x, <1>t DEF QueueInv, ClaimsExclusive, Unlocked, TypeOK
  <2>3. AttemptsWithinPolicy'
    BY <2>x DEF QueueInv, AttemptsWithinPolicy
  <2>4. ReadsStayFresh'
    BY <2>x DEF QueueInv, ReadsStayFresh
  <2>5. HoldsArePrompt'
    BY <2>0, <2>x, <1>t, ConstAssumption DEF QueueInv, HoldsArePrompt, TypeOK
  <2> QED
    BY <2>1, <2>2, <2>3, <2>4, <2>5
<1>4. ASSUME NEW w \in Workers, ClaimUpdate(w)
      PROVE  /\ LeaseExclusive' /\ ClaimsExclusive' /\ AttemptsWithinPolicy'
             /\ ReadsStayFresh' /\ HoldsArePrompt'
  <2>0. /\ \A x \in claiming[w] : /\ row'[x].status = "processing"
                                     /\ row'[x].lockedAt = claimedAt[w]
                                     /\ row'[x].attempts = row[x].attempts + 1
        /\ \A x \in Events : x \notin claiming[w] => row'[x] = row[x]
    <3>1. ASSUME NEW x \in claiming[w]
          PROVE  /\ row'[x].status = "processing"
                 /\ row'[x].lockedAt = claimedAt[w]
                 /\ row'[x].attempts = row[x].attempts + 1
      <4>1. row[x] \in Row /\ claimedAt[w] \in Nat /\ x \in Events
        BY <1>t DEF TypeOK
      <4>2. row'[x] = Claimed(row[x], claimedAt[w])
        BY <1>4, <4>1 DEF ClaimUpdate
      <4>3. /\ Claimed(row[x], claimedAt[w]).status = "processing"
            /\ Claimed(row[x], claimedAt[w]).lockedAt = claimedAt[w]
            /\ Claimed(row[x], claimedAt[w]).attempts = row[x].attempts + 1
        BY <4>1, ClaimedRow
      <4> QED
        BY <4>2, <4>3
    <3> QED
      BY <1>4, <3>1 DEF ClaimUpdate
  <2>x. /\ held' = [held EXCEPT ![w] = claiming[w]]
        /\ claiming' = [claiming EXCEPT ![w] = {}]
        /\ claiming[w] # {}
        /\ UNCHANGED <<now, claimedAt, failing, reaping>>
    BY <1>4 DEF ClaimUpdate
  <2>y. \A x \in claiming[w] : row[x].status = "pending" /\ held[w] = {}
    BY DEF QueueInv, ClaimsExclusive
  <2>1. LeaseExclusive'
    <3>1. held'[w] = claiming[w] /\ \A v \in Workers : v # w => held'[v] = held[v]
      BY <2>x, <1>t DEF TypeOK
    <3>2. \A v \in Workers : \A x \in held[v] : x \in Events /\ x \notin claiming[w]
      BY <2>y, <1>t DEF QueueInv, LeaseExclusive, TypeOK
    <3> QED
      BY <2>0, <2>x, <3>1, <3>2 DEF QueueInv, LeaseExclusive
  <2>2. ClaimsExclusive'
    <3>1. ASSUME NEW v \in Workers, NEW x \in claiming'[v]
          PROVE  /\ v # w /\ x \in claiming[v] /\ held'[v] = held[v]
                 /\ row'[x] = row[x]
      <4>1. v # w /\ x \in claiming[v] /\ held'[v] = held[v]
        BY <2>x, <1>t DEF TypeOK
      <4>2. x \in Events /\ x \notin claiming[w]
        BY <4>1, <1>t DEF QueueInv, ClaimsExclusive, TypeOK
      <4> QED
        BY <2>0, <4>1, <4>2
    <3> QED
      BY <3>1 DEF QueueInv, ClaimsExclusive
  <2>3. AttemptsWithinPolicy'
    BY <2>0, <2>x, <2>y, <1>t, ConstAssumption DEF QueueInv, AttemptsWithinPolicy, TypeOK, Row
  <2>4. ReadsStayFresh'
    <3>1. /\ \A v \in Workers : failing[v].id # Null =>
               /\ failing[v].id \notin claiming[w] /\ failing[v].id \in Events
               /\ failing[v].id \in held'[v]
      <4>1. ASSUME NEW v \in Workers, failing[v].id # Null
            PROVE  /\ failing[v].id \in held[v] /\ failing[v].id \in Events
                   /\ row[failing[v].id].status = "processing"
        BY <4>1, <1>t DEF QueueInv, LeaseExclusive, ReadsStayFresh, TypeOK
      <4>2. held[w] = {}
        BY <2>x, <2>y
      <4>3. \A v \in Workers : v # w => held'[v] = held[v]
        BY <2>x, <1>t DEF TypeOK
      <4> QED
        BY <2>y, <4>1, <4>2, <4>3
    <3>2. \A r \in Reapers : \A x \in reaping[r].ids :
             x \notin claiming[w] /\ x \in Events
      BY <2>y, <1>t DEF QueueInv, ReadsStayFresh, TypeOK
    <3>3. \A r \in Reapers : \A x \in reaping[r].ids, v \in Workers : x \notin held'[v]
      BY <2>x, <3>2, <1>t DEF QueueInv, ReadsStayFresh, TypeOK
    <3> QED
      BY <2>0, <2>x, <3>1, <3>2, <3>3 DEF QueueInv, ReadsStayFresh
  <2>5. HoldsArePrompt'
    BY <2>x, <1>t, ConstAssumption DEF QueueInv, HoldsArePrompt, TypeOK
  <2> QED
    BY <2>1, <2>2, <2>3, <2>4, <2>5
<1>5. ASSUME NEW w \in Workers, NEW e \in Events, NEW s \in {"processed", "skipped"},
             Finish(w, e, s)
      PROVE  /\ LeaseExclusive' /\ ClaimsExclusive' /\ AttemptsWithinPolicy'
             /\ ReadsStayFresh' /\ HoldsArePrompt'
  <2>0. /\ row'[e].status \in {"processed", "skipped"} /\ row'[e].attempts = row[e].attempts
        /\ \A x \in Events : x # e => row'[x] = row[x]
    <3>1. s \in Statuses /\ row[e] \in Row
      BY <1>t DEF Statuses, TypeOK
    <3> QED
      BY <1>5, <3>1, <1>t, FinishedRow DEF Finish, TypeOK
  <2>x. /\ held' = [held EXCEPT ![w] = @ \ {e}]
        /\ claimedAt' = [claimedAt EXCEPT ![w] = IF held[w] = {e} THEN 0 ELSE @]
        /\ UNCHANGED <<now, claiming, reaping>>
        /\ e \in held[w] /\ Unlocked(e)
    BY <1>5 DEF Finish, Reported
  <2>f. failing' = failing /\ failing[w] = Idle
    BY <1>5 DEF Finish
  <2>y. /\ row[e].status = "processing" /\ \A v \in Workers : e \in held[v] => v = w
        /\ claiming[w] = {} /\ \A r \in Reapers : e \notin reaping[r].ids
    BY <2>x, <1>t DEF QueueInv, LeaseExclusive, ClaimsExclusive, ReadsStayFresh, TypeOK
  <2>1. LeaseExclusive'
    BY <2>0, <2>x, <2>y, <1>t DEF QueueInv, LeaseExclusive, TypeOK
  <2>2. ClaimsExclusive'
    <3>1. ASSUME NEW v \in Workers, NEW x \in claiming'[v]
          PROVE  x \in claiming[v] /\ x \in Events /\ x # e /\ v # w
      BY <2>x, <2>y, <3>1, <1>t DEF Unlocked, TypeOK
    <3>2. \A v \in Workers : v # w => held'[v] = held[v]
      BY <2>x, <1>t DEF TypeOK
    <3> QED
      BY <2>0, <2>x, <3>1, <3>2 DEF QueueInv, ClaimsExclusive
  <2>3. AttemptsWithinPolicy'
    BY <2>0, <2>y, <1>t, ConstAssumption DEF QueueInv, AttemptsWithinPolicy, TypeOK, Row
  <2>4. ReadsStayFresh'
    <3>1. ASSUME NEW v \in Workers, failing'[v].id # Null
          PROVE  /\ failing'[v].id \in held'[v]
                 /\ failing'[v].attempts = row'[failing'[v].id].attempts
      <4>1. v # w /\ failing'[v] = failing[v]
        BY <2>f, <3>1, <1>t DEF TypeOK, Idle
      <4>2. failing[v].id \in held[v] /\ failing[v].attempts = row[failing[v].id].attempts
        BY <4>1, <3>1 DEF QueueInv, ReadsStayFresh
      <4>3. held'[v] = held[v] /\ failing[v].id # e /\ failing[v].id \in Events
        BY <4>1, <4>2, <2>x, <2>y, <1>t DEF TypeOK
      <4> QED
        BY <4>1, <4>2, <4>3, <2>0
    <3>2. ASSUME NEW r \in Reapers, NEW x \in reaping'[r].ids
          PROVE  /\ row'[x].status = "processing"
                 /\ reaping'[r].attempts[x] = row'[x].attempts
                 /\ \A v \in Workers : x \notin held'[v]
      BY <2>0, <2>x, <2>y, <3>2, <1>t DEF QueueInv, ReadsStayFresh, TypeOK
    <3> QED
      BY <3>1, <3>2 DEF ReadsStayFresh
  <2>5. HoldsArePrompt'
    <3>1. ASSUME NEW v \in Workers, held'[v] \cup claiming'[v] # {}
          PROVE  claimedAt'[v] = claimedAt[v] /\ held[v] \cup claiming[v] # {}
      BY <2>x, <2>y, <3>1, <1>t DEF TypeOK
    <3> QED
      BY <3>1, <2>x DEF QueueInv, HoldsArePrompt
  <2> QED
    BY <2>1, <2>2, <2>3, <2>4, <2>5
<1>6. ASSUME NEW w \in Workers, NEW e \in Events, MarkFailedRead(w, e)
      PROVE  /\ LeaseExclusive' /\ ClaimsExclusive' /\ AttemptsWithinPolicy'
             /\ ReadsStayFresh' /\ HoldsArePrompt'
  <2>1. LeaseExclusive' /\ ClaimsExclusive' /\ AttemptsWithinPolicy' /\ HoldsArePrompt'
    BY <1>6 DEF MarkFailedRead, QueueInv, LeaseExclusive, ClaimsExclusive,
                AttemptsWithinPolicy, HoldsArePrompt
  <2>2. ReadsStayFresh'
    BY <1>6, <1>t DEF MarkFailedRead, QueueInv, ReadsStayFresh, TypeOK
  <2> QED
    BY <2>1, <2>2
<1>7. ASSUME NEW w \in Workers, NEW e \in Events, MarkFailedWrite(w, e)
      PROVE  /\ LeaseExclusive' /\ ClaimsExclusive' /\ AttemptsWithinPolicy'
             /\ ReadsStayFresh' /\ HoldsArePrompt'
  <2>0. /\ row'[e].status \in {"failed", "pending"} /\ row'[e].attempts = row[e].attempts
        /\ row'[e].status = "pending" => row[e].attempts < MaxAttempts
        /\ row'[e].status = "failed" => row[e].attempts = MaxAttempts
        /\ \A x \in Events : x # e => row'[x] = row[x]
    <3>1. /\ row[e] \in Row /\ failing[w].attempts \in Nat /\ failing[w].at \in Nat
          /\ failing[w].id # Null
      BY <1>7, <1>t, ConstAssumption DEF TypeOK, MarkFailedWrite
    <3>2. failing[w].attempts = row[e].attempts /\ row[e].attempts <= MaxAttempts
      BY <1>7, <3>1 DEF MarkFailedWrite, QueueInv, ReadsStayFresh, AttemptsWithinPolicy
    <3>3. /\ row'[e] = Unfinished(row[e], failing[w].attempts, failing[w].at)
          /\ \A x \in Events : x # e => row'[x] = row[x]
      BY <1>7, <1>t DEF MarkFailedWrite, TypeOK
    <3> QED
      BY <3>1, <3>2, <3>3, UnfinishedEffect
  <2>x. /\ held' = [held EXCEPT ![w] = @ \ {e}]
        /\ claimedAt' = [claimedAt EXCEPT ![w] = IF held[w] = {e} THEN 0 ELSE @]
        /\ UNCHANGED <<now, claiming, reaping>>
        /\ e \in held[w] /\ Unlocked(e)
    <3>1. failing[w].id = e /\ e # Null
      BY <1>7, ConstAssumption DEF MarkFailedWrite
    <3>2. e \in held[w]
      BY <3>1 DEF QueueInv, ReadsStayFresh
    <3> QED
      BY <1>7, <3>2 DEF MarkFailedWrite, Reported
  <2>f. failing' = [failing EXCEPT ![w] = Idle]
    BY <1>7 DEF MarkFailedWrite
  <2>y. /\ row[e].status = "processing" /\ \A v \in Workers : e \in held[v] => v = w
        /\ claiming[w] = {} /\ \A r \in Reapers : e \notin reaping[r].ids
    BY <2>x, <1>t DEF QueueInv, LeaseExclusive, ClaimsExclusive, ReadsStayFresh, TypeOK
  <2>1. LeaseExclusive'
    BY <2>0, <2>x, <2>y, <1>t DEF QueueInv, LeaseExclusive, TypeOK
  <2>2. ClaimsExclusive'
    <3>1. ASSUME NEW v \in Workers, NEW x \in claiming'[v]
          PROVE  x \in claiming[v] /\ x \in Events /\ x # e /\ v # w
      BY <2>x, <2>y, <3>1, <1>t DEF Unlocked, TypeOK
    <3>2. \A v \in Workers : v # w => held'[v] = held[v]
      BY <2>x, <1>t DEF TypeOK
    <3> QED
      BY <2>0, <2>x, <3>1, <3>2 DEF QueueInv, ClaimsExclusive
  <2>3. AttemptsWithinPolicy'
    <3>1. /\ row[e].attempts \in Nat /\ MaxAttempts \in Nat
          /\ \A x \in Events : /\ row[x].attempts <= MaxAttempts
                               /\ row[x].status = "pending" => row[x].attempts < MaxAttempts
                               /\ row[x].status = "failed" => row[x].attempts = MaxAttempts
      BY <1>t, ConstAssumption DEF QueueInv, AttemptsWithinPolicy, TypeOK, Row
    <3> QED
      BY <2>0, <3>1 DEF AttemptsWithinPolicy
  <2>4. ReadsStayFresh'
    <3>1. ASSUME NEW v \in Workers, failing'[v].id # Null
          PROVE  /\ failing'[v].id \in held'[v]
                 /\ failing'[v].attempts = row'[failing'[v].id].attempts
      <4>1. v # w /\ failing'[v] = failing[v]
        BY <2>f, <3>1, <1>t DEF TypeOK, Idle
      <4>2. failing[v].id \in held[v] /\ failing[v].attempts = row[failing[v].id].attempts
        BY <4>1, <3>1 DEF QueueInv, ReadsStayFresh
      <4>3. held'[v] = held[v] /\ failing[v].id # e /\ failing[v].id \in Events
        BY <4>1, <4>2, <2>x, <2>y, <1>t DEF TypeOK
      <4> QED
        BY <4>1, <4>2, <4>3, <2>0
    <3>2. ASSUME NEW r \in Reapers, NEW x \in reaping'[r].ids
          PROVE  /\ row'[x].status = "processing"
                 /\ reaping'[r].attempts[x] = row'[x].attempts
                 /\ \A v \in Workers : x \notin held'[v]
      BY <2>0, <2>x, <2>y, <3>2, <1>t DEF QueueInv, ReadsStayFresh, TypeOK
    <3> QED
      BY <3>1, <3>2 DEF ReadsStayFresh
  <2>5. HoldsArePrompt'
    <3>1. ASSUME NEW v \in Workers, held'[v] \cup claiming'[v] # {}
          PROVE  claimedAt'[v] = claimedAt[v] /\ held[v] \cup claiming[v] # {}
      BY <2>x, <2>y, <3>1, <1>t DEF TypeOK
    <3> QED
      BY <3>1, <2>x DEF QueueInv, HoldsArePrompt
  <2> QED
    BY <2>1, <2>2, <2>3, <2>4, <2>5
<1>8. ASSUME NEW w \in Workers, Crash(w)
      PROVE  /\ LeaseExclusive' /\ ClaimsExclusive' /\ AttemptsWithinPolicy'
             /\ ReadsStayFresh' /\ HoldsArePrompt'
  <2>0. /\ held' = [held EXCEPT ![w] = {}] /\ claiming' = [claiming EXCEPT ![w] = {}]
        /\ failing' = [failing EXCEPT ![w] = Idle]
        /\ claimedAt' = [claimedAt EXCEPT ![w] = 0]
        /\ UNCHANGED <<now, row, reaping>>
    BY <1>8 DEF Crash
  <2>1. LeaseExclusive'
    BY <2>0, <1>t DEF QueueInv, LeaseExclusive, TypeOK
  <2>2. ClaimsExclusive'
    <3>1. ASSUME NEW v \in Workers, NEW x \in claiming[v]
          PROVE  x \in Events /\ row'[x] = row[x]
      <4>1. x \in Events /\ row[x].status = "pending"
        BY <1>t DEF QueueInv, ClaimsExclusive, TypeOK
      <4> QED
        BY <2>0, <4>1
    <3> QED
      BY <2>0, <3>1 DEF QueueInv, ClaimsExclusive
  <2>3. AttemptsWithinPolicy'
    BY <2>0 DEF QueueInv, AttemptsWithinPolicy
  <2>4. ReadsStayFresh'
    BY <2>0, <1>t DEF QueueInv, ReadsStayFresh, TypeOK, Idle
  <2>5. HoldsArePrompt'
    BY <2>0, <1>t DEF QueueInv, HoldsArePrompt, TypeOK
  <2> QED
    BY <2>1, <2>2, <2>3, <2>4, <2>5
<1>9. ASSUME NEW r \in Reapers, ReapSelect(r)
      PROVE  /\ LeaseExclusive' /\ ClaimsExclusive' /\ AttemptsWithinPolicy'
             /\ ReadsStayFresh' /\ HoldsArePrompt'
  <2>0. /\ reaping'[r].ids = Stale
        /\ \A e \in Stale : reaping'[r].attempts[e] = row[e].attempts
        /\ \A q \in Reapers : q # r => reaping'[q] = reaping[q]
        /\ UNCHANGED <<now, row, claiming, held, claimedAt, since, failing>>
    BY <1>9, <1>t DEF ReapSelect, TypeOK, Stale
  <2>1. LeaseExclusive' /\ ClaimsExclusive' /\ AttemptsWithinPolicy' /\ HoldsArePrompt'
    BY <2>0 DEF QueueInv, LeaseExclusive, ClaimsExclusive, AttemptsWithinPolicy, HoldsArePrompt
  <2>2. ASSUME NEW e \in Stale, NEW w \in Workers, e \in held[w]
        PROVE  FALSE
    \* a stale lock is older than BatchTime; a live worker's is not
    <3>1. row[e].lockedAt = claimedAt[w]
      BY <2>2 DEF QueueInv, LeaseExclusive, Stale
    <3>2. now - claimedAt[w] <= BatchTime
      BY <2>2 DEF QueueInv, HoldsArePrompt
    <3>3. claimedAt[w] < now - StaleAfter
      BY <3>1 DEF Stale
    <3> QED
      BY <3>2, <3>3, <1>t, ConstAssumption DEF TypeOK, ThresholdHonoured
  <2>3. ReadsStayFresh'
    BY <2>0, <2>2 DEF QueueInv, ReadsStayFresh, Stale
  <2> QED
    BY <2>1, <2>3
<1>10. ASSUME NEW r \in Reapers, ReapUpdate(r)
      PROVE  /\ LeaseExclusive' /\ ClaimsExclusive' /\ AttemptsWithinPolicy'
             /\ ReadsStayFresh' /\ HoldsArePrompt'
  <2>0. /\ \A e \in reaping[r].ids :
             /\ row'[e].status \in {"failed", "pending"}
             /\ row'[e].attempts = row[e].attempts
             /\ row'[e].status = "pending" => row[e].attempts < MaxAttempts
             /\ row'[e].status = "failed" => row[e].attempts = MaxAttempts
        /\ \A e \in Events : e \notin reaping[r].ids => row'[e] = row[e]
    <3>1. ASSUME NEW e \in reaping[r].ids
          PROVE  /\ row'[e].status \in {"failed", "pending"}
                 /\ row'[e].attempts = row[e].attempts
                 /\ row'[e].status = "pending" => row[e].attempts < MaxAttempts
                 /\ row'[e].status = "failed" => row[e].attempts = MaxAttempts
      <4>1. /\ e \in Events /\ row[e] \in Row /\ reaping[r].attempts[e] \in Nat
            /\ reaping[r].at \in Nat
        BY <1>t DEF TypeOK
      <4>2. reaping[r].attempts[e] = row[e].attempts /\ row[e].attempts <= MaxAttempts
        BY <4>1 DEF QueueInv, ReadsStayFresh, AttemptsWithinPolicy
      <4>3. row'[e] = Unfinished(row[e], reaping[r].attempts[e], reaping[r].at)
        BY <1>10, <4>1 DEF ReapUpdate
      <4> QED
        BY <4>1, <4>2, <4>3, UnfinishedEffect
    <3> QED
      BY <1>10, <3>1 DEF ReapUpdate
  <2>x. /\ reaping'[r].ids = {} /\ \A q \in Reapers : q = r
        /\ \A e \in reaping[r].ids : Unlocked(e)
        /\ UNCHANGED <<now, claiming, held, claimedAt, failing>>
    BY <1>10, <1>t DEF ReapUpdate, TypeOK, NoStale, ThresholdHonoured
  <2>y. \A e \in reaping[r].ids, w \in Workers : e \notin held[w]
    BY DEF QueueInv, ReadsStayFresh
  <2>1. LeaseExclusive'
    BY <2>0, <2>x, <2>y DEF QueueInv, LeaseExclusive
  <2>2. ClaimsExclusive'
    BY <2>0, <2>x, <1>t DEF QueueInv, ClaimsExclusive, Unlocked, TypeOK
  <2>3. AttemptsWithinPolicy'
    BY <2>0, <1>t, ConstAssumption DEF QueueInv, AttemptsWithinPolicy, TypeOK, Row
  <2>4. ReadsStayFresh'
    BY <2>0, <2>x, <2>y, <1>t, ConstAssumption DEF QueueInv, ReadsStayFresh, TypeOK
  <2>5. HoldsArePrompt'
    BY <2>x DEF QueueInv, HoldsArePrompt
  <2> QED
    BY <2>1, <2>2, <2>3, <2>4, <2>5
<1>11. ASSUME NEW r \in Reapers, ReaperCrash(r)
      PROVE  /\ LeaseExclusive' /\ ClaimsExclusive' /\ AttemptsWithinPolicy'
             /\ ReadsStayFresh' /\ HoldsArePrompt'
  <2>1. LeaseExclusive' /\ ClaimsExclusive' /\ AttemptsWithinPolicy' /\ HoldsArePrompt'
    BY <1>11 DEF ReaperCrash, QueueInv, LeaseExclusive, ClaimsExclusive, AttemptsWithinPolicy,
                 HoldsArePrompt
  <2>2. ReadsStayFresh'
    BY <1>11, <1>t DEF ReaperCrash, QueueInv, ReadsStayFresh, TypeOK, NoStale
  <2> QED
    BY <2>1, <2>2
<1>12. CASE Tick
  <2>1. LeaseExclusive' /\ ClaimsExclusive' /\ AttemptsWithinPolicy' /\ ReadsStayFresh'
    BY <1>12 DEF Tick, QueueInv, LeaseExclusive, ClaimsExclusive, AttemptsWithinPolicy,
                 ReadsStayFresh
  <2>2. HoldsArePrompt'
    <3>1. /\ now \in Nat /\ now' = now + 1 /\ UNCHANGED <<claiming, held, claimedAt>>
          /\ \A w \in Workers : held[w] \cup claiming[w] # {} => now - claimedAt[w] < BatchTime
      BY <1>12, <1>t DEF Tick, TypeOK
    <3>2. BatchTime \in Nat /\ \A w \in Workers : claimedAt[w] \in Nat
      BY <1>t, ConstAssumption DEF TypeOK
    <3>3. \A w \in Workers : held[w] \cup claiming[w] # {} => claimedAt[w] <= now
      BY DEF QueueInv, HoldsArePrompt
    <3> QED
      BY <3>1, <3>2, <3>3 DEF HoldsArePrompt
  <2> QED
    BY <2>1, <2>2
<1>13. CASE UNCHANGED vars
  BY <1>13 DEF vars, QueueInv, LeaseExclusive, ClaimsExclusive, AttemptsWithinPolicy,
               ReadsStayFresh, HoldsArePrompt
<1> QED
  BY <1>1, <1>2, <1>3, <1>4, <1>5, <1>6, <1>7, <1>8, <1>9, <1>10, <1>11, <1>12, <1>13
     DEF Next, Work, markProcessed, markSkipped

LEMMA QueueInit == Init => QueueInv
<1> SUFFICES ASSUME Init
             PROVE  QueueInv
  OBVIOUS
<1>1. TypeOK
  BY TypeInit
<1> QED
  BY <1>1, ConstAssumption
     DEF Init, QueueInv, LockIffProcessing, LeaseExclusive, ClaimsExclusive,
         AttemptsWithinPolicy, ReadsStayFresh, HoldsArePrompt, NoRow, Idle, NoStale

\* With one reaper and a threshold no live worker outlasts, an event is worked
\* by at most one live worker and its row stays that worker's until it reports;
\* open claims never overlap; attempts stay within the policy; and what
\* markFailed and reapStale have read is still true when they write.
THEOREM QueueCorrect ==
    ASSUME ThresholdHonoured
    PROVE  Spec => []QueueInv
<1>1. QueueInv /\ [Next]_vars => QueueInv'
  BY QueueStep
<1>2. QED
  BY <1>1, QueueInit, PTL DEF Spec

-----------------------------------------------------------------------------
(* Terminal rows *)

\* A row that has come to rest is nobody's, so no claim, report or reap in
\* flight names it: only requeue writes it, and only if it is a dead letter.
LEMMA TerminalStep ==
    ASSUME QueueInv, [Next]_vars, NEW x \in Events,
           row[x].status \in {"processed", "skipped", "failed"}
    PROVE  \/ row'[x] = row[x]
           \/ /\ row[x].status = "failed"
              /\ row'[x].status = "pending" /\ row'[x].attempts = 0
<1>t. TypeOK
  BY DEF QueueInv
<1>n. /\ \A w \in Workers : x \notin held[w] /\ x \notin claiming[w]
      /\ \A w \in Workers : failing[w].id # x
      /\ \A r \in Reapers : x \notin reaping[r].ids
  BY ConstAssumption DEF QueueInv, LeaseExclusive, ClaimsExclusive, ReadsStayFresh
<1>1. ASSUME NEW e \in Events, enqueue(e)
      PROVE  row'[x] = row[x]
  BY <1>1, <1>t DEF enqueue, TypeOK
<1>2. ASSUME NEW e \in Events, requeue(e)
      PROVE  \/ row'[x] = row[x]
             \/ /\ row[x].status = "failed"
                /\ row'[x].status = "pending" /\ row'[x].attempts = 0
  BY <1>2, <1>t, RequeuedRow DEF requeue, TypeOK
<1>3. ASSUME NEW w \in Workers, ClaimUpdate(w)
      PROVE  row'[x] = row[x]
  BY <1>3, <1>n DEF ClaimUpdate
<1>4. ASSUME NEW w \in Workers, NEW e \in Events, NEW s, Finish(w, e, s)
      PROVE  row'[x] = row[x]
  BY <1>4, <1>n, <1>t DEF Finish, TypeOK
<1>5. ASSUME NEW w \in Workers, NEW e \in Events, MarkFailedWrite(w, e)
      PROVE  row'[x] = row[x]
  BY <1>5, <1>n, <1>t DEF MarkFailedWrite, TypeOK
<1>6. ASSUME NEW r \in Reapers, ReapUpdate(r)
      PROVE  row'[x] = row[x]
  BY <1>6, <1>n DEF ReapUpdate
<1>7. ASSUME UNCHANGED row
      PROVE  row'[x] = row[x]
  BY <1>7
<1> QED
  BY <1>1, <1>2, <1>3, <1>4, <1>5, <1>6, <1>7
     DEF Next, Work, markProcessed, markSkipped, ClaimSelect, MarkFailedRead, Crash,
         ReapSelect, ReaperCrash, Tick, vars

\* markProcessed and markSkipped are final, and a dead letter is left only by
\* requeue, for every deployment that honours the threshold with one reaper.
THEOREM TerminalCorrect ==
    ASSUME ThresholdHonoured
    PROVE  Spec => TerminalStays
<1> DEFINE A == \A e \in Events :
                  /\ row[e].status \in {"processed", "skipped"} => row'[e] = row[e]
                  /\ row[e].status = "failed" /\ row'[e] # row[e] =>
                       row'[e].status = "pending" /\ row'[e].attempts = 0
<1>1. QueueInv /\ [Next]_vars => QueueInv'
  BY QueueStep
<1>2. QueueInv /\ [Next]_vars => [A]_vars
  BY TerminalStep
<1>3. QED
  BY <1>1, <1>2, QueueInit, PTL DEF Spec, TerminalStays

-----------------------------------------------------------------------------
(* Refinement of LeaseQueue *)

Exclusive(h) == \A e \in Events, v, w \in Workers : e \in h[v] /\ e \in h[w] => v = w

LEMMA OwnerHolds ==
    ASSUME NEW h, Exclusive(h), NEW e \in Events
    PROVE  /\ \A w \in Workers : e \in h[w] => Owner(h, e) = w
           /\ (\A w \in Workers : e \notin h[w]) => Owner(h, e) = Null
           /\ \A w \in Workers : Owner(h, e) = w => e \in h[w]
<1>1. ASSUME NEW w \in Workers, e \in h[w]
      PROVE  Owner(h, e) = w
  <2>1. \A v \in Workers : e \in h[v] <=> v = w
    BY <1>1 DEF Exclusive
  <2> QED
    BY <1>1, <2>1 DEF Owner
<1>2. (\A w \in Workers : e \notin h[w]) => Owner(h, e) = Null
  BY DEF Owner
<1>3. ASSUME NEW w \in Workers, Owner(h, e) = w
      PROVE  e \in h[w]
  BY <1>1, <1>2, <1>3, ConstAssumption
<1> QED
  BY <1>1, <1>2, <1>3

\* Two holdings that agree on e have the same owner for it.
LEMMA OwnerSame ==
    ASSUME NEW h, NEW k, NEW e \in Events, \A w \in Workers : e \in h[w] <=> e \in k[w]
    PROVE  Owner(h, e) = Owner(k, e)
<1>1. CASE \E w \in Workers : e \in h[w]
  <2>1. (CHOOSE w \in Workers : e \in h[w]) = (CHOOSE w \in Workers : e \in k[w])
    OBVIOUS
  <2> QED
    BY <1>1, <2>1 DEF Owner
<1>2. CASE ~\E w \in Workers : e \in h[w]
  BY <1>2 DEF Owner
<1> QED
  BY <1>1, <1>2

\* Every step of the table and its processes is a step of LeaseQueue, or
\* changes neither a status nor a lease.
LEMMA LeaseStep ==
    ASSUME QueueInv, QueueInv', [Next]_vars
    PROVE  [Lease!Next]_(Lease!leaseVars)
<1> DEFINE st == [e \in Events |-> row[e].status]
           ow == [e \in Events |-> Owner(held, e)]
<1>t. TypeOK /\ TypeOK' /\ Exclusive(held) /\ Exclusive(held)'
  BY DEF QueueInv, LeaseExclusive, Exclusive
<1>e. Exclusive(held')
  BY <1>t DEF Exclusive
<1>u. ASSUME held' = held
      PROVE  ow' = ow
  BY <1>u
<1>1. ASSUME NEW e \in Events, enqueue(e)
      PROVE  Lease!Arrive(e) \/ UNCHANGED <<st, ow>>
  <2>1. held' = held
    BY <1>1 DEF enqueue
  <2>2. CASE row[e].status = "absent"
    <3>1. st' = [st EXCEPT ![e] = "pending"]
      BY <1>1, <1>t, <2>2 DEF enqueue, TypeOK, NoRow
    <3> QED
      BY <2>1, <2>2, <3>1, <1>u DEF Lease!Arrive
  <2>3. CASE row[e].status # "absent"
    <3>1. row' = row
      BY <1>1, <1>t, <2>3 DEF enqueue, TypeOK
    <3> QED
      BY <2>1, <3>1, <1>u
  <2> QED
    BY <2>2, <2>3
<1>2. ASSUME NEW e \in Events, requeue(e)
      PROVE  Lease!Replay(e)
  <2>1. st' = [st EXCEPT ![e] = "pending"]
    BY <1>2, <1>t, RequeuedRow DEF requeue, TypeOK
  <2>2. held' = held /\ row[e].status = "failed"
    BY <1>2 DEF requeue
  <2> QED
    BY <2>1, <2>2, <1>u DEF Lease!Replay
<1>3. ASSUME NEW w \in Workers, ClaimUpdate(w)
      PROVE  Lease!Take(w, claiming[w])
  <2>1. \A e \in claiming[w] : st[e] = "pending" /\ ow[e] = Null
    <3>1. ASSUME NEW e \in claiming[w]
          PROVE  st[e] = "pending" /\ ow[e] = Null
      <4>1. e \in Events /\ row[e].status = "pending"
        BY <1>t DEF QueueInv, ClaimsExclusive, TypeOK
      <4>2. \A v \in Workers : e \notin held[v]
        BY <4>1 DEF QueueInv, LeaseExclusive
      <4> QED
        BY <4>1, <4>2, <1>t, OwnerHolds
    <3> QED
      BY <3>1
  <2>2. st' = [e \in Events |-> IF e \in claiming[w] THEN "processing" ELSE st[e]]
    <3>1. ASSUME NEW e \in Events
          PROVE  row'[e].status = IF e \in claiming[w] THEN "processing" ELSE row[e].status
      <4>1. row[e] \in Row /\ claimedAt[w] \in Nat
        BY <1>t DEF TypeOK
      <4> QED
        BY <1>3, <4>1, ClaimedRow DEF ClaimUpdate
    <3> QED
      BY <3>1
  <2>3. ow' = [e \in Events |-> IF e \in claiming[w] THEN w ELSE ow[e]]
    <3>1. ASSUME NEW e \in Events
          PROVE  Owner(held', e) = IF e \in claiming[w] THEN w ELSE Owner(held, e)
      <4>1. held' = [held EXCEPT ![w] = claiming[w]]
        BY <1>3 DEF ClaimUpdate
      <4>2. held[w] = {}
        BY <1>3 DEF ClaimUpdate, QueueInv, ClaimsExclusive
      <4>3. CASE e \in claiming[w]
        <5>1. e \in held'[w]
          BY <4>1, <4>3, <1>t DEF TypeOK
        <5> QED
          BY <4>3, <5>1, <1>e, OwnerHolds
      <4>4. CASE e \notin claiming[w]
        <5>1. \A v \in Workers : e \in held'[v] <=> e \in held[v]
          BY <4>1, <4>2, <4>4, <1>t DEF TypeOK
        <5> QED
          BY <4>4, <5>1, OwnerSame
      <4> QED
        BY <4>3, <4>4
    <3> QED
      BY <3>1
  <2> QED
    BY <2>1, <2>2, <2>3 DEF Lease!Take
<1>r. ASSUME NEW w \in Workers, NEW e \in Events, e \in held[w],
             held' = [held EXCEPT ![w] = @ \ {e}]
      PROVE  ow[e] = w /\ st[e] = "processing" /\ ow' = [ow EXCEPT ![e] = Null]
  <2>1. Owner(held, e) = w /\ row[e].status = "processing"
    BY <1>r, <1>t, OwnerHolds DEF QueueInv, LeaseExclusive
  <2>2. Owner(held', e) = Null
    <3>1. \A v \in Workers : e \notin held'[v]
      BY <1>r, <1>t DEF TypeOK, Exclusive
    <3> QED
      BY <3>1, <1>e, OwnerHolds
  <2>3. ASSUME NEW x \in Events, x # e
        PROVE  Owner(held', x) = Owner(held, x)
    <3>1. \A v \in Workers : x \in held'[v] <=> x \in held[v]
      BY <1>r, <2>3, <1>t DEF TypeOK
    <3> QED
      BY <3>1, OwnerSame
  <2> QED
    BY <2>1, <2>2, <2>3
<1>4. ASSUME NEW w \in Workers, NEW e \in Events, NEW s \in {"processed", "skipped"},
             Finish(w, e, s)
      PROVE  Lease!Report(w, e, s)
  <2>1. s \in Statuses
    BY DEF Statuses
  <2>2. st' = [st EXCEPT ![e] = s]
    <3>1. Finished(row[e], s).status = s
      BY <1>t, <2>1, FinishedRow DEF TypeOK
    <3>2. row' = [row EXCEPT ![e] = Finished(row[e], s)] /\ row \in [Events -> Row]
      BY <1>4, <1>t DEF Finish, TypeOK
    <3> QED
      BY <3>1, <3>2
  <2>3. ow[e] = w /\ st[e] = "processing" /\ ow' = [ow EXCEPT ![e] = Null]
    BY <1>4, <1>r DEF Finish, Reported
  <2> QED
    BY <2>2, <2>3 DEF Lease!Report
<1>5. ASSUME NEW w \in Workers, NEW e \in Events, MarkFailedWrite(w, e)
      PROVE  \E s \in {"pending", "failed"} : Lease!Report(w, e, s)
  <2>1. e \in held[w]
    <3>1. failing[w].id = e /\ e # Null
      BY <1>5, ConstAssumption DEF MarkFailedWrite
    <3> QED
      BY <3>1 DEF QueueInv, ReadsStayFresh
  <2>2. PICK s \in {"pending", "failed"} :
          s = Unfinished(row[e], failing[w].attempts, failing[w].at).status
    <3>1. row[e] \in Row /\ failing[w].attempts \in Nat /\ failing[w].at \in Nat
      BY <1>t DEF TypeOK
    <3> QED
      BY <3>1, UnfinishedRow
  <2>3. st' = [st EXCEPT ![e] = s]
    BY <1>5, <1>t, <2>2 DEF MarkFailedWrite, TypeOK
  <2>4. ow[e] = w /\ st[e] = "processing" /\ ow' = [ow EXCEPT ![e] = Null]
    BY <1>5, <2>1, <1>r DEF MarkFailedWrite, Reported
  <2> QED
    BY <2>3, <2>4 DEF Lease!Report
<1>6. ASSUME NEW w \in Workers, Crash(w)
      PROVE  Lease!Die(w)
  <2>1. held' = [held EXCEPT ![w] = {}] /\ row' = row
    BY <1>6 DEF Crash
  <2>2. ASSUME NEW e \in Events
        PROVE  Owner(held', e) = IF Owner(held, e) = w THEN Null ELSE Owner(held, e)
    <3>1. CASE e \in held[w]
      <4>1. Owner(held, e) = w
        BY <3>1, <1>t, OwnerHolds
      <4>2. \A v \in Workers : e \notin held'[v]
        BY <2>1, <3>1, <1>t DEF TypeOK, Exclusive
      <4> QED
        BY <4>1, <4>2, <1>e, OwnerHolds
    <3>2. CASE e \notin held[w]
      <4>1. Owner(held, e) # w
        BY <3>2, <1>t, OwnerHolds
      <4>2. \A v \in Workers : e \in held'[v] <=> e \in held[v]
        BY <2>1, <3>2, <1>t DEF TypeOK
      <4> QED
        BY <4>1, <4>2, OwnerSame
    <3> QED
      BY <3>1, <3>2
  <2> QED
    BY <2>1, <2>2 DEF Lease!Die
<1>7. ASSUME NEW r \in Reapers, ReapUpdate(r)
      PROVE  Lease!Recover(reaping[r].ids)
  <2>1. \A e \in reaping[r].ids : st[e] = "processing" /\ ow[e] = Null
    <3>1. ASSUME NEW e \in reaping[r].ids
          PROVE  st[e] = "processing" /\ ow[e] = Null
      <4>1. e \in Events /\ row[e].status = "processing" /\ \A w \in Workers : e \notin held[w]
        BY <1>t DEF QueueInv, ReadsStayFresh, TypeOK
      <4> QED
        BY <4>1, <1>t, OwnerHolds
    <3> QED
      BY <3>1
  <2>2. \A e \in reaping[r].ids : st'[e] \in {"pending", "failed"}
    <3>1. ASSUME NEW e \in reaping[r].ids
          PROVE  st'[e] \in {"pending", "failed"}
      <4>1. /\ e \in Events /\ row[e] \in Row /\ reaping[r].attempts[e] \in Nat
            /\ reaping[r].at \in Nat
        BY <1>t DEF TypeOK
      <4>2. row'[e] = Unfinished(row[e], reaping[r].attempts[e], reaping[r].at)
        BY <1>7, <4>1 DEF ReapUpdate
      <4> QED
        BY <4>1, <4>2, UnfinishedRow
    <3> QED
      BY <3>1
  <2>3. st' \in [Events -> Lease!LeaseStates]
    BY <1>t DEF TypeOK, Row, Statuses, Lease!LeaseStates
  <2>4. \A e \in Events \ reaping[r].ids : st'[e] = st[e]
    BY <1>7 DEF ReapUpdate
  <2>5. ow' = ow
    BY <1>7, <1>u DEF ReapUpdate
  <2> QED
    BY <2>1, <2>2, <2>3, <2>4, <2>5 DEF Lease!Recover
<1>8. ASSUME UNCHANGED <<row, held>>
      PROVE  UNCHANGED <<st, ow>>
  BY <1>8
<1>9. ASSUME NEW w \in Workers, ClaimUpdate(w)
      PROVE  \E S \in SUBSET Events : Lease!Take(w, S)
  <2>1. claiming[w] \in SUBSET Events
    BY <1>t DEF TypeOK
  <2>2. Lease!Take(w, claiming[w])
    BY <1>3, <1>9
  <2> QED
    BY <2>1, <2>2 DEF Lease!Take
<1>10. ASSUME NEW r \in Reapers, ReapUpdate(r)
       PROVE  \E S \in SUBSET Events : Lease!Recover(S)
  <2>1. reaping[r].ids \in SUBSET Events
    BY <1>t DEF TypeOK
  <2>2. Lease!Recover(reaping[r].ids)
    BY <1>7, <1>10
  <2> QED
    BY <2>1, <2>2 DEF Lease!Recover
<1>11. Lease!Next \/ UNCHANGED <<st, ow>>
  BY <1>1, <1>2, <1>4, <1>5, <1>6, <1>8, <1>9, <1>10
     DEF Next, Work, markProcessed, markSkipped, ClaimSelect, MarkFailedRead,
         ReapSelect, ReaperCrash, Tick, vars, Lease!Next, Lease!LeaseStates
<1> QED
  BY <1>11 DEF Lease!leaseVars

\* The webhook_events table and the processes around it implement LeaseQueue,
\* for every deployment that honours the threshold with one reaper.
THEOREM QueueImplementsLease ==
    ASSUME ThresholdHonoured
    PROVE  Spec => LeaseSpec
<1>1. Init => Lease!Init
  BY DEF Init, Lease!Init, NoRow, Owner
<1>2. QueueInv /\ [Next]_vars => QueueInv'
  BY QueueStep
<1>3. QueueInv /\ QueueInv' /\ [Next]_vars => [Lease!Next]_(Lease!leaseVars)
  BY LeaseStep
<1>4. QED
  BY <1>1, <1>2, <1>3, QueueInit, PTL DEF Spec, LeaseSpec, Lease!Spec

=============================================================================
