----------------------------- MODULE BillingSync -----------------------------
(***************************************************************************)
(* How the `store_subscription` row of one store follows the platform.      *)
(* Three writers share the row: the billing webhook handler, run by queue   *)
(* workers; the refresh (asked for by a merchant, the install or the        *)
(* nightly sweep) of each server process; and markDueForReconciliation.     *)
(* Each of them reads the row, awaits, and writes later; a save writes the  *)
(* whole row.  Webhooks may be lost, late, reordered and redelivered; a     *)
(* fetch may fail; a process may die between any two steps.                 *)
(***************************************************************************)
EXTENDS Subscription, FiniteSets

CONSTANTS
    Handlers,      \* queue workers that run BillingEventHandler.handle
    Processes,     \* server processes, each with its own in-flight map
    Codes,         \* plans the merchant moves between
    Statuses,      \* statuses the platform moves the subscription to
    PeriodLength,  \* length of a billing period at the platform
    Silences,      \* sets of fact fields a billing event may leave out
    Unpolled,      \* the fact fields the adapter's poll leaves out
    Throttle,      \* REFRESH_THROTTLE_MS
    MaxTime,       \* bound: the clock stops here
    MaxEvents,     \* bound: events the platform emits
    MaxDeliveries  \* bound: webhook deliveries, redeliveries included

\* The facts a source may be silent about: all but the status.
FactFields == {"planCode", "platformPlanId", "trialEndsAt", "currentPeriodStart",
               "currentPeriodEnd"}

ASSUME ConstAssumption ==
    /\ Null \notin Nat
    /\ Null \notin PlanCodes
    /\ FallbackPeriod \in Nat \ {0}
    /\ PeriodLength \in Nat \ {0}
    /\ Throttle \in Nat
    /\ Codes \subseteq PlanCodes /\ Statuses \subseteq SUBSCRIPTION_STATUSES
    /\ Silences \subseteq SUBSET FactFields /\ Unpolled \subseteq FactFields
    /\ MaxTime \in Nat /\ MaxEvents \in Nat /\ MaxDeliveries \in Nat

VARIABLES
    now,         \* the wall clock
    truth,       \* the subscription at the platform
    sent,        \* billing events the platform has emitted
    deliveries,  \* how many deliveries have been handed to the handler
    handled,     \* events some handler has finished with
    row,         \* the store_subscription row, Null before the first write
    handling,    \* handling[h]: the event and the row h has read
    requesting,  \* requesting[p]: what requestRefresh does next
    refreshing   \* refreshing[p]: the refresh in flight (inFlight)

vars == <<now, truth, sent, deliveries, handled, row, handling, requesting,
          refreshing>>

-----------------------------------------------------------------------------
Instant == Nat \cup {Null}

\* What an event or a poll says; each field but the status may be silent, by
\* itself.  "unmapped" is a plan code no build knows.
Facts == [status: SUBSCRIPTION_STATUSES, planCode: PlanCodes \cup {"unmapped", Null},
          platformPlanId: PlanCodes \cup {Null}, trialEndsAt: Instant,
          currentPeriodStart: Instant, currentPeriodEnd: Instant]

Event == [facts: Facts, occurredAt: Nat]

Change == [status: SUBSCRIPTION_STATUSES, planCode: PlanCodes \cup {Null},
           platformPlanId: PlanCodes \cup {Null}, trialEndsAt: Instant,
           currentPeriodStart: Instant, currentPeriodEnd: Instant, occurredAt: Nat]

Row == [planCode: PlanCodes, platformPlanId: PlanCodes \cup {Null},
        status: SUBSCRIPTION_STATUSES, trialEndsAt: Instant,
        currentPeriodStart: Nat, currentPeriodEnd: Nat, lastEventAt: Instant,
        lastReconciledAt: Instant, pendingPlanCode: PlanCodes \cup {Null},
        pendingPlanEffectiveAt: Instant]

\* The platform's own record: `next` is the plan of the next period, Null
\* while the store is not known to the platform.
Truth == [status: SUBSCRIPTION_STATUSES, plan: PlanCodes, next: PlanCodes,
          start: Nat, end: Nat, trialEndsAt: Instant]

\* Null is told from every record.
ASSUME NullAssumption ==
    Null \notin Event /\ Null \notin Change /\ Null \notin Row /\ Null \notin Truth

NotHandling == [event |-> Null, current |-> Null]
NotRefreshing == [phase |-> "idle", at |-> 0, answer |-> Null, current |-> Null]

TypeOK ==
    /\ now \in Nat
    /\ truth \in Truth \cup {Null}
    /\ sent \subseteq Event
    /\ deliveries \in Nat
    /\ handled \subseteq sent
    /\ row \in Row \cup {Null}
    /\ handling \in [Handlers -> [event: Event \cup {Null}, current: Row \cup {Null}]]
    /\ requesting \in [Processes -> {"no", "mark", "start"}]
    /\ refreshing \in [Processes -> [phase: {"idle", "fetch", "find", "write"}, at: Nat,
                                     answer: Change \cup {Null}, current: Row \cup {Null}]]

\* All the platform can say about a subscription, with this plan.
FactsOf(t, plan) ==
    [status |-> t.status, planCode |-> plan, platformPlanId |-> plan,
     trialEndsAt |-> t.trialEndsAt, currentPeriodStart |-> t.start,
     currentPeriodEnd |-> t.end]

\* The same facts with some fields left out.
Muted(facts, silent) == [f \in DOMAIN facts |-> IF f \in silent THEN Null ELSE facts[f]]

\* What the adapter answers when it is asked for the subscription.
Polled(t) == Muted(FactsOf(t, t.plan), Unpolled)

\* A store is installed: it is on trial at the platform, which says so in its
\* first event, and nothing is here.
Init ==
    /\ now = 0
    /\ truth = [status |-> "trialing", plan |-> TRIAL_PLAN, next |-> TRIAL_PLAN,
                start |-> 0, end |-> PeriodLength, trialEndsAt |-> PeriodLength]
    /\ \E silent \in Silences :
          sent = {[facts |-> Muted(FactsOf(truth, TRIAL_PLAN), silent), occurredAt |-> 0]}
    /\ handled = {} /\ deliveries = 0
    /\ row = Null
    /\ handling = [h \in Handlers |-> NotHandling]
    /\ requesting = [p \in Processes |-> "no"]
    /\ refreshing = [p \in Processes |-> NotRefreshing]

-----------------------------------------------------------------------------
(* The platform: upgrades apply at once, downgrades at the period's end, and *)
(* every change is announced.                                                *)

\* The platform moves to t and announces it with some of these facts.
Announce(t, facts) ==
    /\ Cardinality(sent) < MaxEvents
    /\ \E silent \in Silences :
          LET event == [facts |-> Muted(facts, silent), occurredAt |-> now]
          IN  event \notin sent /\ sent' = sent \cup {event}
    /\ truth' = t
    /\ UNCHANGED <<now, deliveries, handled, row, handling, requesting, refreshing>>

Upgrade(code) ==
    /\ truth # Null /\ <<code, code>> # <<truth.plan, truth.next>>
    /\ ~isDowngrade(PLANS[truth.plan], PLANS[code])
    /\ LET t == [truth EXCEPT !.plan = code, !.next = code, !.status = "active"]
       IN  Announce(t, FactsOf(t, code))

Downgrade(code) ==
    /\ truth # Null /\ isDowngrade(PLANS[truth.plan], PLANS[code])
    /\ LET t == [truth EXCEPT !.next = code] IN Announce(t, FactsOf(t, code))

Renew ==
    /\ truth # Null /\ now >= truth.end
    /\ LET t == [truth EXCEPT !.plan = truth.next, !.status = "active",
                              !.start = now, !.end = now + PeriodLength]
       IN  Announce(t, FactsOf(t, truth.next))

\* A failed payment, a recovery, a cancellation, a lapse.  The event may name a
\* plan no build can resolve.
StatusChange(status) ==
    /\ truth # Null /\ status # truth.status
    /\ LET t == [truth EXCEPT !.status = status]
       IN  \/ Announce(t, FactsOf(t, truth.plan))
           \/ Announce(t, [FactsOf(t, truth.plan) EXCEPT !.planCode = "unmapped"])

\* An uninstall whose webhook never comes.
Uninstall ==
    /\ truth # Null /\ truth' = Null
    /\ UNCHANGED <<now, sent, deliveries, handled, row, handling, requesting,
                   refreshing>>

-----------------------------------------------------------------------------
(* The table refuses a row whose period is empty, or with half a pending plan. *)

MeetsChecks(r) ==
    /\ r.currentPeriodEnd > r.currentPeriodStart
    /\ (r.pendingPlanCode = Null) <=> (r.pendingPlanEffectiveAt = Null)

-----------------------------------------------------------------------------
(* BillingEventHandler.handle *)

\* An unknown plan code counts as not said.
toChange(facts, occurredAt) ==
    [status |-> facts.status,
     planCode |-> IF isPlanCode(facts.planCode) THEN facts.planCode ELSE Null,
     platformPlanId |-> facts.platformPlanId, trialEndsAt |-> facts.trialEndsAt,
     currentPeriodStart |-> facts.currentPeriodStart,
     currentPeriodEnd |-> facts.currentPeriodEnd, occurredAt |-> occurredAt]

\* The row the handler leaves, from the row it READ; `Null` for a stale event.
Applied(current, change) ==
    IF current = Null THEN seedSubscription(change)
    ELSE IF isStale(current, change.occurredAt) THEN Null
    ELSE applyChange(current, change)

\* What h will write: its event applied to the row it read.
HandlerWrites(h) ==
    Applied(handling[h].current, toChange(handling[h].event.facts, handling[h].event.occurredAt))

HandleFind(h, event) ==
    /\ handling[h] = NotHandling /\ event \in sent /\ deliveries < MaxDeliveries
    /\ handling' = [handling EXCEPT ![h] = [event |-> event, current |-> row]]
    /\ deliveries' = deliveries + 1
    /\ UNCHANGED <<now, truth, sent, handled, row, requesting, refreshing>>

HandleSave(h) ==
    /\ handling[h] # NotHandling
    /\ LET next == HandlerWrites(h)
       IN  /\ next # Null => MeetsChecks(next)
           /\ row' = IF next = Null THEN row ELSE next
    /\ handled' = handled \cup {handling[h].event}
    /\ handling' = [handling EXCEPT ![h] = NotHandling]
    /\ UNCHANGED <<now, truth, sent, deliveries, requesting, refreshing>>

\* The worker dies, or the save throws, a row the table refuses included: nothing
\* is written, and the queue delivers the event again.
HandlerCrash(h) ==
    /\ handling[h] # NotHandling
    /\ handling' = [handling EXCEPT ![h] = NotHandling]
    /\ UNCHANGED <<now, truth, sent, deliveries, handled, row, requesting, refreshing>>

-----------------------------------------------------------------------------
(* SubscriptionRefreshService *)

\* refreshNow: join the refresh in flight, or start one.
refreshNow(p) ==
    refreshing' = IF refreshing[p].phase # "idle" THEN refreshing
                  ELSE [refreshing EXCEPT ![p] = [NotRefreshing EXCEPT !.phase = "fetch",
                                                                       !.at = now]]

\* The install handshake; and the sweep, which only walks rows that exist.
provisionAtInstall(p) ==
    /\ refreshing[p].phase = "idle" /\ row = Null
    /\ refreshNow(p)
    /\ UNCHANGED <<now, truth, sent, deliveries, handled, row, handling, requesting>>

SweepRefresh(p) ==
    /\ refreshing[p].phase = "idle" /\ row # Null
    /\ refreshNow(p)
    /\ UNCHANGED <<now, truth, sent, deliveries, handled, row, handling, requesting>>

\* requestRefresh, up to its first await: throttled by the last check.
RequestFind(p) ==
    /\ requesting[p] = "no"
    /\ row # Null /\ row.lastReconciledAt # Null => now - row.lastReconciledAt >= Throttle
    /\ requesting' = [requesting EXCEPT ![p] = IF row = Null THEN "start" ELSE "mark"]
    /\ UNCHANGED <<now, truth, sent, deliveries, handled, row, handling, refreshing>>

\* ... then markDueForReconciliation, which touches one column,
RequestMark(p) ==
    /\ requesting[p] = "mark"
    /\ row' = [row EXCEPT !.lastReconciledAt = Null]
    /\ requesting' = [requesting EXCEPT ![p] = "start"]
    /\ UNCHANGED <<now, truth, sent, deliveries, handled, handling, refreshing>>

\* ... then the refresh, detached.
RequestStart(p) ==
    /\ requesting[p] = "start"
    /\ requesting' = [requesting EXCEPT ![p] = "no"]
    /\ refreshNow(p)
    /\ UNCHANGED <<now, truth, sent, deliveries, handled, row, handling>>

\* The database refuses the mark, or the process dies: nothing is started.
RequestFail(p) ==
    /\ requesting[p] # "no"
    /\ requesting' = [requesting EXCEPT ![p] = "no"]
    /\ UNCHANGED <<now, truth, sent, deliveries, handled, row, handling, refreshing>>

\* performRefresh: the platform answers; Null when it does not know the store.
RefreshFetch(p) ==
    /\ refreshing[p].phase = "fetch"
    /\ refreshing' = [refreshing EXCEPT
         ![p].phase = "find",
         ![p].answer = IF truth = Null THEN Null ELSE toChange(Polled(truth), now)]
    /\ UNCHANGED <<now, truth, sent, deliveries, handled, row, handling, requesting>>

RefreshFind(p) ==
    /\ refreshing[p].phase = "find"
    /\ refreshing' = [refreshing EXCEPT ![p].phase = "write", ![p].current = row]
    /\ UNCHANGED <<now, truth, sent, deliveries, handled, row, handling, requesting>>

\* The row performRefresh leaves in place of r, the row now, from what it read:
\* markReconciled touches one column, a save writes every column.
Refreshed(r, answer, current, at) ==
    IF answer # Null /\ current = Null
    THEN [seedSubscription(answer) EXCEPT !.lastReconciledAt = at]
    ELSE IF answer # Null /\ differsFrom(current, answer)
    THEN reconcile(current, answer, at)
    ELSE IF current # Null THEN [r EXCEPT !.lastReconciledAt = at]
    ELSE r

\* What p's refresh will write, stamped with this instant.
RefreshWrites(p, at) == Refreshed(row, refreshing[p].answer, refreshing[p].current, at)

\* Faulty variant: stamped with the time of the write, not of the question.
RefreshWriteNow(p) ==
    /\ refreshing[p].phase = "write"
    /\ RefreshWrites(p, now) # Null => MeetsChecks(RefreshWrites(p, now))
    /\ row' = RefreshWrites(p, now)
    /\ refreshing' = [refreshing EXCEPT ![p] = NotRefreshing]
    /\ UNCHANGED <<now, truth, sent, deliveries, handled, handling, requesting>>

RefreshWrite(p) ==
    /\ refreshing[p].phase = "write"
    /\ LET next == RefreshWrites(p, refreshing[p].at)
       IN  (next # Null => MeetsChecks(next)) /\ row' = next
    /\ refreshing' = [refreshing EXCEPT ![p] = NotRefreshing]
    /\ UNCHANGED <<now, truth, sent, deliveries, handled, handling, requesting>>

\* The fetch, the find or the write throws, on a row the table refuses too, or the
\* process dies: `failed`.
RefreshFail(p) ==
    /\ refreshing[p].phase # "idle"
    /\ refreshing' = [refreshing EXCEPT ![p] = NotRefreshing]
    /\ UNCHANGED <<now, truth, sent, deliveries, handled, row, handling, requesting>>

Tick ==
    /\ now < MaxTime
    /\ now' = now + 1
    /\ UNCHANGED <<truth, sent, deliveries, handled, row, handling, requesting,
                   refreshing>>

Platform ==
    \/ \E code \in Codes : Upgrade(code) \/ Downgrade(code)
    \/ \E status \in Statuses : StatusChange(status)
    \/ Renew \/ Uninstall

Handle(h) == (\E event \in sent : HandleFind(h, event)) \/ HandleSave(h) \/ HandlerCrash(h)

Refresh(p) ==
    \/ provisionAtInstall(p) \/ SweepRefresh(p)
    \/ RefreshFetch(p) \/ RefreshFind(p) \/ RefreshWrite(p) \/ RefreshFail(p)

Request(p) == RequestFind(p) \/ RequestMark(p) \/ RequestStart(p) \/ RequestFail(p)

Next ==
    \/ Platform
    \/ \E h \in Handlers : Handle(h)
    \/ \E p \in Processes : Refresh(p) \/ Request(p)
    \/ Tick

Spec == Init /\ [][Next]_vars

-----------------------------------------------------------------------------
(* Invariants *)

\* Both ends of the period are said, or neither.
WholePeriod(facts) == facts.currentPeriodStart = Null <=> facts.currentPeriodEnd = Null

\* No writer computes a row the table refuses, from whatever it had read and
\* whoever wrote meanwhile, unless what it was told names one end of a period
\* without the other: a refused save is an event retried to its death and a store
\* left on its old row, or on none.  A plan code is one the build knows, a pending
\* plan has its date and only then, the period orders are counted in is not empty.
WritesPassChecks ==
    /\ TypeOK
    /\ row # Null => MeetsChecks(row)
    /\ \A h \in Handlers :
          /\ handling[h] # NotHandling /\ WholePeriod(handling[h].event.facts)
          /\ HandlerWrites(h) # Null
          => MeetsChecks(HandlerWrites(h))
    /\ \A p \in Processes :
          /\ refreshing[p].phase = "write"
          /\ refreshing[p].answer # Null => WholePeriod(refreshing[p].answer)
          /\ RefreshWrites(p, refreshing[p].at) # Null
          => MeetsChecks(RefreshWrites(p, refreshing[p].at))

\* last_event_at is "the occurrence time of the newest event applied": no
\* writer takes the row back to before an event that has been handled.
EventsStayApplied ==
    \A e \in handled : row # Null /\ row.lastEventAt >= e.occurredAt

\* The ordering guard.  However events are delayed, reordered, redelivered or
\* lost, the row is at least as new as every event handled, and its status is
\* what the newest of them said: a late cancellation cannot lock out a store
\* whose renewal has been handled.
NewestEventRules ==
    /\ EventsStayApplied
    /\ row # Null => \E e \in handled : /\ e.occurredAt = row.lastEventAt
                                        /\ e.facts.status = row.status

\* The queue hands a store's events to one worker at a time, and nothing is
\* refreshed meanwhile: when NewestEventRules and PaidTierKept are promised.
EventsInTurn == Processes = {} /\ \A g, h \in Handlers : g = h

\* The row says what the platform answers.
RowAgrees == ~differsFrom(row, toChange(Polled(truth), now))

\* last_reconciled_at means checked: when nothing has changed at the platform
\* since that instant, the row is the platform's answer.
CheckedRowAgrees ==
    /\ row # Null /\ truth # Null
    /\ row.lastReconciledAt # Null
    /\ \A e \in sent : e.occurredAt < row.lastReconciledAt
    => RowAgrees

\* When CheckedRowAgrees is promised: the row is written by one process's
\* refreshes only.
OneRefresher == Handlers = {} /\ \A p, q \in Processes : p = q

-----------------------------------------------------------------------------
(* Action properties *)

\* What the merchant has paid for stays until the period on the row is over:
\* no write, from an event however late, takes anything away before.
PaidTierKept ==
    [][/\ row # Null /\ row' # row
       /\ isDowngrade(PLANS[effectivePlanCode(row, now)],
                      PLANS[effectivePlanCode(row', now)])
       => now >= row.currentPeriodEnd]_vars

-----------------------------------------------------------------------------
(* Liveness.  The sweep runs every night, and a platform and a database that *)
(* are asked again and again answer again and again, failures in between.    *)
(* No merchant asks.                                                         *)

LiveNext ==
    \/ Platform
    \/ \E h \in Handlers : Handle(h)
    \/ \E p \in Processes : Refresh(p)
    \/ Tick

LiveSpec ==
    /\ Init /\ [][LiveNext]_vars
    /\ \A p \in Processes : /\ WF_vars(SweepRefresh(p)) /\ SF_vars(RefreshFetch(p))
                            /\ SF_vars(RefreshFind(p)) /\ SF_vars(RefreshWrite(p))

\* Whatever webhooks were lost and whichever writes raced, once the platform
\* is quiet the sweep makes the row the platform's answer, and it stays so.
DriftIsRepaired == <>[](row # Null /\ truth # Null => RowAgrees)

=============================================================================
