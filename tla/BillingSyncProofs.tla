-------------------------- MODULE BillingSyncProofs --------------------------
(***************************************************************************)
(* Theorems about BillingSync, for every set of handlers and processes,     *)
(* every plan and status the platform moves between, and every period.      *)
(***************************************************************************)
EXTENDS BillingSync, TLAPS

-----------------------------------------------------------------------------
(* The plan table *)

LEMMA PlanCodesAre ==
    PlanCodes = {"starter", "growth", "scale", "ads", "starter_annual",
                 "growth_annual", "scale_annual", "ads_annual"}
  BY DEF PlanCodes, PLANS

LEMMA TrialPlanKnown == TRIAL_PLAN \in PlanCodes
  BY PlanCodesAre DEF TRIAL_PLAN

\* The rank of a plan: what it caps and what it includes, and nothing else.
Rank(code) ==
    IF code \in {"starter", "starter_annual"} THEN 1
    ELSE IF code \in {"growth", "growth_annual"} THEN 2
    ELSE IF code \in {"scale", "scale_annual"} THEN 3 ELSE 4

LEMMA MonthlyCaps ==
    \A code \in PlanCodes :
        /\ Rank(code) = 1 => monthlyCapOf(PLANS[code]) = CapUnit
        /\ Rank(code) = 2 => monthlyCapOf(PLANS[code]) = 5 * CapUnit
        /\ Rank(code) >= 3 => monthlyCapOf(PLANS[code]) = Null
        /\ Rank(code) < 4 => PLANS[code].features = {"core"}
        /\ Rank(code) = 4 => PLANS[code].features = FEATURES
<1>1. CapUnit \in Nat /\ Null \notin Nat
  BY CapUnitAssumption, ConstAssumption
<1>2. (12 * CapUnit) \div 12 = CapUnit /\ (60 * CapUnit) \div 12 = 5 * CapUnit
  BY <1>1
<1> QED
  BY <1>1, <1>2, PlanCodesAre DEF PLANS, Rank, monthlyCapOf, FEATURES

\* isDowngrade orders the plans by rank.
LEMMA DowngradeIsRank ==
    \A a, b \in PlanCodes : isDowngrade(PLANS[a], PLANS[b]) <=> Rank(b) < Rank(a)
<1> SUFFICES ASSUME NEW a \in PlanCodes, NEW b \in PlanCodes
             PROVE  isDowngrade(PLANS[a], PLANS[b]) <=> Rank(b) < Rank(a)
  OBVIOUS
<1>1. Rank(a) \in 1 .. 4 /\ Rank(b) \in 1 .. 4
  BY DEF Rank
<1>2. CapUnit \in Nat \ {0} /\ Null \notin Nat
  BY CapUnitAssumption, ConstAssumption
<1> DEFINE ca == monthlyCapOf(PLANS[a])  cb == monthlyCapOf(PLANS[b])
           fa == PLANS[a].features       fb == PLANS[b].features
<1>3. /\ Rank(a) = 1 => ca = CapUnit
      /\ Rank(a) = 2 => ca = 5 * CapUnit
      /\ Rank(a) >= 3 => ca = Null
      /\ Rank(a) < 4 => fa = {"core"}
      /\ Rank(a) = 4 => fa = FEATURES
  BY MonthlyCaps
<1>4. /\ Rank(b) = 1 => cb = CapUnit
      /\ Rank(b) = 2 => cb = 5 * CapUnit
      /\ Rank(b) >= 3 => cb = Null
      /\ Rank(b) < 4 => fb = {"core"}
      /\ Rank(b) = 4 => fb = FEATURES
  BY MonthlyCaps
<1>5. isDowngrade(PLANS[a], PLANS[b])
      <=> \/ \E feature \in fa : feature \notin fb
          \/ cb # Null /\ (ca # Null => cb < ca)
  BY DEF isDowngrade
<1> HIDE DEF ca, cb, fa, fb
<1>6. (\E feature \in fa : feature \notin fb) <=> Rank(a) = 4 /\ Rank(b) < 4
  BY <1>1, <1>3, <1>4 DEF FEATURES
<1>7. (cb # Null /\ (ca # Null => cb < ca)) <=> Rank(b) < 3 /\ Rank(b) < Rank(a)
  BY <1>1, <1>2, <1>3, <1>4
<1> QED
  BY <1>1, <1>5, <1>6, <1>7

-----------------------------------------------------------------------------
(* Rows and changes *)

\* A period said whole is not empty.
PeriodOK(c) ==
    c.currentPeriodStart # Null /\ c.currentPeriodEnd # Null
      => c.currentPeriodStart < c.currentPeriodEnd

LEMMA SaidInstant ==
    ASSUME NEW a \in Instant, NEW b \in Nat
    PROVE  Said(a, b) \in Nat
  BY DEF Said, Instant

LEMMA ChangeIsChange ==
    ASSUME NEW f \in Facts, NEW t \in Nat
    PROVE  /\ toChange(f, t) \in Change
           /\ PeriodOK(toChange(f, t)) <=> PeriodOK(f)
           /\ WholePeriod(toChange(f, t)) <=> WholePeriod(f)
           /\ toChange(f, t).occurredAt = t
           /\ toChange(f, t).status = f.status
  BY DEF toChange, Facts, Change, PeriodOK, WholePeriod, isPlanCode

LEMMA SeedIsRow ==
    ASSUME NEW c \in Change
    PROVE  /\ seedSubscription(c) \in Row
           /\ WholePeriod(c) /\ PeriodOK(c) => MeetsChecks(seedSubscription(c))
           /\ seedSubscription(c).lastEventAt = c.occurredAt
           /\ seedSubscription(c).status = c.status
           /\ seedSubscription(c).pendingPlanCode = Null
<1> DEFINE start == Said(c.currentPeriodStart, c.occurredAt)
           end == Said(c.currentPeriodEnd, start + FallbackPeriod)
           plan == Said(c.planCode, TRIAL_PLAN)
<1>1. plan \in PlanCodes
  BY TrialPlanKnown DEF Said, Change
<1>2. start \in Nat /\ end \in Nat /\ (WholePeriod(c) /\ PeriodOK(c) => start < end)
  BY ConstAssumption DEF Said, Change, Instant, PeriodOK, WholePeriod
<1>3. seedSubscription(c) =
        [planCode |-> plan, platformPlanId |-> c.platformPlanId, status |-> c.status,
         trialEndsAt |-> c.trialEndsAt, currentPeriodStart |-> start, currentPeriodEnd |-> end,
         lastEventAt |-> c.occurredAt, lastReconciledAt |-> Null, pendingPlanCode |-> Null,
         pendingPlanEffectiveAt |-> Null]
  BY DEF seedSubscription
<1> HIDE DEF start, end, plan
<1> QED
  BY <1>1, <1>2, <1>3 DEF Change, Row, MeetsChecks, Instant

LEMMA ToldIsRow ==
    ASSUME NEW r \in Row, NEW c \in Change
    PROVE  /\ Told(r, c) \in Row
           /\ MeetsChecks(r) /\ WholePeriod(c) /\ PeriodOK(c) => MeetsChecks(Told(r, c))
           /\ Told(r, c).status = c.status
           /\ Told(r, c).planCode = r.planCode
           /\ Told(r, c).lastEventAt = r.lastEventAt
           /\ Told(r, c).pendingPlanCode = r.pendingPlanCode
           /\ Told(r, c).pendingPlanEffectiveAt = r.pendingPlanEffectiveAt
           /\ Told(r, c).platformPlanId = Said(c.platformPlanId, r.platformPlanId)
           /\ Told(r, c).trialEndsAt = Said(c.trialEndsAt, r.trialEndsAt)
           /\ Told(r, c).currentPeriodStart = Said(c.currentPeriodStart, r.currentPeriodStart)
           /\ Told(r, c).currentPeriodEnd = Said(c.currentPeriodEnd, r.currentPeriodEnd)
<1> DEFINE id == Said(c.platformPlanId, r.platformPlanId)
           trial == Said(c.trialEndsAt, r.trialEndsAt)
           start == Said(c.currentPeriodStart, r.currentPeriodStart)
           end == Said(c.currentPeriodEnd, r.currentPeriodEnd)
<1>1. id \in PlanCodes \cup {Null} /\ trial \in Instant
  BY DEF Said, Change, Row, Instant
<1>2. /\ start \in Nat /\ end \in Nat
      /\ MeetsChecks(r) /\ WholePeriod(c) /\ PeriodOK(c) => start < end
  BY ConstAssumption DEF Said, Change, Instant, PeriodOK, WholePeriod, Row, MeetsChecks
<1>3. Told(r, c) = [r EXCEPT !.status = c.status, !.platformPlanId = id, !.trialEndsAt = trial,
                             !.currentPeriodStart = start, !.currentPeriodEnd = end]
  BY DEF Told
<1> HIDE DEF id, trial, start, end
<1>4. /\ Told(r, c) \in Row
      /\ MeetsChecks(r) /\ WholePeriod(c) /\ PeriodOK(c) => MeetsChecks(Told(r, c))
      /\ Told(r, c).status = c.status
      /\ Told(r, c).planCode = r.planCode
      /\ Told(r, c).lastEventAt = r.lastEventAt
      /\ Told(r, c).pendingPlanCode = r.pendingPlanCode
      /\ Told(r, c).pendingPlanEffectiveAt = r.pendingPlanEffectiveAt
  BY <1>1, <1>2, <1>3 DEF Change, Row, MeetsChecks
<1>5. /\ Told(r, c).platformPlanId = id /\ Told(r, c).trialEndsAt = trial
      /\ Told(r, c).currentPeriodStart = start /\ Told(r, c).currentPeriodEnd = end
  BY <1>3 DEF Row
<1> QED
  BY <1>4, <1>5 DEF id, trial, start, end

LEMMA ApplyIsRow ==
    ASSUME NEW r \in Row, NEW c \in Change
    PROVE  /\ applyChange(r, c) \in Row
           /\ MeetsChecks(r) /\ WholePeriod(c) /\ PeriodOK(c) => MeetsChecks(applyChange(r, c))
           /\ applyChange(r, c).lastEventAt = c.occurredAt
           /\ applyChange(r, c).status = c.status
<1> DEFINE defer == deferUntilPeriodEnd(r, c)
           told == Told(r, c)
           plan == IF defer THEN told.planCode ELSE Said(c.planCode, told.planCode)
           pending == IF defer THEN c.planCode ELSE Null
           date == IF defer THEN r.currentPeriodEnd ELSE Null
<1>1. /\ told \in Row /\ told.status = c.status
      /\ MeetsChecks(r) /\ WholePeriod(c) /\ PeriodOK(c) => MeetsChecks(told)
  BY ToldIsRow
<1>2. plan \in PlanCodes
  BY <1>1 DEF Said, Change, Row
<1>3. /\ pending \in PlanCodes \cup {Null} /\ date \in Instant
      /\ pending = Null <=> date = Null
  BY ConstAssumption DEF deferUntilPeriodEnd, Change, Row, Instant
<1>4. applyChange(r, c) = [told EXCEPT !.planCode = plan, !.pendingPlanCode = pending,
                                       !.pendingPlanEffectiveAt = date, !.lastEventAt = c.occurredAt]
  BY DEF applyChange
<1>5. c.occurredAt \in Instant
  BY DEF Change, Instant
<1> HIDE DEF told, plan, pending, date
<1> QED
  BY <1>1, <1>2, <1>3, <1>4, <1>5 DEF Row, MeetsChecks

LEMMA ReconcileIsRow ==
    ASSUME NEW r \in Row, NEW c \in Change, NEW at \in Nat
    PROVE  /\ reconcile(r, c, at) \in Row
           /\ MeetsChecks(r) /\ WholePeriod(c) /\ PeriodOK(c) => MeetsChecks(reconcile(r, c, at))
<1> DEFINE told == Told(r, c)
           plan == Said(c.planCode, told.planCode)
<1>1. /\ told \in Row
      /\ MeetsChecks(r) /\ WholePeriod(c) /\ PeriodOK(c) => MeetsChecks(told)
  BY ToldIsRow
<1>2. plan \in PlanCodes /\ at \in Instant
  BY <1>1 DEF Said, Change, Row, Instant
<1>3. reconcile(r, c, at) = [told EXCEPT !.planCode = plan, !.lastReconciledAt = at]
  BY DEF reconcile
<1> HIDE DEF told, plan
<1> QED
  BY <1>1, <1>2, <1>3 DEF Row, MeetsChecks

\* Whatever a refresh had read, what it leaves is a row; it leaves none only
\* where none was and the platform had no answer.
LEMMA RefreshedIsRow ==
    ASSUME NEW r \in Row \cup {Null}, NEW cur \in Row \cup {Null}, NEW ans \in Change \cup {Null},
           NEW at \in Nat, r # Null => MeetsChecks(r), cur # Null => MeetsChecks(cur) /\ r # Null
    PROVE  /\ Refreshed(r, ans, cur, at) \in Row \cup {Null}
           /\ /\ Refreshed(r, ans, cur, at) # Null
              /\ ans # Null => WholePeriod(ans) /\ PeriodOK(ans)
              => MeetsChecks(Refreshed(r, ans, cur, at))
           /\ r # Null => Refreshed(r, ans, cur, at) # Null
<1>1. Null \notin Row /\ Null \notin Change /\ at \in Instant
  BY NullAssumption DEF Instant
<1>2. CASE ans # Null /\ cur = Null
  <2>1. /\ seedSubscription(ans) \in Row
        /\ WholePeriod(ans) /\ PeriodOK(ans) => MeetsChecks(seedSubscription(ans))
    BY <1>2, SeedIsRow
  <2>2. Refreshed(r, ans, cur, at) = [seedSubscription(ans) EXCEPT !.lastReconciledAt = at]
    BY <1>2 DEF Refreshed
  <2> QED
    BY <1>1, <1>2, <2>1, <2>2 DEF Row, MeetsChecks
<1>3. CASE ans # Null /\ cur # Null /\ differsFrom(cur, ans)
  BY <1>1, <1>3, ReconcileIsRow DEF Refreshed
<1>4. CASE cur # Null /\ ~(ans # Null /\ differsFrom(cur, ans))
  <2>1. Refreshed(r, ans, cur, at) = [r EXCEPT !.lastReconciledAt = at]
    BY <1>4 DEF Refreshed
  <2> QED
    BY <1>1, <1>4, <2>1 DEF Row, MeetsChecks
<1>5. CASE ans = Null /\ cur = Null
  BY <1>5 DEF Refreshed
<1> QED
  BY <1>2, <1>3, <1>4, <1>5

-----------------------------------------------------------------------------
(* The schema's constraints *)

\* What keeps every writer's row within the schema: each writer holds, between
\* its read and its write, a row and a change that are themselves well formed,
\* and a row once there is there for good.
HandlersOK ==
    \A h \in Handlers :
        /\ handling[h] # NotHandling => handling[h].event \in sent
        /\ handling[h].current # Null => MeetsChecks(handling[h].current)

ProcessesOK ==
    \A p \in Processes :
        /\ requesting[p] = "mark" => row # Null
        /\ refreshing[p].current # Null => MeetsChecks(refreshing[p].current) /\ row # Null
        /\ refreshing[p].answer # Null => PeriodOK(refreshing[p].answer)

PlatformOK ==
    /\ truth # Null => truth.start < truth.end
    /\ \A e \in sent : PeriodOK(e.facts)

SchemaInv == TypeOK /\ PlatformOK /\ (row # Null => MeetsChecks(row)) /\ HandlersOK /\ ProcessesOK

LEMMA MutedFacts ==
    ASSUME NEW f \in Facts, NEW silent \in SUBSET FactFields
    PROVE  Muted(f, silent) \in Facts /\ (PeriodOK(f) => PeriodOK(Muted(f, silent)))
<1>1. DOMAIN f = {"status", "planCode", "platformPlanId", "trialEndsAt", "currentPeriodStart",
                  "currentPeriodEnd"}
  BY DEF Facts
<1> DEFINE g == Muted(f, silent)
           m(field) == IF field \in silent THEN Null ELSE f[field]
<1>2. g = [status |-> f.status, planCode |-> m("planCode"), platformPlanId |-> m("platformPlanId"),
           trialEndsAt |-> m("trialEndsAt"), currentPeriodStart |-> m("currentPeriodStart"),
           currentPeriodEnd |-> m("currentPeriodEnd")]
  BY <1>1 DEF Muted, FactFields
<1> HIDE DEF g
<1> QED
  BY <1>2 DEF g, Facts, PeriodOK, Instant

LEMMA TruthFacts ==
    ASSUME NEW t \in Truth, NEW plan \in PlanCodes, t.start < t.end
    PROVE  /\ FactsOf(t, plan) \in Facts /\ PeriodOK(FactsOf(t, plan))
           /\ [FactsOf(t, plan) EXCEPT !.planCode = "unmapped"] \in Facts
           /\ PeriodOK([FactsOf(t, plan) EXCEPT !.planCode = "unmapped"])
  BY DEF Truth, FactsOf, Facts, PeriodOK, Instant

\* What a poll says of the platform's record.
LEMMA PolledFacts ==
    ASSUME NEW t \in Truth, t.start < t.end
    PROVE  Polled(t) \in Facts /\ PeriodOK(Polled(t))
<1>1. FactsOf(t, t.plan) \in Facts /\ PeriodOK(FactsOf(t, t.plan))
  BY TruthFacts DEF Truth
<1> QED
  BY <1>1, MutedFacts, ConstAssumption DEF Polled

LEMMA SchemaInit == Init => SchemaInv
<1> SUFFICES ASSUME Init PROVE SchemaInv
  OBVIOUS
<1>1. truth \in Truth /\ truth.start < truth.end
  BY ConstAssumption, TrialPlanKnown DEF Init, Truth, Instant, SUBSCRIPTION_STATUSES
<1>2. FactsOf(truth, TRIAL_PLAN) \in Facts /\ PeriodOK(FactsOf(truth, TRIAL_PLAN))
  BY <1>1, TruthFacts, TrialPlanKnown
<1>3. sent \subseteq Event /\ PlatformOK
  <2>1. PICK silent \in Silences :
          sent = {[facts |-> Muted(FactsOf(truth, TRIAL_PLAN), silent), occurredAt |-> 0]}
    BY DEF Init
  <2> DEFINE f == Muted(FactsOf(truth, TRIAL_PLAN), silent)
  <2>2. f \in Facts /\ PeriodOK(f)
    BY <1>2, MutedFacts, ConstAssumption
  <2> HIDE DEF f
  <2> QED
    BY <1>1, <2>1, <2>2 DEF f, Event, PlatformOK
<1>4. TypeOK
  BY <1>1, <1>3 DEF Init, TypeOK, NotHandling, NotRefreshing
<1> QED
  BY <1>3, <1>4 DEF Init, SchemaInv, HandlersOK, ProcessesOK, NotHandling, NotRefreshing

\* The platform's steps leave the server alone.
LEMMA SchemaAnnounce ==
    ASSUME SchemaInv, NEW t \in Truth, t.start < t.end, NEW f \in Facts, PeriodOK(f), Announce(t, f)
    PROVE  SchemaInv'
<1>0. PICK silent \in Silences : sent' = sent \cup {[facts |-> Muted(f, silent), occurredAt |-> now]}
  BY DEF Announce
<1> DEFINE event == [facts |-> Muted(f, silent), occurredAt |-> now]
<1>1. event \in Event /\ PeriodOK(event.facts)
  <2>1. Muted(f, silent) \in Facts /\ PeriodOK(Muted(f, silent))
    BY MutedFacts, ConstAssumption
  <2> QED
    BY <2>1 DEF SchemaInv, TypeOK, Event
<1>2. /\ truth' = t /\ sent' = sent \cup {event}
      /\ UNCHANGED <<now, deliveries, handled, row, handling, requesting, refreshing>>
  BY <1>0 DEF Announce
<1> HIDE DEF event
<1>3. TypeOK'
  BY <1>1, <1>2 DEF SchemaInv, TypeOK
<1>4. PlatformOK'
  BY <1>1, <1>2 DEF SchemaInv, PlatformOK
<1> QED
  BY <1>2, <1>3, <1>4 DEF SchemaInv, HandlersOK, ProcessesOK

\* What the platform does is announced, unless it forgets the store.
LEMMA PlatformEffect ==
    ASSUME Platform
    PROVE  /\ UNCHANGED <<now, deliveries, handled, row, handling, requesting, refreshing>>
           /\ \/ truth' = Null /\ sent' = sent
              \/ truth # Null /\ \E f : sent' = sent \cup {[facts |-> f, occurredAt |-> now]}
<1>1. ASSUME NEW t, NEW f, truth # Null, Announce(t, f)
      PROVE  /\ UNCHANGED <<now, deliveries, handled, row, handling, requesting, refreshing>>
             /\ \/ truth' = Null /\ sent' = sent
                \/ truth # Null /\ \E g : sent' = sent \cup {[facts |-> g, occurredAt |-> now]}
  BY <1>1, Zenon DEF Announce
<1>2. CASE Uninstall
  BY <1>2 DEF Uninstall
<1>3. Uninstall \/ (truth # Null /\ \E t, f : Announce(t, f))
  BY Zenon DEF Platform, Upgrade, Downgrade, StatusChange, Renew
<1> QED
  BY <1>1, <1>2, <1>3

LEMMA SchemaPlatform ==
    ASSUME SchemaInv, Platform
    PROVE  SchemaInv'
<1>1. now \in Nat /\ truth \in Truth \cup {Null} /\ (truth # Null => truth.start < truth.end)
  BY DEF SchemaInv, TypeOK, PlatformOK
<1>2. ASSUME NEW code \in Codes, Upgrade(code) PROVE SchemaInv'
  <2> DEFINE t == [truth EXCEPT !.plan = code, !.next = code, !.status = "active"]
  <2>1. t \in Truth /\ t.start < t.end /\ code \in PlanCodes
    BY <1>1, <1>2, ConstAssumption DEF Upgrade, Truth, SUBSCRIPTION_STATUSES
  <2>2. Announce(t, FactsOf(t, code))
    BY <1>2 DEF Upgrade
  <2> HIDE DEF t
  <2> QED
    BY <2>1, <2>2, TruthFacts, SchemaAnnounce
<1>3. ASSUME NEW code \in Codes, Downgrade(code) PROVE SchemaInv'
  <2> DEFINE t == [truth EXCEPT !.next = code]
  <2>1. t \in Truth /\ t.start < t.end /\ code \in PlanCodes
    BY <1>1, <1>3, ConstAssumption DEF Downgrade, Truth
  <2>2. Announce(t, FactsOf(t, code))
    BY <1>3 DEF Downgrade
  <2> HIDE DEF t
  <2> QED
    BY <2>1, <2>2, TruthFacts, SchemaAnnounce
<1>4. ASSUME NEW status \in Statuses, StatusChange(status) PROVE SchemaInv'
  <2> DEFINE t == [truth EXCEPT !.status = status]
  <2>1. t \in Truth /\ t.start < t.end /\ truth.plan \in PlanCodes
    BY <1>1, <1>4, ConstAssumption DEF StatusChange, Truth
  <2>2. \/ Announce(t, FactsOf(t, truth.plan))
        \/ Announce(t, [FactsOf(t, truth.plan) EXCEPT !.planCode = "unmapped"])
    BY <1>4 DEF StatusChange
  <2> HIDE DEF t
  <2> QED
    BY <2>1, <2>2, TruthFacts, SchemaAnnounce
<1>5. CASE Renew
  <2> DEFINE end == now + PeriodLength
             t == [truth EXCEPT !.plan = truth.next, !.status = "active", !.start = now, !.end = end]
  <2>0. end \in Nat /\ now < end /\ "active" \in SUBSCRIPTION_STATUSES
    BY <1>1, ConstAssumption DEF SUBSCRIPTION_STATUSES
  <2> HIDE DEF end
  <2>1. t \in Truth /\ t.start < t.end /\ truth.next \in PlanCodes
    BY <1>1, <1>5, <2>0 DEF Renew, Truth
  <2>2. Announce(t, FactsOf(t, truth.next))
    BY <1>5 DEF Renew, end
  <2> HIDE DEF t
  <2> QED
    BY <2>1, <2>2, TruthFacts, SchemaAnnounce
<1>6. CASE Uninstall
  BY <1>6 DEF Uninstall, SchemaInv, TypeOK, PlatformOK, HandlersOK, ProcessesOK
<1> QED
  BY <1>2, <1>3, <1>4, <1>5, <1>6 DEF Platform

LEMMA SchemaHandle ==
    ASSUME SchemaInv, NEW h \in Handlers, Handle(h)
    PROVE  SchemaInv'
<1>1. ASSUME NEW event \in sent, HandleFind(h, event) PROVE SchemaInv'
  <2>1. TypeOK'
    BY <1>1 DEF SchemaInv, TypeOK, HandleFind
  <2>2. HandlersOK'
    BY <1>1 DEF SchemaInv, TypeOK, HandlersOK, HandleFind
  <2> QED
    BY <1>1, <2>1, <2>2 DEF SchemaInv, HandleFind, PlatformOK, ProcessesOK
<1>2. CASE HandleSave(h)
  <2> DEFINE event == handling[h].event
             current == handling[h].current
             change == toChange(event.facts, event.occurredAt)
             next == HandlerWrites(h)
  <2>1. event \in sent /\ event \in Event /\ current \in Row \cup {Null} /\ PeriodOK(event.facts)
    BY <1>2 DEF HandleSave, SchemaInv, TypeOK, HandlersOK, PlatformOK
  <2>2. change \in Change
    BY <2>1, ChangeIsChange DEF Event
  <2>3. next \in Row \cup {Null}
    BY <2>1, <2>2, SeedIsRow, ApplyIsRow DEF HandlerWrites, Applied
  <2>4. next \in Row \cup {Null} /\ (next # Null => MeetsChecks(next))
    BY <1>2, <2>3 DEF HandleSave
  <2>5. /\ row' = IF next = Null THEN row ELSE next
        /\ handled' = handled \cup {event}
        /\ handling' = [handling EXCEPT ![h] = NotHandling]
        /\ UNCHANGED <<now, truth, sent, deliveries, requesting, refreshing>>
    BY <1>2 DEF HandleSave
  <2> HIDE DEF event, current, change, next
  <2>6. TypeOK'
    BY <2>1, <2>4, <2>5 DEF SchemaInv, TypeOK, NotHandling
  <2>7. HandlersOK'
    BY <2>5 DEF SchemaInv, TypeOK, HandlersOK, NotHandling
  <2> QED
    BY <2>4, <2>5, <2>6, <2>7 DEF SchemaInv, PlatformOK, ProcessesOK
<1>3. CASE HandlerCrash(h)
  BY <1>3 DEF HandlerCrash, SchemaInv, TypeOK, PlatformOK, HandlersOK, ProcessesOK, NotHandling
<1> QED
  BY <1>1, <1>2, <1>3 DEF Handle

LEMMA SchemaRefresh ==
    ASSUME SchemaInv, NEW p \in Processes, Refresh(p)
    PROVE  SchemaInv'
<1>1. /\ TypeOK /\ now \in Nat
      /\ refreshing \in [Processes -> [phase: {"idle", "fetch", "find", "write"}, at: Nat,
                                      answer: Change \cup {Null}, current: Row \cup {Null}]]
  BY DEF SchemaInv, TypeOK
<1>2. CASE provisionAtInstall(p) \/ SweepRefresh(p)
  <2>1. /\ refreshing' = [refreshing EXCEPT ![p] = [NotRefreshing EXCEPT !.phase = "fetch", !.at = now]]
        /\ UNCHANGED <<now, truth, sent, deliveries, handled, row, handling, requesting>>
    BY <1>2 DEF provisionAtInstall, SweepRefresh, refreshNow
  <2> QED
    BY <1>1, <2>1 DEF SchemaInv, TypeOK, PlatformOK, HandlersOK, ProcessesOK, NotRefreshing
<1>3. CASE RefreshFetch(p)
  <2> DEFINE answer == IF truth = Null THEN Null ELSE toChange(Polled(truth), now)
  <2>1. answer \in Change \cup {Null} /\ (answer # Null => PeriodOK(answer))
    <3>1. CASE truth = Null
      BY <3>1
    <3>2. CASE truth # Null
      <4>1. truth \in Truth /\ truth.start < truth.end
        BY <3>2 DEF SchemaInv, TypeOK, PlatformOK
      <4>2. Polled(truth) \in Facts /\ PeriodOK(Polled(truth))
        BY <4>1, PolledFacts
      <4> QED
        BY <1>1, <3>2, <4>2, ChangeIsChange
    <3> QED
      BY <3>1, <3>2
  <2>2. /\ refreshing' = [refreshing EXCEPT ![p].phase = "find", ![p].answer = answer]
        /\ UNCHANGED <<now, truth, sent, deliveries, handled, row, handling, requesting>>
    BY <1>3 DEF RefreshFetch
  <2> HIDE DEF answer
  <2>3. refreshing' = [refreshing EXCEPT ![p] = [refreshing[p] EXCEPT !.phase = "find", !.answer = answer]]
    BY <1>1, <2>2
  <2>4. TypeOK'
    BY <1>1, <2>1, <2>2, <2>3 DEF TypeOK
  <2>5. ProcessesOK'
    BY <1>1, <2>1, <2>2, <2>3 DEF SchemaInv, ProcessesOK
  <2> QED
    BY <2>2, <2>4, <2>5 DEF SchemaInv, PlatformOK, HandlersOK
<1>4. CASE RefreshFind(p)
  BY <1>1, <1>4 DEF RefreshFind, SchemaInv, TypeOK, PlatformOK, HandlersOK, ProcessesOK
<1>5. CASE RefreshWrite(p)
  <2> DEFINE next == RefreshWrites(p, refreshing[p].at)
  <2>1. next \in Row \cup {Null} /\ (row # Null => next # Null)
    <3>1. /\ row \in Row \cup {Null} /\ (row # Null => MeetsChecks(row))
          /\ refreshing[p].current \in Row \cup {Null} /\ refreshing[p].answer \in Change \cup {Null}
          /\ refreshing[p].at \in Nat
          /\ refreshing[p].current # Null => MeetsChecks(refreshing[p].current) /\ row # Null
      BY <1>1 DEF SchemaInv, TypeOK, ProcessesOK
    <3> QED
      BY <3>1, RefreshedIsRow DEF RefreshWrites
  <2>2. /\ row' = next /\ (next # Null => MeetsChecks(next))
        /\ refreshing' = [refreshing EXCEPT ![p] = NotRefreshing]
        /\ UNCHANGED <<now, truth, sent, deliveries, handled, handling, requesting>>
    BY <1>5 DEF RefreshWrite
  <2> HIDE DEF next
  <2> QED
    BY <1>1, <2>1, <2>2 DEF SchemaInv, TypeOK, PlatformOK, HandlersOK, ProcessesOK, NotRefreshing
<1>6. CASE RefreshFail(p)
  BY <1>1, <1>6 DEF RefreshFail, SchemaInv, TypeOK, PlatformOK, HandlersOK, ProcessesOK, NotRefreshing
<1> QED
  BY <1>2, <1>3, <1>4, <1>5, <1>6 DEF Refresh

\* A request joins the refresh in flight or starts one, with nothing in hand yet.
LEMMA Started ==
    ASSUME TypeOK, NEW p \in Processes, RequestStart(p)
    PROVE  /\ refreshing' \in [Processes -> [phase: {"idle", "fetch", "find", "write"}, at: Nat,
                                            answer: Change \cup {Null}, current: Row \cup {Null}]]
           /\ \A q \in Processes :
                 \/ refreshing'[q] = refreshing[q]
                 \/ /\ q = p /\ refreshing'[q].phase = "fetch" /\ refreshing'[q].at = now
                    /\ refreshing'[q].current = Null /\ refreshing'[q].answer = Null
<1> DEFINE Refresh0 == [phase: {"idle", "fetch", "find", "write"}, at: Nat,
                        answer: Change \cup {Null}, current: Row \cup {Null}]
           fresh == [phase |-> "fetch", at |-> now, answer |-> Null, current |-> Null]
<1>1. now \in Nat /\ refreshing \in [Processes -> Refresh0]
  BY DEF TypeOK
<1>2. fresh = [NotRefreshing EXCEPT !.phase = "fetch", !.at = now]
  <2>1. [NotRefreshing EXCEPT !.phase = "fetch"] = [phase |-> "fetch", at |-> 0, answer |-> Null, current |-> Null]
    BY DEF NotRefreshing
  <2>2. [[phase |-> "fetch", at |-> 0, answer |-> Null, current |-> Null] EXCEPT !.at = now] = fresh
    OBVIOUS
  <2>3. [NotRefreshing EXCEPT !.phase = "fetch", !.at = now] = [[NotRefreshing EXCEPT !.phase = "fetch"] EXCEPT !.at = now]
    BY DEF NotRefreshing
  <2> QED
    BY <2>1, <2>2, <2>3
<1>3. /\ fresh \in Refresh0 /\ fresh.phase = "fetch" /\ fresh.at = now
      /\ fresh.current = Null /\ fresh.answer = Null
  BY <1>1
<1>4. refreshing' = refreshing \/ refreshing' = [refreshing EXCEPT ![p] = fresh]
  BY <1>2 DEF RequestStart, refreshNow
<1> HIDE DEF fresh, Refresh0
<1>5. /\ refreshing' \in [Processes -> Refresh0]
      /\ \A q \in Processes : refreshing'[q] = refreshing[q] \/ (q = p /\ refreshing'[q] = fresh)
  BY <1>1, <1>3, <1>4
<1> QED
  BY <1>3, <1>5 DEF Refresh0

LEMMA SchemaRequest ==
    ASSUME SchemaInv, NEW p \in Processes, Request(p)
    PROVE  SchemaInv'
<1>1. CASE RequestFind(p)
  BY <1>1 DEF RequestFind, SchemaInv, TypeOK, PlatformOK, HandlersOK, ProcessesOK
<1>2. CASE RequestMark(p)
  <2>1. row # Null
    BY <1>2 DEF RequestMark, SchemaInv, ProcessesOK
  <2>2. row' \in Row /\ MeetsChecks(row') /\ row' # Null
    <3>1. row \in Row /\ MeetsChecks(row) /\ row' = [row EXCEPT !.lastReconciledAt = Null]
      BY <1>2, <2>1 DEF RequestMark, SchemaInv, TypeOK
    <3>2. row' \in Row
      BY <3>1 DEF Row, Instant
    <3> QED
      BY <3>1, <3>2, NullAssumption DEF Row, MeetsChecks
  <2>3. /\ requesting' = [requesting EXCEPT ![p] = "start"]
        /\ UNCHANGED <<now, truth, sent, deliveries, handled, handling, refreshing>>
    BY <1>2 DEF RequestMark
  <2>4. TypeOK'
    BY <2>2, <2>3 DEF SchemaInv, TypeOK
  <2>5. ProcessesOK'
    BY <2>2, <2>3 DEF SchemaInv, TypeOK, ProcessesOK
  <2> QED
    BY <2>2, <2>3, <2>4, <2>5 DEF SchemaInv, PlatformOK, HandlersOK
<1>3. CASE RequestStart(p)
  <2>1. TypeOK
    BY DEF SchemaInv
  <2>2. /\ requesting' = [requesting EXCEPT ![p] = "no"]
        /\ UNCHANGED <<now, truth, sent, deliveries, handled, row, handling>>
    BY <1>3 DEF RequestStart
  <2>3. /\ now \in Nat /\ requesting' \in [Processes -> {"no", "mark", "start"}]
        /\ requesting'[p] = "no" /\ \A q \in Processes \ {p} : requesting'[q] = requesting[q]
    BY <2>2 DEF SchemaInv, TypeOK
  <2>4. refreshing' \in [Processes -> [phase: {"idle", "fetch", "find", "write"}, at: Nat,
                                      answer: Change \cup {Null}, current: Row \cup {Null}]]
    BY <1>3, <2>1, Started
  <2>5. \A q \in Processes : refreshing'[q] = refreshing[q]
                              \/ (refreshing'[q].current = Null /\ refreshing'[q].answer = Null)
    BY <1>3, <2>1, Started
  <2>6. TypeOK'
    BY <2>2, <2>3, <2>4 DEF SchemaInv, TypeOK
  <2>7. ProcessesOK'
    BY <2>2, <2>3, <2>5 DEF SchemaInv, ProcessesOK
  <2> QED
    BY <2>2, <2>6, <2>7 DEF SchemaInv, PlatformOK, HandlersOK
<1>4. CASE RequestFail(p)
  BY <1>4 DEF RequestFail, SchemaInv, TypeOK, PlatformOK, HandlersOK, ProcessesOK
<1> QED
  BY <1>1, <1>2, <1>3, <1>4 DEF Request

LEMMA SchemaStep == SchemaInv /\ [Next]_vars => SchemaInv'
<1> SUFFICES ASSUME SchemaInv, [Next]_vars
             PROVE  SchemaInv'
  OBVIOUS
<1>1. CASE Tick
  BY <1>1 DEF Tick, SchemaInv, TypeOK, PlatformOK, HandlersOK, ProcessesOK
<1>2. CASE UNCHANGED vars
  BY <1>2 DEF vars, SchemaInv, TypeOK, PlatformOK, HandlersOK, ProcessesOK
<1> QED
  BY <1>1, <1>2, SchemaPlatform, SchemaHandle, SchemaRefresh, SchemaRequest DEF Next

LEMMA SchemaInvariant == Spec => []SchemaInv
  BY SchemaInit, SchemaStep, PTL DEF Spec

\* A handler's write meets the CHECKs when its event says a whole period or none.
LEMMA HandlerWriteOK ==
    ASSUME SchemaInv, NEW h \in Handlers, handling[h] # NotHandling,
           WholePeriod(handling[h].event.facts), HandlerWrites(h) # Null
    PROVE  MeetsChecks(HandlerWrites(h))
<1> DEFINE event == handling[h].event
           current == handling[h].current
           change == toChange(event.facts, event.occurredAt)
<1>1. /\ event \in Event /\ PeriodOK(event.facts) /\ current \in Row \cup {Null}
      /\ current # Null => MeetsChecks(current)
  BY DEF SchemaInv, TypeOK, HandlersOK, PlatformOK
<1>2. change \in Change /\ PeriodOK(change) /\ WholePeriod(change)
  BY <1>1, ChangeIsChange DEF Event
<1>3. HandlerWrites(h) = Applied(current, change)
  BY DEF HandlerWrites
<1> HIDE DEF event, current, change
<1> QED
  BY <1>1, <1>2, <1>3, SeedIsRow, ApplyIsRow DEF Applied

\* So does a refresh's, when the platform's answer does.
LEMMA RefreshWriteOK ==
    ASSUME SchemaInv, NEW p \in Processes,
           refreshing[p].answer # Null => WholePeriod(refreshing[p].answer),
           RefreshWrites(p, refreshing[p].at) # Null
    PROVE  MeetsChecks(RefreshWrites(p, refreshing[p].at))
<1>1. /\ row \in Row \cup {Null} /\ (row # Null => MeetsChecks(row))
      /\ refreshing[p].current \in Row \cup {Null} /\ refreshing[p].answer \in Change \cup {Null}
      /\ refreshing[p].at \in Nat
      /\ refreshing[p].current # Null => MeetsChecks(refreshing[p].current) /\ row # Null
      /\ refreshing[p].answer # Null => PeriodOK(refreshing[p].answer)
  BY DEF SchemaInv, TypeOK, ProcessesOK
<1> QED
  BY <1>1, RefreshedIsRow DEF RefreshWrites

\* For every number of queue workers and server processes, however their reads and
\* writes of the row interleave, whatever is lost, repeated or late and whichever
\* facts a source leaves out: the table refuses a row only when its writer was told
\* one end of a period without the other.
THEOREM WritesCorrect == Spec => []WritesPassChecks
<1>1. SchemaInv => WritesPassChecks
  <2> SUFFICES ASSUME SchemaInv PROVE WritesPassChecks
    OBVIOUS
  <2>1. \A h \in Handlers : /\ handling[h] # NotHandling /\ WholePeriod(handling[h].event.facts)
                            /\ HandlerWrites(h) # Null
                            => MeetsChecks(HandlerWrites(h))
    BY HandlerWriteOK
  <2>2. \A p \in Processes :
          /\ refreshing[p].phase = "write"
          /\ refreshing[p].answer # Null => WholePeriod(refreshing[p].answer)
          /\ RefreshWrites(p, refreshing[p].at) # Null
          => MeetsChecks(RefreshWrites(p, refreshing[p].at))
    BY RefreshWriteOK
  <2> QED
    BY <2>1, <2>2 DEF SchemaInv, WritesPassChecks
<1> QED
  BY <1>1, SchemaInvariant, PTL

-----------------------------------------------------------------------------
(* Events applied in turn *)

\* The handler still has the row as it is, so that staleness is decided on it;
\* a pending plan is below the plan it waits to replace.
OrderInv ==
    /\ SchemaInv
    /\ \A e \in sent : e.occurredAt <= now
    /\ \A h \in Handlers : handling[h] # NotHandling => handling[h].current = row
    /\ NewestEventRules
    /\ row # Null => /\ row.lastEventAt \in Nat
                     /\ row.pendingPlanCode # Null => Rank(row.pendingPlanCode) < Rank(row.planCode)

\* What applying a change makes of the plan: nothing is taken away before the
\* period on the row is over, and what is to be taken away is pending.
LEMMA AppliedPlan ==
    ASSUME NEW r \in Row, NEW c \in Change,
           r.pendingPlanCode # Null => Rank(r.pendingPlanCode) < Rank(r.planCode)
    PROVE  LET s == applyChange(r, c)
           IN  /\ s.pendingPlanCode # Null =>
                    /\ Rank(s.pendingPlanCode) < Rank(s.planCode)
                    /\ s.pendingPlanEffectiveAt = r.currentPeriodEnd
               /\ Rank(s.planCode) < Rank(r.planCode) => c.occurredAt >= r.currentPeriodEnd
<1> DEFINE defer == deferUntilPeriodEnd(r, c)
           told == Told(r, c)
           s == applyChange(r, c)
<1>1. told \in Row /\ told.planCode = r.planCode
  BY ToldIsRow
<1>2. /\ s.planCode = IF defer THEN r.planCode ELSE Said(c.planCode, r.planCode)
      /\ s.pendingPlanCode = IF defer THEN c.planCode ELSE Null
      /\ s.pendingPlanEffectiveAt = IF defer THEN r.currentPeriodEnd ELSE Null
  BY <1>1 DEF applyChange, Row
<1>3. defer <=> /\ c.planCode # Null /\ c.planCode # r.planCode
                /\ Rank(c.planCode) < Rank(r.planCode)
                /\ c.occurredAt < r.currentPeriodEnd
  <2>1. c.planCode # Null => c.planCode \in PlanCodes
    BY DEF Change
  <2>2. r.planCode \in PlanCodes
    BY DEF Row
  <2> QED
    BY <2>1, <2>2, DowngradeIsRank DEF deferUntilPeriodEnd, isPlanCode
<1>4. \A code \in PlanCodes : Rank(code) \in 1 .. 4
  BY DEF Rank
<1>5. c.occurredAt \in Nat /\ r.currentPeriodEnd \in Nat /\ r.planCode \in PlanCodes
      /\ c.planCode \in PlanCodes \cup {Null}
  BY DEF Change, Row
<1> HIDE DEF defer, told, s
<1>6. s.pendingPlanCode # Null => /\ Rank(s.pendingPlanCode) < Rank(s.planCode)
                                  /\ s.pendingPlanEffectiveAt = r.currentPeriodEnd
  BY <1>2, <1>3
<1>7. Rank(s.planCode) < Rank(r.planCode) => c.occurredAt >= r.currentPeriodEnd
  BY <1>2, <1>3, <1>4, <1>5 DEF Said
<1> QED
  BY <1>6, <1>7 DEF s

LEMMA OrderInit == Init => OrderInv
  BY SchemaInit, ConstAssumption DEF Init, OrderInv, NewestEventRules, EventsStayApplied, NotHandling

\* A handler's save, in the terms of the proof.
LEMMA SaveEffect ==
    ASSUME OrderInv, NEW h \in Handlers, HandleSave(h)
    PROVE  \E e \in sent : \E c \in Change :
             /\ c.occurredAt = e.occurredAt /\ c.status = e.facts.status
             /\ handled' = handled \cup {e}
             /\ \/ row = Null /\ row' = seedSubscription(c)
                \/ row # Null /\ e.occurredAt <= row.lastEventAt /\ row' = row
                \/ row # Null /\ e.occurredAt > row.lastEventAt /\ row' = applyChange(row, c)
<1> DEFINE e == handling[h].event
           c == toChange(e.facts, e.occurredAt)
<1>1. e \in sent /\ e \in Event /\ handling[h].current = row
  BY DEF HandleSave, OrderInv, SchemaInv, TypeOK, HandlersOK
<1>2. c \in Change /\ c.occurredAt = e.occurredAt /\ c.status = e.facts.status
  BY <1>1, ChangeIsChange DEF Event
<1>3. handled' = handled \cup {e} /\ row' = IF Applied(row, c) = Null THEN row ELSE Applied(row, c)
  BY <1>1 DEF HandleSave, HandlerWrites
<1>4. row \in Row \cup {Null} /\ (row # Null => row.lastEventAt \in Nat) /\ e.occurredAt \in Nat
  BY <1>1 DEF OrderInv, SchemaInv, TypeOK, Event
<1>5. Null \notin Row /\ Null \notin Nat
  BY NullAssumption, ConstAssumption
<1> HIDE DEF e, c
<1>6. CASE row = Null
  <2>1. Applied(row, c) = seedSubscription(c) /\ seedSubscription(c) \in Row
    BY <1>2, <1>6, SeedIsRow DEF Applied
  <2> QED
    BY <1>1, <1>2, <1>3, <1>5, <1>6, <2>1
<1>7. CASE row # Null /\ e.occurredAt <= row.lastEventAt
  <2>1. Applied(row, c) = Null
    BY <1>2, <1>4, <1>5, <1>7 DEF Applied, isStale
  <2> QED
    BY <1>1, <1>2, <1>3, <1>7, <2>1
<1>8. CASE row # Null /\ e.occurredAt > row.lastEventAt
  <2>1. Applied(row, c) = applyChange(row, c)
    BY <1>2, <1>4, <1>5, <1>8 DEF Applied, isStale
  <2>2. applyChange(row, c) \in Row
    BY <1>2, <1>4, <1>8, ApplyIsRow
  <2> QED
    BY <1>1, <1>2, <1>3, <1>5, <1>8, <2>1, <2>2
<1> QED
  BY <1>4, <1>6, <1>7, <1>8

\* The newest event still rules after a save.
LEMMA SaveKeepsOrder ==
    ASSUME OrderInv, SchemaInv', NEW h \in Handlers, HandleSave(h)
    PROVE  /\ NewestEventRules'
           /\ row' # Null => /\ row'.lastEventAt \in Nat
                             /\ row'.pendingPlanCode # Null =>
                                  Rank(row'.pendingPlanCode) < Rank(row'.planCode)
<1>1. PICK e \in sent, c \in Change :
             /\ c.occurredAt = e.occurredAt /\ c.status = e.facts.status
             /\ handled' = handled \cup {e}
             /\ \/ row = Null /\ row' = seedSubscription(c)
                \/ row # Null /\ e.occurredAt <= row.lastEventAt /\ row' = row
                \/ row # Null /\ e.occurredAt > row.lastEventAt /\ row' = applyChange(row, c)
  BY SaveEffect
<1>2. /\ e.occurredAt \in Nat /\ row \in Row \cup {Null}
      /\ row # Null => row.lastEventAt \in Nat
      /\ \A d \in handled : d.occurredAt \in Nat
  BY <1>1 DEF OrderInv, SchemaInv, TypeOK, Event
<1>3. Null \notin Row
  BY NullAssumption
<1>4. /\ \A d \in handled : row # Null /\ row.lastEventAt >= d.occurredAt
      /\ row # Null => \E d \in handled : d.occurredAt = row.lastEventAt /\ d.facts.status = row.status
      /\ row # Null /\ row.pendingPlanCode # Null => Rank(row.pendingPlanCode) < Rank(row.planCode)
  BY DEF OrderInv, NewestEventRules, EventsStayApplied
<1>5. CASE row = Null /\ row' = seedSubscription(c)
  <2>1. /\ row' \in Row /\ row'.lastEventAt = e.occurredAt /\ row'.status = e.facts.status
        /\ row'.pendingPlanCode = Null
    BY <1>1, <1>5, SeedIsRow
  <2>2. handled' = {e}
    BY <1>1, <1>4, <1>5
  <2> QED
    BY <1>2, <1>3, <2>1, <2>2 DEF NewestEventRules, EventsStayApplied
<1>6. CASE row # Null /\ e.occurredAt <= row.lastEventAt /\ row' = row
  BY <1>1, <1>2, <1>4, <1>6 DEF NewestEventRules, EventsStayApplied
<1>7. CASE row # Null /\ e.occurredAt > row.lastEventAt /\ row' = applyChange(row, c)
  <2>1. row' \in Row /\ row'.lastEventAt = e.occurredAt /\ row'.status = e.facts.status
    BY <1>1, <1>2, <1>7, ApplyIsRow
  <2>2. row'.pendingPlanCode # Null => Rank(row'.pendingPlanCode) < Rank(row'.planCode)
    BY <1>1, <1>2, <1>4, <1>7, AppliedPlan
  <2>3. \A d \in handled' : row'.lastEventAt >= d.occurredAt
    BY <1>1, <1>2, <1>4, <1>7, <2>1
  <2> QED
    BY <1>1, <1>2, <1>3, <2>1, <2>2, <2>3 DEF NewestEventRules, EventsStayApplied
<1> QED
  BY <1>1, <1>5, <1>6, <1>7

LEMMA OrderStep ==
    ASSUME EventsInTurn, OrderInv, [Next]_vars
    PROVE  OrderInv'
<1>0. SchemaInv'
  BY SchemaStep DEF OrderInv
<1>1. CASE Platform
  <2>1. /\ UNCHANGED <<now, handled, row, handling>>
        /\ \A e \in sent' : e \in sent \/ e.occurredAt = now
    BY <1>1, PlatformEffect
  <2>2. now \in Nat
    BY DEF OrderInv, SchemaInv, TypeOK
  <2> QED
    BY <1>0, <2>1, <2>2 DEF OrderInv, NewestEventRules, EventsStayApplied
<1>2. ASSUME NEW h \in Handlers, Handle(h) PROVE OrderInv'
  <2>1. ASSUME NEW event \in sent, HandleFind(h, event) PROVE OrderInv'
    BY <1>0, <2>1 DEF HandleFind, OrderInv, SchemaInv, TypeOK, NewestEventRules, EventsStayApplied
  <2>2. CASE HandleSave(h)
    <3>1. /\ NewestEventRules'
          /\ row' # Null => /\ row'.lastEventAt \in Nat
                            /\ row'.pendingPlanCode # Null =>
                                 Rank(row'.pendingPlanCode) < Rank(row'.planCode)
      BY <1>0, <2>2, SaveKeepsOrder
    <3>2. \A g \in Handlers : handling'[g] = NotHandling
      BY <2>2 DEF HandleSave, OrderInv, SchemaInv, TypeOK, EventsInTurn
    <3>3. UNCHANGED <<now, sent>>
      BY <2>2 DEF HandleSave
    <3> QED
      BY <1>0, <3>1, <3>2, <3>3 DEF OrderInv
  <2>3. CASE HandlerCrash(h)
    BY <1>0, <2>3 DEF HandlerCrash, OrderInv, SchemaInv, TypeOK, NewestEventRules, EventsStayApplied
  <2> QED
    BY <1>2, <2>1, <2>2, <2>3 DEF Handle
<1>3. CASE Tick
  <2>1. /\ now \in Nat /\ now' = now + 1 /\ UNCHANGED <<sent, handled, row, handling>>
        /\ \A e \in sent : e.occurredAt \in Nat
    BY <1>3 DEF Tick, OrderInv, SchemaInv, TypeOK, Event
  <2> QED
    BY <1>0, <2>1 DEF OrderInv, NewestEventRules, EventsStayApplied
<1>4. CASE UNCHANGED vars
  BY <1>0, <1>4 DEF vars, OrderInv, NewestEventRules, EventsStayApplied
<1> QED
  BY <1>1, <1>2, <1>3, <1>4 DEF Next, EventsInTurn

\* The ordering guard is right for every plan, status, period and number of
\* deliveries: a late, repeated or reordered event never undoes a newer one.
THEOREM NewestEventCorrect ==
    ASSUME EventsInTurn
    PROVE  Spec => []NewestEventRules
<1>1. OrderInv /\ [Next]_vars => OrderInv'
  BY OrderStep
<1>2. OrderInv => NewestEventRules
  BY DEF OrderInv
<1> QED
  BY <1>1, <1>2, OrderInit, PTL DEF Spec

LEMMA PaidTierStep ==
    ASSUME EventsInTurn, OrderInv, [Next]_vars, row # Null, row' # row,
           isDowngrade(PLANS[effectivePlanCode(row, now)], PLANS[effectivePlanCode(row', now)])
    PROVE  now >= row.currentPeriodEnd
<1>1. PICK h \in Handlers : HandleSave(h)
  BY PlatformEffect DEF Next, Handle, HandleFind, HandlerCrash, Tick, vars, EventsInTurn
<1>2. PICK e \in sent, c \in Change :
             /\ c.occurredAt = e.occurredAt
             /\ row' = applyChange(row, c)
  BY <1>1, SaveEffect
<1>3. /\ e.occurredAt \in Nat /\ e.occurredAt <= now /\ now \in Nat
      /\ row \in Row /\ row.currentPeriodEnd \in Nat
      /\ row.pendingPlanCode # Null => Rank(row.pendingPlanCode) < Rank(row.planCode)
  BY DEF OrderInv, SchemaInv, TypeOK, Event, Row
<1>4. row' \in Row
  BY <1>2, <1>3, ApplyIsRow
<1>5. /\ row'.pendingPlanCode # Null => row'.pendingPlanEffectiveAt = row.currentPeriodEnd
      /\ Rank(row'.planCode) < Rank(row.planCode) => e.occurredAt >= row.currentPeriodEnd
  BY <1>2, <1>3, AppliedPlan
<1>6. \A code \in PlanCodes : Rank(code) \in 1 .. 4
  BY DEF Rank
<1> DEFINE before == effectivePlanCode(row, now)
           after == effectivePlanCode(row', now)
<1>7. before \in PlanCodes /\ Rank(before) <= Rank(row.planCode)
  BY <1>3, <1>6 DEF effectivePlanCode, Row
<1>8. after \in PlanCodes /\ (after = row'.planCode \/ now >= row.currentPeriodEnd)
  BY <1>4, <1>5 DEF effectivePlanCode, Row
<1>9. Rank(after) < Rank(before)
  BY <1>7, <1>8, DowngradeIsRank
<1> HIDE DEF before, after
<1>10. row.planCode \in PlanCodes /\ row'.planCode \in PlanCodes
  BY <1>3, <1>4 DEF Row
<1> QED
  BY <1>3, <1>5, <1>6, <1>7, <1>8, <1>9, <1>10

\* Paid-for access is never cut short by an event, however late it comes.
THEOREM PaidTierCorrect ==
    ASSUME EventsInTurn
    PROVE  Spec => PaidTierKept
<1> DEFINE A == /\ row # Null /\ row' # row
                /\ isDowngrade(PLANS[effectivePlanCode(row, now)],
                               PLANS[effectivePlanCode(row', now)])
                => now >= row.currentPeriodEnd
<1>1. OrderInv /\ [Next]_vars => OrderInv'
  BY OrderStep
<1>2. OrderInv /\ [Next]_vars => [A]_vars
  BY PaidTierStep
<1> QED
  BY <1>1, <1>2, OrderInit, PTL DEF Spec, PaidTierKept

-----------------------------------------------------------------------------
(* What a check certifies *)

\* The columns a check compares.
Columns == {"status"} \cup FactFields

SameColumns(r, s) == \A f \in Columns : r[f] = s[f]

\* A row agrees with the platform's record when the poll would find no difference.
Agrees(r, t) == ~differsFrom(r, toChange(Polled(t), 0))

\* The poll's answer, whenever it was asked for.
AnswerOf(c, t) == SameColumns(c, toChange(Polled(t), 0))

\* The platform has announced nothing since.
QuietSince(at) == \A e \in sent : e.occurredAt < at

\* The answer in a refresh's hands is the platform's present one unless
\* something was announced since the refresh began; the row it read is the row
\* there is, but for the check's own column.
CheckInv ==
    /\ SchemaInv
    /\ row # Null /\ row.lastReconciledAt # Null => row.lastReconciledAt <= now
    /\ \A p \in Processes :
          /\ refreshing[p].at <= now
          /\ refreshing[p].phase \in {"find", "write"} =>
               /\ refreshing[p].answer = Null => truth = Null
               /\ refreshing[p].answer # Null /\ truth # Null /\ QuietSince(refreshing[p].at)
                    => AnswerOf(refreshing[p].answer, truth)
          /\ refreshing[p].phase = "write" =>
               /\ refreshing[p].current = Null => row = Null
               /\ refreshing[p].current # Null => row # Null /\ SameColumns(row, refreshing[p].current)
    /\ row # Null /\ truth # Null /\ row.lastReconciledAt # Null /\ QuietSince(row.lastReconciledAt)
         => Agrees(row, truth)

LEMMA FetchedAnswer ==
    ASSUME NEW t, NEW at
    PROVE  AnswerOf(toChange(Polled(t), at), t)
  BY DEF AnswerOf, SameColumns, Columns, FactFields, toChange

\* Only those columns count, of the row and of the answer.
LEMMA DiffersByColumns ==
    ASSUME NEW r, NEW s, NEW c, NEW d, SameColumns(r, s), SameColumns(c, d)
    PROVE  differsFrom(r, c) <=> differsFrom(s, d)
  BY DEF differsFrom, SameColumns, Columns, FactFields

LEMMA SameRefl == \A r : SameColumns(r, r)
  BY DEF SameColumns

LEMMA DiffersIsDisagrees ==
    ASSUME NEW r, NEW c, NEW t, AnswerOf(c, t)
    PROVE  differsFrom(r, c) <=> ~Agrees(r, t)
  BY SameRefl, DiffersByColumns DEF Agrees, AnswerOf

\* Once the answer is written there is no difference left.
LEMMA SeedAgrees ==
    ASSUME NEW c \in Change
    PROVE  ~differsFrom(seedSubscription(c), c)
  BY DEF differsFrom, seedSubscription, Said

LEMMA ReconcileAgrees ==
    ASSUME NEW r \in Row, NEW c \in Change, NEW at
    PROVE  ~differsFrom(reconcile(r, c, at), c)
<1> DEFINE told == Told(r, c)
<1>1. /\ told \in Row /\ told.status = c.status
      /\ c.platformPlanId # Null => told.platformPlanId = c.platformPlanId
      /\ c.trialEndsAt # Null => told.trialEndsAt = c.trialEndsAt
      /\ c.currentPeriodStart # Null => told.currentPeriodStart = c.currentPeriodStart
      /\ c.currentPeriodEnd # Null => told.currentPeriodEnd = c.currentPeriodEnd
  BY ToldIsRow DEF Said
<1>2. reconcile(r, c, at) = [told EXCEPT !.planCode = Said(c.planCode, told.planCode),
                                         !.lastReconciledAt = at]
  BY DEF reconcile
<1> HIDE DEF told
<1> QED
  BY <1>1, <1>2 DEF differsFrom, Said, Row

\* A check that had the platform's present answer leaves a row that agrees with it.
LEMMA RefreshedAgrees ==
    ASSUME NEW r \in Row \cup {Null}, NEW cur \in Row \cup {Null}, NEW ans \in Change, NEW t,
           NEW at \in Nat, AnswerOf(ans, t), cur # Null => r # Null /\ SameColumns(r, cur)
    PROVE  Agrees(Refreshed(r, ans, cur, at), t)
<1>1. Null \notin Row /\ Null \notin Change
  BY NullAssumption
<1>2. SUFFICES ~differsFrom(Refreshed(r, ans, cur, at), ans)
  BY DiffersIsDisagrees
<1>3. CASE cur = Null
  <2>1. Refreshed(r, ans, cur, at) = [seedSubscription(ans) EXCEPT !.lastReconciledAt = at]
    BY <1>1, <1>3 DEF Refreshed
  <2>2. seedSubscription(ans) \in Row /\ ~differsFrom(seedSubscription(ans), ans)
    BY SeedIsRow, SeedAgrees
  <2>3. SameColumns([seedSubscription(ans) EXCEPT !.lastReconciledAt = at], seedSubscription(ans))
    BY <2>2 DEF SameColumns, Columns, FactFields, Row
  <2> QED
    BY <2>1, <2>2, <2>3, SameRefl, DiffersByColumns
<1>4. CASE cur # Null /\ differsFrom(cur, ans)
  BY <1>1, <1>4, ReconcileAgrees DEF Refreshed
<1>5. CASE cur # Null /\ ~differsFrom(cur, ans)
  <2>1. Refreshed(r, ans, cur, at) = [r EXCEPT !.lastReconciledAt = at]
    BY <1>5 DEF Refreshed
  <2>2. SameColumns([r EXCEPT !.lastReconciledAt = at], cur)
    BY <1>5 DEF SameColumns, Columns, FactFields, Row
  <2> QED
    BY <1>5, <2>1, <2>2, SameRefl, DiffersByColumns
<1> QED
  BY <1>3, <1>4, <1>5

LEMMA RefreshedStamp ==
    ASSUME NEW r \in Row \cup {Null}, NEW cur \in Row \cup {Null}, NEW ans \in Change \cup {Null},
           NEW at \in Nat, cur # Null => r # Null
    PROVE  \/ Refreshed(r, ans, cur, at) = r /\ ans = Null /\ cur = Null
           \/ Refreshed(r, ans, cur, at).lastReconciledAt = at
<1>1. CASE ans # Null /\ cur = Null
  BY <1>1, SeedIsRow DEF Refreshed, Row
<1>2. CASE ans # Null /\ cur # Null /\ differsFrom(cur, ans)
  <2>1. Told(cur, ans) \in Row
    BY <1>2, ToldIsRow
  <2> QED
    BY <1>2, <2>1 DEF Refreshed, reconcile, Row
<1>3. CASE cur # Null /\ ~(ans # Null /\ differsFrom(cur, ans))
  BY <1>3 DEF Refreshed, Row
<1>4. CASE ans = Null /\ cur = Null
  BY <1>4 DEF Refreshed
<1> QED
  BY <1>1, <1>2, <1>3, <1>4

LEMMA CheckInit == Init => CheckInv
  BY SchemaInit DEF Init, CheckInv, NotRefreshing

\* The platform's announcements: nothing checked up to now is quiet any more.
LEMMA CheckPlatform ==
    ASSUME CheckInv, Platform, SchemaInv'
    PROVE  CheckInv'
<1>1. UNCHANGED <<now, row, refreshing>> /\ now \in Nat
  BY PlatformEffect DEF CheckInv, SchemaInv, TypeOK
<1>2. CASE truth' = Null /\ sent' = sent
  BY <1>1, <1>2 DEF CheckInv, SchemaInv, TypeOK
<1>3. ASSUME NEW f, truth # Null, sent' = sent \cup {[facts |-> f, occurredAt |-> now]}
      PROVE  CheckInv'
  <2>1. ASSUME NEW at \in Nat, at <= now PROVE ~\A e \in sent' : e.occurredAt < at
    <3> DEFINE e == [facts |-> f, occurredAt |-> now]
    <3>1. e \in sent'
      BY <1>3
    <3>2. e.occurredAt = now
      OBVIOUS
    <3> HIDE DEF e
    <3> QED
      BY <1>1, <2>1, <3>1, <3>2
  <2>2. /\ row # Null /\ row.lastReconciledAt # Null => row.lastReconciledAt \in Nat
        /\ \A p \in Processes : refreshing[p].at \in Nat
    BY DEF CheckInv, SchemaInv, TypeOK, Row, Instant
  <2> QED
    BY <1>1, <1>3, <2>1, <2>2 DEF CheckInv, QuietSince
<1> QED
  BY <1>2, <1>3, PlatformEffect

LEMMA CheckRefresh ==
    ASSUME OneRefresher, CheckInv, NEW p \in Processes, Refresh(p), SchemaInv'
    PROVE  CheckInv'
<1> DEFINE r == refreshing[p]
<1>1. /\ now \in Nat /\ \A q \in Processes : q = p
      /\ refreshing \in [Processes -> [phase: {"idle", "fetch", "find", "write"}, at: Nat,
                                      answer: Change \cup {Null}, current: Row \cup {Null}]]
  BY DEF CheckInv, SchemaInv, TypeOK, OneRefresher
<1>2. CASE provisionAtInstall(p) \/ SweepRefresh(p)
  <2>1. /\ refreshing' = [refreshing EXCEPT ![p] = [NotRefreshing EXCEPT !.phase = "fetch", !.at = now]]
        /\ UNCHANGED <<now, truth, sent, row>>
    BY <1>2 DEF provisionAtInstall, SweepRefresh, refreshNow
  <2>2. refreshing'[p].phase = "fetch" /\ refreshing'[p].at = now
    BY <1>1, <2>1 DEF NotRefreshing
  <2> QED
    BY <1>1, <2>1, <2>2 DEF CheckInv, QuietSince
<1>3. CASE RefreshFetch(p)
  <2> DEFINE answer == IF truth = Null THEN Null ELSE toChange(Polled(truth), now)
  <2>1. /\ refreshing' = [refreshing EXCEPT ![p].phase = "find", ![p].answer = answer]
        /\ UNCHANGED <<now, truth, sent, row>>
    BY <1>3 DEF RefreshFetch
  <2>2. truth # Null => answer \in Change /\ AnswerOf(answer, truth)
    <3>1. truth # Null => Polled(truth) \in Facts
      BY PolledFacts DEF CheckInv, SchemaInv, TypeOK, PlatformOK
    <3> QED
      BY <1>1, <3>1, ChangeIsChange, FetchedAnswer
  <2>3. answer = Null => truth = Null
    BY <2>2, NullAssumption
  <2> HIDE DEF answer
  <2>4. /\ refreshing'[p].phase = "find" /\ refreshing'[p].at = r.at
        /\ refreshing'[p].answer = answer
    BY <1>1, <2>1
  <2> QED
    BY <1>1, <2>1, <2>2, <2>3, <2>4 DEF CheckInv, QuietSince
<1>4. CASE RefreshFind(p)
  <2>1. /\ r.phase = "find"
        /\ refreshing'[p].phase = "write" /\ refreshing'[p].at = r.at
        /\ refreshing'[p].answer = r.answer /\ refreshing'[p].current = row
        /\ UNCHANGED <<now, truth, sent, row>>
    BY <1>1, <1>4 DEF RefreshFind
  <2> QED
    BY <1>1, <2>1 DEF CheckInv, QuietSince, SameColumns
<1>5. CASE RefreshWrite(p)
  <2>1. /\ r.phase = "write" /\ row' = Refreshed(row, r.answer, r.current, r.at)
        /\ refreshing'[p].phase = "idle" /\ refreshing'[p].at = 0
        /\ UNCHANGED <<now, truth, sent>>
    BY <1>1, <1>5 DEF RefreshWrite, RefreshWrites, NotRefreshing
  <2>2. /\ row \in Row \cup {Null}
        /\ r.current \in Row \cup {Null} /\ r.answer \in Change \cup {Null} /\ r.at \in Nat
        /\ r.current # Null => row # Null /\ SameColumns(row, r.current)
        /\ r.current = Null => row = Null
        /\ r.answer = Null => truth = Null
        /\ r.answer # Null /\ truth # Null /\ QuietSince(r.at) => AnswerOf(r.answer, truth)
        /\ r.at <= now
    BY <1>1, <2>1 DEF CheckInv, SchemaInv, TypeOK, ProcessesOK
  <2>3. row' = Null \/ row'.lastReconciledAt = r.at
    <3>1. \/ Refreshed(row, r.answer, r.current, r.at) = row /\ r.answer = Null /\ r.current = Null
          \/ Refreshed(row, r.answer, r.current, r.at).lastReconciledAt = r.at
      <4> DEFINE answer == r.answer  current == r.current  at == r.at
      <4>1. /\ row \in Row \cup {Null} /\ current \in Row \cup {Null}
            /\ answer \in Change \cup {Null} /\ at \in Nat
            /\ current # Null => row # Null
        BY <2>2
      <4> HIDE DEF r, answer, current, at
      <4>2. \/ Refreshed(row, answer, current, at) = row /\ answer = Null /\ current = Null
            \/ Refreshed(row, answer, current, at).lastReconciledAt = at
        BY <4>1, RefreshedStamp
      <4> QED
        BY <4>2 DEF answer, current, at
    <3> QED
      BY <2>1, <2>2, <3>1
  <2>4. truth # Null /\ QuietSince(r.at) => Agrees(row', truth)
    BY <2>1, <2>2, RefreshedAgrees
  <2> QED
    BY <1>1, <2>1, <2>2, <2>3, <2>4 DEF CheckInv, QuietSince
<1>6. CASE RefreshFail(p)
  <2>1. /\ refreshing'[p].phase = "idle" /\ refreshing'[p].at = 0
        /\ UNCHANGED <<now, truth, sent, row>>
    BY <1>1, <1>6 DEF RefreshFail, NotRefreshing
  <2> QED
    BY <1>1, <2>1 DEF CheckInv, QuietSince
<1> QED
  BY <1>2, <1>3, <1>4, <1>5, <1>6 DEF Refresh

LEMMA CheckRequest ==
    ASSUME OneRefresher, CheckInv, NEW p \in Processes, Request(p), SchemaInv'
    PROVE  CheckInv'
<1>1. /\ now \in Nat /\ \A q \in Processes : q = p
      /\ refreshing \in [Processes -> [phase: {"idle", "fetch", "find", "write"}, at: Nat,
                                      answer: Change \cup {Null}, current: Row \cup {Null}]]
  BY DEF CheckInv, SchemaInv, TypeOK, OneRefresher
<1>2. CASE RequestFind(p) \/ RequestFail(p)
  BY <1>2 DEF RequestFind, RequestFail, CheckInv, QuietSince
<1>3. CASE RequestMark(p)
  <2>1. /\ row # Null /\ row \in Row /\ row' = [row EXCEPT !.lastReconciledAt = Null]
        /\ UNCHANGED <<now, truth, sent, refreshing>>
    BY <1>3 DEF RequestMark, CheckInv, SchemaInv, TypeOK, ProcessesOK
  <2>2. row'.lastReconciledAt = Null /\ SameColumns(row', row)
    BY <2>1 DEF Row, SameColumns, Columns, FactFields
  <2>3. row' # Null
    BY <2>1, NullAssumption DEF Row, Instant
  <2> QED
    BY <2>1, <2>2, <2>3 DEF CheckInv, QuietSince, SameColumns
<1>4. CASE RequestStart(p)
  <2>1. UNCHANGED <<now, truth, sent, row>>
    BY <1>4 DEF RequestStart
  <2>2. \A q \in Processes : \/ refreshing'[q] = refreshing[q]
                             \/ refreshing'[q].phase = "fetch" /\ refreshing'[q].at = now
    BY <1>4, Started DEF CheckInv, SchemaInv
  <2>3. \A at : QuietSince(at)' <=> QuietSince(at)
    BY <2>1 DEF QuietSince
  <2> QED
    BY <1>1, <2>1, <2>2, <2>3 DEF CheckInv
<1> QED
  BY <1>2, <1>3, <1>4 DEF Request

LEMMA CheckStep ==
    ASSUME OneRefresher, CheckInv, [Next]_vars
    PROVE  CheckInv'
<1>1. SchemaInv'
  BY SchemaStep DEF CheckInv
<1>2. CASE Tick
  <2>1. /\ now' = now + 1 /\ now \in Nat /\ UNCHANGED <<truth, sent, row, refreshing>>
        /\ row # Null /\ row.lastReconciledAt # Null => row.lastReconciledAt \in Nat
        /\ \A p \in Processes : refreshing[p].at \in Nat
    BY <1>2 DEF Tick, CheckInv, SchemaInv, TypeOK, Row, Instant
  <2> QED
    BY <1>1, <2>1 DEF CheckInv, QuietSince
<1>3. CASE UNCHANGED vars
  BY <1>1, <1>3 DEF vars, CheckInv, QuietSince
<1> QED
  BY <1>1, <1>2, <1>3, CheckPlatform, CheckRefresh, CheckRequest DEF Next, OneRefresher

\* What last_reconciled_at certifies, for every plan, status, period, clock and
\* number of failures: a check that took any time at all is believed only as far
\* as the instant at which it began.
THEOREM CheckedRowCorrect ==
    ASSUME OneRefresher
    PROVE  Spec => []CheckedRowAgrees
<1>1. CheckInv /\ [Next]_vars => CheckInv'
  BY CheckStep
<1>2. CheckInv => CheckedRowAgrees
  <2> SUFFICES ASSUME CheckInv, row # Null, truth # Null, row.lastReconciledAt # Null,
                      QuietSince(row.lastReconciledAt)
               PROVE  RowAgrees
    BY DEF CheckedRowAgrees, QuietSince
  <2>1. Agrees(row, truth)
    BY DEF CheckInv
  <2> QED
    BY <2>1, FetchedAnswer, DiffersIsDisagrees DEF RowAgrees
<1> QED
  BY <1>1, <1>2, CheckInit, PTL DEF Spec

=============================================================================
