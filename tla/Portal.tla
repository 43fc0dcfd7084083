-------------------------------- MODULE Portal --------------------------------
(***************************************************************************)
(* The portal process serving the alert feed: concurrent readers miss the   *)
(* report cache, verify every platform, query the usable ones, read the      *)
(* acknowledgements and store what they computed.  Databases come and go,    *)
(* the operator acknowledges and refreshes, the process restarts.            *)
(*                                                                           *)
(* Instants are relative to the present, which is 0: a tick makes every      *)
(* remembered instant one older, and one too old to matter stays where it is.*)
(***************************************************************************)
EXTENDS Alerts

CONSTANTS ProbeRow,    \* what the probe finds at each configured platform
          Store,       \* the store a platform may have trouble with
          Readers,
          Unsteady,    \* the platforms whose database goes down and comes back
          Troubled,    \* the platforms whose store is behind with its payments
          Acked,       \* the alerts the operator acknowledges, [kind, platform, storeId]
          CACHE_TTL,   \* DEFAULT_TTL_MS
          MaxFlight    \* bound from the driver's timeouts: how long a request takes

ASSUME PortalAssumption ==
    /\ CACHE_TTL \in Nat \ {0} /\ MaxFlight \in 0 .. CACHE_TTL - 1
    /\ NoOne \notin Int

Platform == DOMAIN ProbeRow

VARIABLES up,         \* the platforms' databases that answer
          verified,   \* the registry's memory of its probes
          cache,      \* the "alerts" entry of the report cache, or NoOne
          acks,       \* alert_ack: the instant by key, of the keys it has
          lastAck,    \* by key, the newest instant at which one that was stored began
          req,        \* the readers' requests
          shown       \* the page just shown, or NoOne

vars == <<up, verified, cache, acks, lastAck, req, shown>>

Empty == [x \in {} |-> 0]
Put(map, k, value) == [x \in DOMAIN map \cup {k} |-> IF x = k THEN value ELSE map[x]]
Idle == [pc |-> "idle"]

Init == /\ up = Platform
        /\ verified = Empty /\ cache = NoOne
        /\ acks = Empty /\ lastAck = Empty
        /\ req = [r \in Readers |-> Idle] /\ shown = NoOne

-----------------------------------------------------------------------------
(* A reader.                                                                 *)

\* AggregateCache.read: the clock is read once, here; a hit answers at once.
Open(r) ==
    /\ req[r].pc = "idle"
    /\ IF cache # NoOne /\ cache.expiresAt > 0
       THEN /\ shown' = [feed |-> cache.feed, askedAt |-> 0]
            /\ UNCHANGED req
       ELSE /\ req' = [req EXCEPT ![r] = [pc |-> "verify", now |-> 0, checks |-> Empty,
                                          ok |-> Empty, throws |-> {}, acks |-> NoOne]]
            /\ shown' = NoOne
    /\ UNCHANGED <<up, verified, cache, acks, lastAck>>

\* Faulty variant: a failed probe remembered like any other.
verifiedAnyway(p, check) == IF p \in DOMAIN verified THEN verified ELSE Put(verified, p, check)

\* registry.verify remembers an answer, never the lack of one.
verifiedAfter(p, check) ==
    IF p \in DOMAIN verified \/ ~check.reachable THEN verified ELSE Put(verified, p, check)

\* verifyAll: each platform's probe settles on its own; all are awaited.
Verify(r, p) ==
    LET check == IF p \in DOMAIN verified THEN verified[p]
                 ELSE IF p \in up THEN probedCheck(p, ProbeRow[p]) ELSE unreachableCheck
        checks == Put(req[r].checks, p, check)
    IN  /\ req[r].pc = "verify" /\ p \notin DOMAIN req[r].checks
        /\ verified' = verifiedAfter(p, check)
        /\ req' = [req EXCEPT ![r].checks = checks,
                              ![r].pc = IF DOMAIN checks = Platform THEN "query" ELSE @]
        /\ shown' = NoOne
        /\ UNCHANGED <<up, cache, acks, lastAck>>

Targets(r) == {p \in DOMAIN req[r].checks : isUsable(req[r].checks[p])}

Query(r, p) ==
    /\ req[r].pc = "query" /\ p \in Targets(r)
    /\ p \notin DOMAIN req[r].ok \cup req[r].throws
    /\ req' = IF p \in up
              THEN [req EXCEPT ![r].ok = Put(@, p, IF p \in Troubled THEN {raise("past_due", p, Store)}
                                                   ELSE {})]
              ELSE [req EXCEPT ![r].throws = @ \cup {p}]
    /\ shown' = NoOne
    /\ UNCHANGED <<up, verified, cache, acks, lastAck>>

\* activeAcks: those made within ACK_TTL of the request.
activeAcks(now) ==
    [k \in {k \in DOMAIN acks : acks[k] >= now - ACK_TTL} |-> acks[k]]

\* Beside the platforms, at any moment of the request.  The portal's own
\* database answers this query or fails it.
ReadAcks(r, answers) ==
    /\ req[r].pc \in {"verify", "query"} /\ req[r].acks = NoOne
    /\ req' = [req EXCEPT ![r].acks = readAcks(answers, activeAcks(req[r].now))]
    /\ shown' = NoOne
    /\ UNCHANGED <<up, verified, cache, acks, lastAck>>

\* The feed, and beside it what the properties compare it with.
FeedOf(r) ==
    LET fan == queryPlatforms(req[r].checks, req[r].ok, req[r].throws, 0)
        feed == alertFeed(fan, req[r].acks, req[r].now)
    IN  [alerts |-> feed.alerts, acksUnavailable |-> feed.acksUnavailable,
         partial |-> feed.partial, now |-> req[r].now,
         read |-> {result.platform : result \in fan.ok},
         healthy |-> checkHealth(TRUE, req[r].checks).status = "ok"]

\* Faulty variant: the entry's life counted from the end of the computation.
entryOfFinish(feed, now) == [feed |-> feed, expiresAt |-> CACHE_TTL]

\* The entry lives from the instant the request read.
entryOf(feed, now) == [feed |-> feed, expiresAt |-> now + CACHE_TTL]

Finish(r) ==
    /\ req[r].pc = "query" /\ req[r].acks # NoOne
    /\ Targets(r) = DOMAIN req[r].ok \cup req[r].throws
    /\ cache' = entryOf(FeedOf(r), req[r].now)
    /\ shown' = [feed |-> FeedOf(r), askedAt |-> req[r].now]
    /\ req' = [req EXCEPT ![r] = Idle]
    /\ UNCHANGED <<up, verified, acks, lastAck>>

-----------------------------------------------------------------------------
(* The operator.                                                             *)

Keys == {alertKey(a.kind, a.platform, a.storeId) : a \in Acked}

\* Faulty variant: insert, on conflict do nothing.
acknowledgedOnce(k, at) == IF k \in DOMAIN acks THEN acks ELSE Put(acks, k, at)

\* Upsert: a second acknowledgement starts a new day, even when it began
\* before the one it replaces.
acknowledged(k, at) == Put(acks, k, at)

Newest(k, at) == IF k \in DOMAIN lastAck /\ lastAck[k] >= at THEN lastAck ELSE Put(lastAck, k, at)

\* The acknowledge route: its insert commits the instant the route read before
\* it awaited it.  The table only, the cached feed stays.
Acknowledge(k, at) ==
    /\ acks' = acknowledged(k, at) /\ lastAck' = Newest(k, at)
    /\ shown' = NoOne
    /\ UNCHANGED <<up, verified, cache, req>>

\* The refresh button: AggregateCache.clear.
Refresh == /\ cache # NoOne /\ cache' = NoOne /\ shown' = NoOne
           /\ UNCHANGED <<up, verified, acks, lastAck, req>>

-----------------------------------------------------------------------------
(* Around the process.                                                       *)

Restart == /\ verified # Empty \/ cache # NoOne \/ \E r \in Readers : req[r] # Idle
           /\ verified' = Empty /\ cache' = NoOne /\ req' = [r \in Readers |-> Idle]
           /\ shown' = NoOne
           /\ UNCHANGED <<up, acks, lastAck>>

Toggle(set, x) == IF x \in set THEN set \ {x} ELSE set \cup {x}

Outage(p) == /\ up' = Toggle(up, p) /\ shown' = NoOne
             /\ UNCHANGED <<verified, cache, acks, lastAck, req>>

\* Older than any rule looks back.
Floor == -(ACK_TTL + CACHE_TTL)
Older(instant) == IF instant > Floor THEN instant - 1 ELSE Floor
OlderMap(m) == [k \in DOMAIN m |-> Older(m[k])]
OlderFeed(feed) ==
    [feed EXCEPT !.now = Older(@),
                 !.alerts = {IF a.acknowledgedUntil = NoOne THEN a
                             ELSE [a EXCEPT !.acknowledgedUntil = Older(@)] : a \in @}]
OlderAcks(read) == IF read = NoOne THEN NoOne ELSE [read EXCEPT !.acks = OlderMap(@)]
OlderReq(q) ==
    IF q.pc = "idle" THEN q ELSE [q EXCEPT !.now = @ - 1, !.acks = OlderAcks(@)]

\* No request outlasts the driver's timeouts.  An expired entry is never
\* returned again, so it is forgotten.
Tick ==
    /\ \A r \in Readers : req[r].pc # "idle" => req[r].now > -MaxFlight
    /\ cache' = IF cache = NoOne \/ cache.expiresAt <= 1 THEN NoOne
                ELSE [feed |-> OlderFeed(cache.feed), expiresAt |-> cache.expiresAt - 1]
    /\ acks' = OlderMap(acks) /\ lastAck' = OlderMap(lastAck)
    /\ req' = [r \in Readers |-> OlderReq(req[r])]
    /\ shown' = NoOne
    /\ UNCHANGED <<up, verified>>

Step(r) == \/ \E p \in Platform : Verify(r, p) \/ Query(r, p)
           \/ (\E answers \in BOOLEAN : ReadAcks(r, answers)) \/ Finish(r)

Next == \/ \E r \in Readers : Open(r) \/ Step(r)
        \/ \E k \in Keys, at \in -MaxFlight .. 0 : Acknowledge(k, at)
        \/ Refresh \/ Restart
        \/ \E p \in Unsteady : Outage(p)
        \/ Tick

\* A request under way goes on, time passes, and the operator keeps looking.
Fairness == /\ \A r \in Readers : WF_vars(Step(r)) /\ WF_vars(Open(r))
            /\ WF_vars(Tick)

Spec == Init /\ [][Next]_vars /\ Fairness

-----------------------------------------------------------------------------
(* Properties.                                                               *)

\* No report hides a gap: a platform that was refused by its probe or failed
\* during the queries is an alert of its own in the page, the page says it is
\* partial, and the health endpoint, of the same checks, is not "ok".
GapsAreShown ==
    shown # NoOne =>
        LET missing == Platform \ shown.feed.read
        IN  /\ missing # {} => shown.feed.partial
            /\ \A p \in missing : \E a \in shown.feed.alerts :
                  a.kind = "platform_unreachable" /\ a.platform = p
            /\ \A p \in missing : evaluateProbe(p, toProbe(ProbeRow[p])) # {} => ~shown.feed.healthy

\* A page is never older than the cache's lifetime when it is asked for: the
\* time the computation took is part of its age, not added to it.
PagesAreFresh == shown # NoOne => shown.feed.now > shown.askedAt - CACHE_TTL

\* An acknowledgement lasts a day, counted when the page was computed: however
\* the insert, the reading of the table, the queries and the cache interleave,
\* no alert is shown as seen for longer than a day from the beginning of the
\* newest acknowledgement that was stored.
AcksExpire ==
    shown # NoOne =>
        \A a \in shown.feed.alerts :
            a.acknowledgedUntil # NoOne =>
                /\ a.key \in DOMAIN lastAck
                /\ a.acknowledgedUntil > shown.feed.now
                /\ a.acknowledgedUntil <= lastAck[a.key] + ACK_TTL

\* The other direction: an alert acknowledged, or acknowledged again, the
\* insert's time and a cache lifetime before the page is asked for is shown as
\* seen until its day is over, unless the page says the acknowledgements could
\* not be read.  An insert that began earlier and commits later shortens the
\* day, by no more than the time an insert takes.
AcksAreSeen ==
    shown # NoOne =>
        \A a \in shown.feed.alerts :
            (/\ a.key \in DOMAIN lastAck
             /\ lastAck[a.key] + MaxFlight <= shown.askedAt - CACHE_TTL
             /\ lastAck[a.key] - MaxFlight + ACK_TTL > shown.askedAt
             /\ ~shown.feed.acksUnavailable) => a.acknowledgedUntil # NoOne

\* An outage leaves no mark: once a platform's database answers for good and
\* the process stays up, pages with that platform in them keep coming.
OutageIsForgotten ==
    <>[][~Restart]_vars =>
        \A p \in {p \in Platform : evaluateProbe(p, toProbe(ProbeRow[p])) = {}} :
            <>[](p \in up) => []<>(shown # NoOne /\ p \in shown.feed.read)

\* An acknowledgement silences its alert for its day: no more, and no less but
\* for the time an insert takes.
AcksLastTheirDay == AcksExpire /\ AcksAreSeen
=============================================================================
