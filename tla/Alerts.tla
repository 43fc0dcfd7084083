-------------------------------- MODULE Alerts --------------------------------
(***************************************************************************)
(* The portal's alerts are computed, never stored; what is stored is that   *)
(* the operator has seen one.  An acknowledgement lasts ACK_TTL and expires  *)
(* when it is read.                                                          *)
(***************************************************************************)
EXTENDS Platforms

CONSTANTS NoOne,     \* null: no store, no acknowledgement
          ACK_TTL    \* ACK_TTL_MS, a day

ASSUME AckTtlAssumption == ACK_TTL \in Nat \ {0}

\* The same trouble has the same key, however often it is computed.
alertKey(kind, platform, storeId) ==
    IF storeId = NoOne THEN <<kind, platform>> ELSE <<kind, platform, storeId>>

raise(kind, platform, storeId) ==
    [key |-> alertKey(kind, platform, storeId), kind |-> kind, platform |-> platform,
     storeId |-> storeId, acknowledgedUntil |-> NoOne]

platformUnreachableAlert(platform) == raise("platform_unreachable", platform, NoOne)

applyAcks(alerts, acknowledgedAt, now) ==
    {IF /\ a.key \in DOMAIN acknowledgedAt
        /\ acknowledgedAt[a.key] + ACK_TTL > now
     THEN [a EXCEPT !.acknowledgedUntil = acknowledgedAt[a.key] + ACK_TTL] ELSE a : a \in alerts}

\* The acknowledgements read from the portal's own database, or that it could
\* not be read: the feed is then shown with none, and says so.
readAcks(portalUp, acks) ==
    IF portalUp THEN [acks |-> acks, failed |-> FALSE]
    ELSE [acks |-> [k \in {} |-> 0], failed |-> TRUE]

\* The feed: every platform that was not read is an alert of its own.
alertFeed(fan, acknowledged, at) ==
    LET raised == (UNION {result.value : result \in fan.ok})
                  \cup {platformUnreachableAlert(p) : p \in fan.failed}
    IN  [alerts |-> applyAcks(raised, acknowledged.acks, at),
         acksUnavailable |-> acknowledged.failed,
         partial |-> fan.partial \/ acknowledged.failed, capturedAt |-> fan.capturedAt]

\* The alerts not acknowledged come first, and are the ones counted.
openAlerts(alerts) == {a \in alerts : a.acknowledgedUntil = NoOne}

=============================================================================
