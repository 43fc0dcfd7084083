------------------------------ MODULE Platforms ------------------------------
(***************************************************************************)
(* The portal's platform registry and fan-out: what a probe of a connection *)
(* means, and how the platforms' answers become one report that says who is *)
(* missing from it.                                                          *)
(***************************************************************************)
EXTENDS Integers, FiniteSets, Sequences, TLC

\* The probe of a platform's database: its row, nulls read as false.
toProbe(row) ==
    [defaultTransactionReadOnly |-> row.read_only = TRUE,
     canInsertOrders |-> row.can_insert_orders = TRUE,
     canReadCredentials |-> row.can_read_credentials = TRUE,
     platforms |-> row.platforms]

\* The reasons not to use a connection that works.
evaluateProbe(platform, probe) ==
    {kind \in {"writable", "credentials_readable", "wrong_platform"} :
        \/ /\ kind = "writable"
           /\ probe.canInsertOrders \/ ~probe.defaultTransactionReadOnly
        \/ kind = "credentials_readable" /\ probe.canReadCredentials
        \/ kind = "wrong_platform" /\ \E found \in probe.platforms : found # platform}

unreachableCheck == [reachable |-> FALSE, problems |-> {}]

probedCheck(platform, row) ==
    [reachable |-> TRUE, problems |-> evaluateProbe(platform, toProbe(row))]

isUsable(check) == check.reachable /\ check.problems = {}

\* Every target is asked for run[target], and one that throws fails alone.
fanOut(targets, run, throws, capturedAt) ==
    [ok |-> {[platform |-> p, value |-> run[p]] : p \in targets \ throws},
     failed |-> targets \cap throws,
     partial |-> targets \cap throws # {}, capturedAt |-> capturedAt]

\* Faulty variant: a platform that was not asked is not missed.
queryPlatformsSilently(checks, run, throws, capturedAt) ==
    fanOut({p \in DOMAIN checks : isUsable(checks[p])}, run, throws, capturedAt)

\* Only the usable platforms are asked; the others count as failed.
queryPlatforms(checks, run, throws, capturedAt) ==
    LET usable  == {p \in DOMAIN checks : isUsable(checks[p])}
        blocked == DOMAIN checks \ usable
        result  == fanOut(usable, run, throws, capturedAt)
    IN  [result EXCEPT !.failed = blocked \cup @, !.partial = blocked # {} \/ @]

-----------------------------------------------------------------------------
(* The portal's own health.                                                  *)

toPlatformHealth(check) == [reachable |-> check.reachable, usable |-> isUsable(check)]

liveness(portalUp) == IF portalUp THEN "ok" ELSE "error"

checkHealth(portalUp, checks) ==
    LET platforms == [p \in DOMAIN checks |-> toPlatformHealth(checks[p])]
        partial   == \E p \in DOMAIN platforms : ~platforms[p].usable
    IN  [status |-> IF ~portalUp THEN "error" ELSE IF partial THEN "degraded" ELSE "ok",
         portalDatabase |-> liveness(portalUp), platforms |-> platforms, partial |-> partial]

=============================================================================
