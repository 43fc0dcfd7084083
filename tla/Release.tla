------------------------------- MODULE Release -------------------------------
(***************************************************************************)
(* One environment of the service through its releases.  The platform edits  *)
(* its plans; a deploy migrates the database, starts a candidate process and *)
(* is promoted by the healthcheck; both processes check the plan catalog at  *)
(* start and every hour, with a timeout; the serving one runs the nightly    *)
(* sweep; operators clear, migrate and seed the database from a shell.       *)
(*                                                                          *)
(* What the staging database holds matters to the release tools, and what    *)
(* the production one holds to the sweep, so each is followed where it       *)
(* matters: tables in staging, subscriptions due in production.              *)
(***************************************************************************)
EXTENDS PlanCatalog, ReconcileSweep, DemoStore

CONSTANTS
    Builds,         \* images, named by the number of migrations in their journal
    Wired,          \* the builds that bind a PLAN_CATALOG_SOURCE
    Catalogues,     \* what the platform may have configured: sets of listings
    ServiceRows,    \* rows the services write beside the seeded ones, as statements
    ShellNames,     \* environment -> names a shell connected to it may carry
    ErasedTables,   \* bound: tables from which a row is deleted by hand
    MaxIncidents    \* bound: deploys, restarts, edits, deletions, tools killed, refreshes failed

ASSUME ReleaseAssumption ==
    /\ Builds \subseteq Nat \ {0} /\ Wired \subseteq Builds /\ MaxIncidents \in Nat
    /\ Null \notin PlanCodes
    /\ \A catalogue \in Catalogues : IsFiniteSet(catalogue)
    /\ \E catalogue \in Catalogues : SoldAsGranted(catalogue)

VARIABLES
    environment,   \* "staging" or "production"
    remote,        \* every catalogue the platform has published, the last one current
    applied,       \* rows of drizzle.__drizzle_migrations; -1 before there is such a table
    serving,       \* the process with the traffic
    candidate,     \* the process of a deploy under way, or Null
    db,            \* the staging tables
    tool,          \* the seed command
    incidents

releaseVars == <<environment, remote, applied, serving, candidate, db, tool, incidents>>
vars == <<releaseVars, sweepVars>>

Incident == incidents < MaxIncidents /\ incidents' = incidents + 1

-----------------------------------------------------------------------------
(* A process: the stored verdict (status, and the catalogue it is about),    *)
(* the fetch a check is waiting for, and one it gave up on.  A fetch is the  *)
(* catalogue that was current when it was sent, 0 for none.                  *)

settle(process, status, about) ==
    [process EXCEPT !.status = status, !.about = about, !.inFlight = 0]

performCheck(process) ==
    IF process.build \notin Wired
    THEN settle(process, "unverified", Len(remote))
    ELSE [process EXCEPT !.inFlight = Len(remote)]

check(process) == IF process.inFlight # 0 THEN process ELSE performCheck(process)

\* onModuleInit starts a check and does not wait for it.
Started(build) ==
    check([build |-> build, status |-> "pending", about |-> 0, inFlight |-> 0, abandoned |-> 0])

Judged(process, about) ==
    settle(process, IF comparePlanCatalog(remote[about]) = {} THEN "ok" ELSE "mismatch", about)

Answered(process)    == Judged(process, process.inFlight)
Unreachable(process) == settle(process, "unverified", process.inFlight)

\* The timer wins the race; the loser is abandoned (the last of them is remembered).
withTimeout(process) == [Unreachable(process) EXCEPT !.abandoned = process.inFlight]

\* Faulty variant: whenever it comes, an answer is an answer.
lateAnswerJudged(process) == [Judged(process, process.abandoned) EXCEPT !.inFlight = process.inFlight, !.abandoned = 0]

lateAnswer(process) == [process EXCEPT !.abandoned = 0]

\* Faulty variant: checked once, at the start.
recheckOnce(process) == IF process.status = "pending" THEN check(process) ELSE process

\* The hourly cron.
recheck(process) == check(process)

Serve(process) == serving' = process /\ UNCHANGED candidate
Try(process)   == candidate' = process /\ UNCHANGED serving
Elsewhere      == UNCHANGED <<environment, remote, applied, db, tool, incidents, sweepVars>>

ServingChecks == serving.inFlight = 0 /\ Serve(recheck(serving)) /\ Elsewhere

ServingAnswered == serving.inFlight # 0 /\ Serve(Answered(serving)) /\ Elsewhere
ServingTimesOut == serving.inFlight # 0 /\ Serve(withTimeout(serving)) /\ Elsewhere

\* The other ends of a check: the call fails, or an abandoned one answers late.
CheckEnds(process) ==
    (IF process.inFlight # 0 THEN {Unreachable(process)} ELSE {})
    \cup (IF process.abandoned # 0 THEN {lateAnswer(process)} ELSE {})

ServingCheckEnds   == \E p \in CheckEnds(serving) : Serve(p) /\ Elsewhere
CandidateCheckEnds == candidate # Null /\ \E p \in CheckEnds(candidate) : Try(p) /\ Elsewhere

CandidateAnswered == candidate # Null /\ candidate.inFlight # 0 /\ Try(Answered(candidate)) /\ Elsewhere
CandidateTimesOut == candidate # Null /\ candidate.inFlight # 0 /\ Try(withTimeout(candidate)) /\ Elsewhere

-----------------------------------------------------------------------------
(* Migrations, health and deploys (the platform that runs them is external)  *)

compareMigrations(expected, count) ==
    CASE count < 0        -> "unknown"
      [] count = expected -> "current"
      [] count > expected -> "ahead"
      [] OTHER            -> "behind"

runMigrations(build) == IF applied < build THEN build ELSE applied

\* Faulty variant: a check that has not answered has found nothing wrong.
isPlanCatalogAcceptableUntilKnown(status) == status # "mismatch"

isPlanCatalogAcceptable(status) == status \in {"ok", "unverified"}

healthcheck(process, reachable) ==
    LET schema == IF reachable THEN compareMigrations(process.build, applied) ELSE "unknown"
    IN  IF reachable /\ schema = "current" /\ isPlanCatalogAcceptable(process.status) THEN "ok" ELSE "degraded"

\* The pre-deploy hook migrates, unless it was silently unset; then the image starts beside the old one.
Deploy(build) ==
    /\ Incident /\ candidate = Null
    /\ applied' \in {applied, runMigrations(build)}
    /\ candidate' = Started(build)
    /\ UNCHANGED <<environment, remote, serving, db, tool, sweepVars>>

\* The deploy goes green: traffic moves, and the old process and its sweep end.
Promote ==
    /\ candidate # Null
    /\ \E reachable \in BOOLEAN : healthcheck(candidate, reachable) = "ok"
    /\ serving' = candidate /\ candidate' = Null
    /\ Interrupted
    /\ UNCHANGED <<environment, remote, applied, db, tool, incidents>>

\* The healthcheck window closes.
GiveUp ==
    /\ candidate # Null /\ candidate' = Null
    /\ UNCHANGED <<environment, remote, applied, serving, db, tool, incidents, sweepVars>>

Restart ==
    /\ Incident
    /\ serving' = Started(serving.build)
    /\ Interrupted
    /\ UNCHANGED <<environment, remote, applied, candidate, db, tool>>

Publish(catalogue) ==
    /\ Incident /\ catalogue # Last(remote)
    /\ remote' = Append(remote, catalogue)
    /\ UNCHANGED <<environment, applied, serving, candidate, db, tool, sweepVars>>

-----------------------------------------------------------------------------
(* The commands of db:reset and what else touches the staging tables         *)

PROTECTED_ENVIRONMENTS == {"production", "prod"}
toLowerCase(name) == IF name \in {"Production", "PRODUCTION"} THEN "production" ELSE name

assertClearIsAllowed(name, confirmed) == toLowerCase(name) \notin PROTECTED_ENVIRONMENTS /\ confirmed

\* TRUNCATE ... CASCADE of every table the migrations made, if they have made any.
clearAll ==
    /\ db' = Empty
    /\ due' = {} /\ checked' = <<>>
    /\ tool' = [tool EXCEPT !.undisturbed = FALSE]
    /\ UNCHANGED pass

Clear(name, confirmed) ==
    /\ Incident /\ applied > 0
    /\ assertClearIsAllowed(name, confirmed)
    /\ clearAll
    /\ UNCHANGED <<environment, remote, applied, serving, candidate>>

Migrate ==
    /\ Incident
    /\ \E build \in Builds : applied' = runMigrations(build) /\ applied' # applied
    /\ UNCHANGED <<environment, remote, serving, candidate, db, tool, sweepVars>>

NoSeed == [pc |-> "idle", done |-> 0, undisturbed |-> FALSE]

Seed ==
    /\ environment = "staging" /\ tool.pc # "seeding"
    /\ tool' = [pc |-> "seeding", done |-> 0, undisturbed |-> applied > 0 /\ db = Empty]
    /\ UNCHANGED <<environment, remote, applied, serving, candidate, db, incidents, sweepVars>>

\* The next INSERT: accepted, or thrown back, which ends the command.
SeedStatement ==
    /\ tool.pc = "seeding"
    /\ LET statement == seedDemoStore[tool.done + 1]
           accepted  == applied > 0 /\ Accepts(db, statement.table, statement.rows)
       IN  /\ db' = IF accepted THEN Insert(db, statement.table, statement.rows) ELSE db
           /\ tool' = IF ~accepted THEN [tool EXCEPT !.pc = "refused"]
                      ELSE IF tool.done + 1 < Len(seedDemoStore) THEN [tool EXCEPT !.done = @ + 1]
                      ELSE [tool EXCEPT !.pc = "seeded", !.done = 0]
    /\ UNCHANGED <<environment, remote, applied, serving, candidate, incidents, sweepVars>>

SeedKilled ==
    /\ tool.pc = "seeding" /\ Incident /\ tool' = NoSeed
    /\ UNCHANGED <<environment, remote, applied, serving, candidate, db, sweepVars>>

\* The services' own rows, written by code that is not there yet.
Written(n) == LET Rows[k \in Nat] == IF k = 0 THEN db
                                     ELSE Insert(Rows[k - 1], ServiceRows[k].table, ServiceRows[k].rows)
              IN  Rows[n]

Ingest ==
    /\ tool.pc = "seeded"
    /\ \A n \in DOMAIN ServiceRows : Accepts(Written(n - 1), ServiceRows[n].table, ServiceRows[n].rows)
    /\ db' = Written(Len(ServiceRows))
    /\ UNCHANGED <<environment, remote, applied, serving, candidate, tool, incidents, sweepVars>>

\* A DELETE by hand, in particular of a store that asks to be forgotten.
Erase(table, row) ==
    /\ Incident
    /\ tool' = [tool EXCEPT !.undisturbed = FALSE]
    /\ UNCHANGED <<environment, remote, applied, serving, candidate, sweepVars>>
    /\ db' = IF Deletable(db, table, row) THEN Delete(db, table, row) ELSE db

-----------------------------------------------------------------------------

Init ==
    /\ environment \in {"staging", "production"}
    /\ remote = <<CHOOSE c \in Catalogues : SoldAsGranted(c)>>
    /\ applied \in (IF environment = "staging" THEN {-1, 1} ELSE {1})   \* a database may be new
    /\ serving = Started(1) /\ candidate = Null
    /\ db = Empty /\ tool = NoSeed /\ incidents = 0
    /\ SweepInit

Sweep == environment = "production" /\ SweepNext /\ UNCHANGED releaseVars

\* A refresh that leaves its row due; counted, for a merchant who never stops would starve the rest.
RefreshFails ==
    /\ environment = "production" /\ Incident
    /\ \E s \in Stores : RequestFailed(s)
    /\ UNCHANGED <<environment, remote, applied, serving, candidate, db, tool>>

Next ==
    \/ ServingChecks \/ ServingAnswered \/ ServingTimesOut \/ ServingCheckEnds
    \/ CandidateAnswered \/ CandidateTimesOut \/ CandidateCheckEnds
    \/ \E build \in Builds : Deploy(build)
    \/ Promote \/ GiveUp \/ Restart \/ Migrate
    \/ \E catalogue \in Catalogues : Publish(catalogue)
    \/ \E name \in ShellNames[environment], confirmed \in BOOLEAN : Clear(name, confirmed)
    \/ Seed \/ SeedStatement \/ SeedKilled \/ Ingest
    \/ \E table \in ErasedTables : \E row \in db[table] : Erase(table, row)
    \/ Sweep \/ RefreshFails

\* Timers and crons fire.
Spec ==
    /\ Init /\ [][Next]_vars
    /\ WF_vars(ServingTimesOut) /\ WF_vars(CandidateTimesOut)
    /\ WF_vars(ServingChecks)
    /\ SweepFairness

-----------------------------------------------------------------------------
(* Properties                                                               *)

\* A deploy goes green only on the schema its image expects, and never before
\* its own catalog check has answered or failed to: a price that differs stops
\* it ("if it were green, a deploy could pass its healthcheck on the first poll
\* and never learn the answer").
GateHolds ==
    [][Promote => /\ candidate.build = applied
                  /\ candidate.about # 0
                  /\ candidate.status # "unverified" => SoldAsGranted(remote[candidate.about])]_vars

\* A stored verdict is exactly whether the catalogue it is about sells every
\* plan as what the code grants for it.
VerdictsAreExact ==
    \A process \in {serving, candidate} \ {Null} :
        process.status \in {"ok", "mismatch"} =>
            (process.status = "ok" <=> SoldAsGranted(remote[process.about]))

\* Within a process an older answer never replaces a newer one, however late it
\* arrives.
VerdictsMoveForward ==
    [][~Promote /\ ~Restart => serving'.about >= serving.about]_vars

\* The healthcheck is `pending` only until the startup check answers or times
\* out, whatever the platform does.
PendingResolves == (serving.status = "pending") ~> (serving.status # "pending")

\* A price edited at the platform while the service runs is noticed, as long as
\* the platform answers now and then.
MismatchIsNoticed ==
    SF_vars(ServingAnswered)
    => (<>[](serving.build \in Wired /\ ~SoldAsGranted(Last(remote))) => []<>(serving.status = "mismatch"))

\* What is recorded of production's stores is never cleared, however the shell
\* spells its environment.
ProductionKept == [][environment = "production" => known \subseteq known']_vars

\* A seed that starts on an empty, migrated database and is left alone is never
\* thrown back: its statements come in an order the references allow.
SeedGoesThrough == tool.pc = "refused" => ~tool.undisturbed

\* The demo data serves its purpose: it goes through, and when it has, the
\* engine finds the margins in it that the release is verified against.
SeedServes ==
    [][/\ SeedGoesThrough'
       /\ tool.pc = "seeding" /\ tool'.pc = "seeded" /\ tool.undisturbed => SmokeTestPasses(db')]_vars

\* A store can always be deleted, and takes everything that was ever recorded of
\* it with it.
ErasureIsComplete ==
    [][\A store \in db["stores"] : Erase("stores", store) => db' = Empty]_vars

\* The stored verdict keeps up with the platform: it leaves `pending`, and a
\* later mismatch reaches it.
VerdictsKeepUp == PendingResolves /\ MismatchIsNoticed

\* What is to be erased goes whole, and production is never cleared.
DeletionIsExact == ErasureIsComplete /\ ProductionKept
=============================================================================
