---------------------------- MODULE ReleaseProofs ----------------------------
(***************************************************************************)
(* Proofs about the plan catalog check and the deploys it gates: what a      *)
(* verdict says, for every catalogue; and that no timeout, late answer or    *)
(* restart brings an older verdict back or lets a deploy past the gate.      *)
(***************************************************************************)
EXTENDS Release, FiniteSetTheorems, TLAPS

-----------------------------------------------------------------------------
(* The comparison *)

\* Between them the seven kinds of disagreement are every way not to be sold as
\* granted: none is missed, and none is found where there is nothing wrong.
THEOREM ComparisonCorrect ==
    ASSUME NEW c, IsFiniteSet(c)
    PROVE  comparePlanCatalog(c) = {} <=> SoldAsGranted(c)
<1> DEFINE mapped == {l \in c : isPlanCode(l.planCode)}
           OnceSold(code) == Cardinality({l \in c : l.planCode = code}) = 1
<1>1. comparePlanCatalog(c) = {} <=>
         /\ \A l \in c : l.planCode # Null
         /\ \A l \in c \ mapped : l.planCode = Null
         /\ \A x, y \in mapped : x.planCode = y.planCode => x = y
         /\ \A l \in mapped : PLANS[l.planCode].purchasable
         /\ \A l \in mapped : l.priceMinor = PLANS[l.planCode].priceMinor
         /\ \A l \in mapped : l.interval = PLANS[l.planCode].interval
         /\ \A code \in PURCHASABLE_PLAN_CODES : \E l \in mapped : l.planCode = code
  <2> DEFINE Plan(l) == PLANS[l.planCode]
             unmapped == {x \in c : x.planCode = Null}
             unknown == {x \in c \ mapped : x.planCode # Null}
             twice == {x \in mapped : \E y \in mapped \ {x} : y.planCode = x.planCode}
             unsellable == {x \in mapped : ~Plan(x).purchasable}
             mispriced == {x \in mapped : x.priceMinor # Plan(x).priceMinor}
             mistimed == {x \in mapped : x.interval # Plan(x).interval}
             missing == PURCHASABLE_PLAN_CODES \ {l.planCode : l \in mapped}
  <2>1. comparePlanCatalog(c) =
           {<<"unmapped_remote_plan", l.platformPlanId>> : l \in unmapped}
           \union {<<"unknown_plan_code", l.platformPlanId>> : l \in unknown}
           \union {<<"duplicate_mapping", l.planCode>> : l \in twice}
           \union {<<"unpurchasable_plan_listed", l.planCode>> : l \in unsellable}
           \union {<<"price_differs", l.planCode>> : l \in mispriced}
           \union {<<"interval_differs", l.planCode>> : l \in mistimed}
           \union {<<"missing_remotely", code>> : code \in missing}
    BY Zenon DEF comparePlanCatalog
  <2> HIDE DEF unmapped, unknown, twice, unsellable, mispriced, mistimed, missing
  <2>2. comparePlanCatalog(c) = {} <=>
           /\ unmapped = {} /\ unknown = {} /\ twice = {} /\ unsellable = {}
           /\ mispriced = {} /\ mistimed = {} /\ missing = {}
    BY <2>1
  <2>3. /\ unmapped = {} <=> \A l \in c : l.planCode # Null
        /\ unknown = {} <=> \A l \in c \ mapped : l.planCode = Null
        /\ unsellable = {} <=> \A l \in mapped : PLANS[l.planCode].purchasable
        /\ mispriced = {} <=> \A l \in mapped : l.priceMinor = PLANS[l.planCode].priceMinor
        /\ mistimed = {} <=> \A l \in mapped : l.interval = PLANS[l.planCode].interval
    BY DEF unmapped, unknown, unsellable, mispriced, mistimed
  <2>4. twice = {} <=> \A x, y \in mapped : x.planCode = y.planCode => x = y
    BY DEF twice
  <2>5. missing = {} <=> \A code \in PURCHASABLE_PLAN_CODES : \E l \in mapped : l.planCode = code
    BY DEF missing
  <2> QED
    BY <2>2, <2>3, <2>4, <2>5
<1>2. ASSUME NEW code
      PROVE  OnceSold(code) <=> \E x \in c : x.planCode = code /\ \A y \in c : y.planCode = code => y = x
  <2> DEFINE S == {l \in c : l.planCode = code}
  <2>1. IsFiniteSet(S)
    BY FS_Subset
  <2>2. Cardinality(S) = 1 <=> \E x : S = {x}
    BY <2>1, FS_Singleton
  <2>3. (\E x : S = {x}) <=> \E x \in c : x.planCode = code /\ \A y \in c : y.planCode = code => y = x
    OBVIOUS
  <2> QED
    BY <2>2, <2>3
<1>3. ASSUME comparePlanCatalog(c) = {} PROVE SoldAsGranted(c)
  <2>1. c = mapped
    BY <1>1, <1>3
  <2>2. \A l \in c : l.planCode \in PURCHASABLE_PLAN_CODES
    BY <1>1, <1>3, <2>1 DEF PURCHASABLE_PLAN_CODES, isPlanCode
  <2>3. \A code \in PURCHASABLE_PLAN_CODES : OnceSold(code)
    BY <1>1, <1>2, <1>3, <2>1
  <2> QED
    BY <1>1, <1>3, <2>1, <2>2, <2>3 DEF SoldAsGranted
<1>4. ASSUME SoldAsGranted(c) PROVE comparePlanCatalog(c) = {}
  <2>1. \A l \in c : l.planCode \in PURCHASABLE_PLAN_CODES
    BY <1>4 DEF SoldAsGranted
  <2>2. c = mapped /\ \A l \in c : l.planCode # Null /\ PLANS[l.planCode].purchasable
    BY <2>1, ReleaseAssumption DEF PURCHASABLE_PLAN_CODES, isPlanCode
  <2>3. \A code \in PURCHASABLE_PLAN_CODES : OnceSold(code)
    BY <1>4 DEF SoldAsGranted
  <2>4. \A x, y \in c : x.planCode = y.planCode => x = y
    BY <1>2, <2>1, <2>3
  <2>5. \A code \in PURCHASABLE_PLAN_CODES : \E l \in c : l.planCode = code
    BY <1>2, <2>3
  <2> QED
    BY <1>1, <1>4, <2>2, <2>4, <2>5 DEF SoldAsGranted
<1> QED
  BY <1>3, <1>4

-----------------------------------------------------------------------------
(* The inductive invariant: a process, beside the catalogues published so    *)
(* far.  A verdict is never about a later catalogue than the one a check in   *)
(* flight was sent for.                                                      *)

Statuses == {"pending", "ok", "mismatch", "unverified"}
Process(R) == [build: Nat, status: Statuses, about: 0 .. Len(R), inFlight: 0 .. Len(R), abandoned: 0 .. Len(R)]

ProcessOK(p, R) ==
    /\ p \in Process(R)
    /\ p.status # "pending" => p.about # 0
    /\ p.status \in {"ok", "mismatch"} => (p.status = "ok" <=> SoldAsGranted(R[p.about]))
    /\ p.inFlight # 0 => p.about <= p.inFlight

ReleaseInv ==
    /\ remote \in Seq(Catalogues) /\ Len(remote) > 0
    /\ applied \in Int
    /\ ProcessOK(serving, remote)
    /\ candidate # Null => ProcessOK(candidate, remote)

\* The remembered catalogues stay what they were.
LEMMA ProcessKept ==
    ASSUME NEW R \in Seq(Catalogues), NEW c \in Catalogues, NEW p, ProcessOK(p, R)
    PROVE  ProcessOK(p, Append(R, c))
<1>1. Len(Append(R, c)) = Len(R) + 1 /\ \A n \in 1 .. Len(R) : Append(R, c)[n] = R[n]
  OBVIOUS
<1>2. p \in Process(Append(R, c))
  BY <1>1 DEF ProcessOK, Process
<1>3. p.about # 0 => Append(R, c)[p.about] = R[p.about]
  BY <1>1 DEF ProcessOK, Process
<1> QED
  BY <1>2, <1>3 DEF ProcessOK, Statuses, Process

-----------------------------------------------------------------------------
(* What the steps of a check make of a process *)

\* A verdict about a catalogue no older than the one before.
LEMMA Settled ==
    ASSUME ReleaseInv, NEW p, ProcessOK(p, remote), NEW status \in Statuses, status # "pending",
           NEW about \in 1 .. Len(remote), p.about <= about,
           status \in {"ok", "mismatch"} => (status = "ok" <=> SoldAsGranted(remote[about]))
    PROVE  /\ ProcessOK(settle(p, status, about), remote)
           /\ settle(p, status, about).about = about /\ settle(p, status, about).build = p.build
           /\ settle(p, status, about).inFlight = 0
<1>1. settle(p, status, about) =
         [build |-> p.build, status |-> status, about |-> about, inFlight |-> 0, abandoned |-> p.abandoned]
  <2> DEFINE first == [p EXCEPT !.status = status]
             second == [first EXCEPT !.about = about]
  <2>1. first = [build |-> p.build, status |-> status, about |-> p.about, inFlight |-> p.inFlight,
                 abandoned |-> p.abandoned]
    BY DEF ProcessOK, Process
  <2>2. settle(p, status, about) = [second EXCEPT !.inFlight = 0]
    BY DEF settle
  <2> HIDE DEF first
  <2>3. second = [build |-> p.build, status |-> status, about |-> about, inFlight |-> p.inFlight,
                  abandoned |-> p.abandoned]
    BY <2>1
  <2> HIDE DEF second
  <2> QED
    BY <2>2, <2>3
<1> QED
  BY <1>1 DEF ProcessOK, Process, ReleaseInv

LEMMA Checked ==
    ASSUME ReleaseInv, NEW p, ProcessOK(p, remote)
    PROVE  /\ ProcessOK(check(p), remote)
           /\ check(p).about >= p.about /\ check(p).build = p.build
<1>1. /\ Len(remote) \in 1 .. Len(remote) /\ p.about <= Len(remote)
      /\ p.about \in Nat /\ p.build \in Nat
  BY DEF ReleaseInv, ProcessOK, Process
<1>2. CASE p.inFlight # 0
  BY <1>1, <1>2 DEF check
<1>3. CASE p.inFlight = 0 /\ p.build \notin Wired
  <2>1. check(p) = settle(p, "unverified", Len(remote))
    BY <1>3 DEF check, performCheck
  <2>2. "unverified" \in Statuses /\ "unverified" \notin {"ok", "mismatch", "pending"}
    BY DEF Statuses
  <2> QED
    BY <1>1, <2>1, <2>2, Settled
<1>4. CASE p.inFlight = 0 /\ p.build \in Wired
  <2>1. check(p) = [p EXCEPT !.inFlight = Len(remote)]
    BY <1>4 DEF check, performCheck
  <2>2. check(p) = [build |-> p.build, status |-> p.status, about |-> p.about,
                    inFlight |-> Len(remote), abandoned |-> p.abandoned]
    BY <2>1 DEF ProcessOK, Process
  <2> QED
    BY <1>1, <2>2 DEF ProcessOK, Process
<1> QED
  BY <1>2, <1>3, <1>4

LEMMA StartedOK == ASSUME ReleaseInv, NEW build \in Nat PROVE ProcessOK(Started(build), remote)
<1> DEFINE p == [build |-> build, status |-> "pending", about |-> 0, inFlight |-> 0, abandoned |-> 0]
<1>1. ProcessOK(p, remote)
  BY DEF ReleaseInv, ProcessOK, Process, Statuses
<1> QED
  BY <1>1, Checked DEF Started

\* The answer, the failure and the timeout of the check in flight.
LEMMA CheckSettled ==
    ASSUME ReleaseInv, NEW p, ProcessOK(p, remote), p.inFlight # 0
    PROVE  /\ ProcessOK(Answered(p), remote) /\ Answered(p).about >= p.about
           /\ ProcessOK(Unreachable(p), remote) /\ Unreachable(p).about >= p.about
           /\ ProcessOK(withTimeout(p), remote) /\ withTimeout(p).about >= p.about
<1> DEFINE n == p.inFlight
           verdict == IF comparePlanCatalog(remote[n]) = {} THEN "ok" ELSE "mismatch"
<1>1. n \in 1 .. Len(remote) /\ p.about <= n /\ p.about \in Nat
  BY DEF ProcessOK, Process, ReleaseInv
<1>2. IsFiniteSet(remote[n])
  BY <1>1, ReleaseAssumption DEF ReleaseInv
<1>3. comparePlanCatalog(remote[n]) = {} <=> SoldAsGranted(remote[n])
  BY <1>2, ComparisonCorrect
<1>4. /\ verdict \in Statuses /\ verdict # "pending"
      /\ verdict \in {"ok", "mismatch"} => (verdict = "ok" <=> SoldAsGranted(remote[n]))
  BY <1>3 DEF Statuses
<1>5. Answered(p) = settle(p, verdict, n)
  BY DEF Answered, Judged
<1> HIDE DEF verdict, n
<1>6. ProcessOK(Answered(p), remote) /\ Answered(p).about = n
  BY <1>1, <1>4, <1>5, Settled
<1>7. "unverified" \in Statuses /\ "unverified" \notin {"ok", "mismatch", "pending"}
  BY DEF Statuses
<1>8. ProcessOK(Unreachable(p), remote) /\ Unreachable(p).about = n /\ Unreachable(p).inFlight = 0
  BY <1>1, <1>7, Settled DEF Unreachable, n
<1>9. withTimeout(p) =
         [build |-> Unreachable(p).build, status |-> Unreachable(p).status, about |-> Unreachable(p).about,
          inFlight |-> Unreachable(p).inFlight, abandoned |-> n]
  BY <1>8 DEF withTimeout, ProcessOK, Process, n
<1>10. ProcessOK(withTimeout(p), remote) /\ withTimeout(p).about = n
  BY <1>1, <1>8, <1>9 DEF ProcessOK, Process, ReleaseInv
<1> QED
  BY <1>1, <1>6, <1>8, <1>10

LEMMA EndedOK ==
    ASSUME ReleaseInv, NEW p, ProcessOK(p, remote), NEW q \in CheckEnds(p)
    PROVE  ProcessOK(q, remote) /\ q.about >= p.about
<1>1. CASE p.inFlight # 0 /\ q = Unreachable(p)
  BY <1>1, CheckSettled
<1>2. CASE q = lateAnswer(p)
  <2>1. q = [build |-> p.build, status |-> p.status, about |-> p.about, inFlight |-> p.inFlight, abandoned |-> 0]
    BY <1>2 DEF lateAnswer, ProcessOK, Process
  <2> QED
    BY <2>1 DEF ProcessOK, Process, ReleaseInv
<1> QED
  BY <1>1, <1>2 DEF CheckEnds

-----------------------------------------------------------------------------
(* The steps *)

LEMMA ReleaseInit == Init => ReleaseInv
<1> SUFFICES ASSUME Init PROVE ReleaseInv
  OBVIOUS
<1>1. remote \in Seq(Catalogues) /\ Len(remote) = 1
  BY ReleaseAssumption DEF Init
<1>2. applied \in Int /\ candidate = Null /\ serving = Started(1)
  BY DEF Init
<1> DEFINE p == [build |-> 1, status |-> "pending", about |-> 0, inFlight |-> 0, abandoned |-> 0]
<1>3. CASE 1 \in Wired
  <2>1. serving = [build |-> 1, status |-> "pending", about |-> 0, inFlight |-> 1, abandoned |-> 0]
    BY <1>1, <1>2, <1>3 DEF Started, check, performCheck
  <2> QED
    BY <1>1, <1>2, <2>1 DEF ReleaseInv, ProcessOK, Process, Statuses
<1>4. CASE 1 \notin Wired
  <2>1. serving = [build |-> 1, status |-> "unverified", about |-> 1, inFlight |-> 0, abandoned |-> 0]
    BY <1>1, <1>2, <1>4 DEF Started, check, performCheck, settle
  <2> QED
    BY <1>1, <1>2, <2>1 DEF ReleaseInv, ProcessOK, Process, Statuses
<1> QED
  BY <1>3, <1>4

\* A step of the serving process's own checks.
ServingStep == ServingChecks \/ ServingAnswered \/ ServingTimesOut \/ ServingCheckEnds

LEMMA ServingMoves ==
    ASSUME ReleaseInv, ServingStep
    PROVE  /\ ProcessOK(serving', remote) /\ serving'.about >= serving.about
           /\ UNCHANGED <<remote, applied, candidate>>
<1>1. ProcessOK(serving, remote)
  BY DEF ReleaseInv
<1>2. CASE ServingChecks
  BY <1>1, <1>2, Checked DEF ServingChecks, Serve, Elsewhere, recheck
<1>3. CASE ServingAnswered
  BY <1>1, <1>3, CheckSettled DEF ServingAnswered, Serve, Elsewhere
<1>4. CASE ServingTimesOut
  BY <1>1, <1>4, CheckSettled DEF ServingTimesOut, Serve, Elsewhere
<1>5. CASE ServingCheckEnds
  BY <1>1, <1>5, EndedOK DEF ServingCheckEnds, Serve, Elsewhere
<1> QED
  BY <1>2, <1>3, <1>4, <1>5 DEF ServingStep

CandidateStep == CandidateAnswered \/ CandidateTimesOut \/ CandidateCheckEnds

LEMMA CandidateMoves ==
    ASSUME ReleaseInv, CandidateStep
    PROVE  ProcessOK(candidate', remote) /\ UNCHANGED <<remote, applied, serving>>
<1>1. candidate # Null => ProcessOK(candidate, remote)
  BY DEF ReleaseInv
<1>2. CASE CandidateAnswered
  BY <1>1, <1>2, CheckSettled DEF CandidateAnswered, Try, Elsewhere
<1>3. CASE CandidateTimesOut
  BY <1>1, <1>3, CheckSettled DEF CandidateTimesOut, Try, Elsewhere
<1>4. CASE CandidateCheckEnds
  BY <1>1, <1>4, EndedOK DEF CandidateCheckEnds, Try, Elsewhere
<1> QED
  BY <1>2, <1>3, <1>4 DEF CandidateStep

\* What the shell, the tables and the sweep do is no concern of a process.
ElsewhereStep ==
    \/ \E name \in ShellNames[environment], confirmed \in BOOLEAN : Clear(name, confirmed)
    \/ Migrate \/ Seed \/ SeedStatement \/ SeedKilled \/ Ingest
    \/ \E table \in ErasedTables : \E row \in db[table] : Erase(table, row)
    \/ Sweep \/ RefreshFails

LEMMA ElsewhereMoves ==
    ASSUME ReleaseInv, ElsewhereStep
    PROVE  UNCHANGED <<remote, serving, candidate>> /\ applied' \in Int
<1>1. CASE Migrate
  BY <1>1, ReleaseAssumption DEF Migrate, runMigrations, ReleaseInv
<1>2. CASE Sweep \/ RefreshFails
  BY <1>2 DEF Sweep, RefreshFails, releaseVars, ReleaseInv
<1>3. CASE Seed \/ SeedStatement \/ SeedKilled \/ Ingest
  BY <1>3 DEF Seed, SeedStatement, SeedKilled, Ingest, ReleaseInv
<1>4. ASSUME NEW name, NEW confirmed, Clear(name, confirmed)
      PROVE  UNCHANGED <<remote, serving, candidate>> /\ applied' \in Int
  BY <1>4 DEF Clear, ReleaseInv
<1>5. ASSUME NEW table, NEW row, Erase(table, row)
      PROVE  UNCHANGED <<remote, serving, candidate>> /\ applied' \in Int
  BY <1>5 DEF Erase, ReleaseInv
<1> QED
  BY <1>1, <1>2, <1>3, <1>4, <1>5, Zenon DEF ElsewhereStep

\* The steps of Next, by what they may do to the processes.
LEMMA NextIs ==
    ASSUME [Next]_vars
    PROVE  \/ ServingStep \/ CandidateStep \/ ElsewhereStep
           \/ \E build \in Builds : Deploy(build)
           \/ Promote \/ GiveUp \/ Restart
           \/ \E catalogue \in Catalogues : Publish(catalogue)
           \/ UNCHANGED <<remote, applied, serving, candidate>>
<1>1. CASE Next
  BY <1>1, Zenon DEF Next, ServingStep, CandidateStep, ElsewhereStep
<1>2. CASE UNCHANGED vars
  BY <1>2 DEF vars, releaseVars
<1> QED
  BY <1>1, <1>2

\* One step: the invariant stays, and a process other than one that has just
\* started or taken over never goes back.
LEMMA ReleaseStep ==
    ASSUME ReleaseInv, [Next]_vars
    PROVE  ReleaseInv' /\ (~Promote /\ ~Restart => serving'.about >= serving.about)
<1>1. ProcessOK(serving, remote) /\ serving.about \in Nat /\ serving.build \in Nat
  BY DEF ReleaseInv, ProcessOK, Process
<1>2. CASE ServingStep
  BY <1>2, ServingMoves DEF ReleaseInv
<1>3. CASE CandidateStep
  BY <1>1, <1>3, CandidateMoves DEF ReleaseInv
<1>4. CASE ElsewhereStep
  BY <1>1, <1>4, ElsewhereMoves DEF ReleaseInv
<1>5. ASSUME NEW build \in Builds, Deploy(build)
      PROVE  ReleaseInv' /\ serving'.about >= serving.about
  <2>1. /\ candidate' = Started(build) /\ UNCHANGED <<remote, serving>>
        /\ applied' \in {applied, runMigrations(build)} /\ build \in Nat
    BY <1>5, ReleaseAssumption DEF Deploy
  <2>2. applied' \in Int
    BY <2>1 DEF runMigrations, ReleaseInv
  <2>3. ProcessOK(candidate', remote)
    BY <2>1, StartedOK
  <2> QED
    BY <1>1, <2>1, <2>2, <2>3 DEF ReleaseInv
<1>6. CASE Promote
  BY <1>6 DEF Promote, ReleaseInv
<1>7. CASE GiveUp
  BY <1>1, <1>7 DEF GiveUp, ReleaseInv
<1>8. CASE Restart
  <2>1. serving' = Started(serving.build) /\ UNCHANGED <<remote, applied, candidate>>
    BY <1>8 DEF Restart
  <2>2. ProcessOK(serving', remote)
    BY <1>1, <2>1, StartedOK
  <2> QED
    BY <1>8, <2>1, <2>2 DEF ReleaseInv
<1>9. ASSUME NEW catalogue \in Catalogues, Publish(catalogue)
      PROVE  ReleaseInv' /\ serving'.about >= serving.about
  <2>1. remote' = Append(remote, catalogue) /\ UNCHANGED <<applied, serving, candidate>>
    BY <1>9 DEF Publish
  <2>2. remote' \in Seq(Catalogues) /\ Len(remote') > 0
    BY <2>1 DEF ReleaseInv
  <2>3. ProcessOK(serving', remote') /\ (candidate' # Null => ProcessOK(candidate', remote'))
    BY <2>1, ProcessKept DEF ReleaseInv
  <2> QED
    BY <1>1, <2>1, <2>2, <2>3 DEF ReleaseInv
<1>10. CASE UNCHANGED <<remote, applied, serving, candidate>>
  BY <1>1, <1>10 DEF ReleaseInv
<1> QED
  BY <1>2, <1>3, <1>4, <1>5, <1>6, <1>7, <1>8, <1>9, <1>10, NextIs

LEMMA ReleaseCorrect == Spec => []ReleaseInv
<1>1. ReleaseInv /\ [Next]_vars => ReleaseInv'
  BY ReleaseStep
<1> QED
  BY <1>1, ReleaseInit, PTL DEF Spec

\* For every catalogue the platform may publish, and however checks, timeouts,
\* deploys and restarts interleave, the stored verdict is exactly what it claims
\* of the catalogue it is about.
THEOREM VerdictsCorrect == Spec => []VerdictsAreExact
<1>1. ReleaseInv => VerdictsAreExact
  BY DEF ReleaseInv, ProcessOK, VerdictsAreExact
<1> QED
  BY <1>1, ReleaseCorrect, PTL

\* A deploy goes green only on its own schema and on a verdict of its own.
THEOREM GateCorrect == Spec => GateHolds
<1> DEFINE A == Promote => /\ candidate.build = applied
                           /\ candidate.about # 0
                           /\ candidate.status # "unverified" => SoldAsGranted(remote[candidate.about])
<1>1. ReleaseInv /\ [Next]_vars => [A]_vars
  <2> SUFFICES ASSUME ReleaseInv, Promote
               PROVE  /\ candidate.build = applied
                      /\ candidate.about # 0
                      /\ candidate.status # "unverified" => SoldAsGranted(remote[candidate.about])
    OBVIOUS
  <2>1. ProcessOK(candidate, remote) /\ candidate.build \in Nat /\ applied \in Int
    BY DEF ReleaseInv, Promote, ProcessOK, Process
  <2>2. PICK reachable \in BOOLEAN : healthcheck(candidate, reachable) = "ok"
    BY DEF Promote
  <2>3. reachable /\ compareMigrations(candidate.build, applied) = "current"
        /\ isPlanCatalogAcceptable(candidate.status)
    BY <2>2 DEF healthcheck
  <2>4. candidate.build = applied
    BY <2>1, <2>3 DEF compareMigrations
  <2>5. candidate.status \in {"ok", "unverified"}
    BY <2>3 DEF isPlanCatalogAcceptable
  <2> QED
    BY <2>1, <2>4, <2>5 DEF ProcessOK
<1>2. GateHolds <=> [][A]_vars
  BY PTL DEF GateHolds
<1> QED
  BY <1>1, <1>2, ReleaseCorrect, PTL DEF Spec

\* No timeout, late answer or hourly check replaces a verdict by an older one.
THEOREM ForwardCorrect == Spec => VerdictsMoveForward
<1> DEFINE A == ~Promote /\ ~Restart => serving'.about >= serving.about
<1>1. ReleaseInv /\ [Next]_vars => [A]_vars
  BY ReleaseStep
<1>2. VerdictsMoveForward <=> [][A]_vars
  BY PTL DEF VerdictsMoveForward
<1> QED
  BY <1>1, <1>2, ReleaseCorrect, PTL DEF Spec

=============================================================================
