------------------------------ MODULE PortalLogin ------------------------------
(***************************************************************************)
(* The portal's front door: the login form with its two failure limiters,   *)
(* the session token it mints and the gate every request passes.  A login    *)
(* reads the clock first, checks the limiter after the form has arrived and  *)
(* records the outcome after the key has been compared, so logins overlap    *)
(* and record instants out of order.                                         *)
(*                                                                           *)
(* Instants are relative to the present, which is 0, as in Portal.           *)
(***************************************************************************)
EXTENDS Integers, FiniteSets, TLC

CONSTANTS NoOne,         \* no bucket, no token
          Sources,       \* client addresses
          Logins,        \* login requests the process works at once
          Browser,       \* the source the operator's browser has
          PER_SOURCE_MAX, GLOBAL_MAX, \* failures that earn a block
          WINDOW, BLOCK, \* windowMs and blockMs, the same for both limiters
          SESSION_TTL,
          MaxFlight      \* bound: how long a login request takes, a limit of the server's

ASSUME LoginAssumption ==
    /\ {PER_SOURCE_MAX, GLOBAL_MAX, SESSION_TTL} \subseteq Nat \ {0}
    /\ IsFiniteSet(Logins) /\ Logins # {}
    /\ MaxFlight \in Nat /\ BLOCK \in MaxFlight + 1 .. WINDOW /\ WINDOW \in Nat

Bucket == [failures: Nat, windowStartedAt: Int, blockedUntil: Int]

\* NoOne is told from every bucket.
ASSUME NoOneAssumption == NoOne \notin Bucket

VARIABLES perSource,   \* FailureLimiter.buckets of the sources
          global,      \* the bucket of the global key
          login,       \* the login requests
          token,       \* the session cookie the operator's browser holds
          passed,      \* whether the gate has just let a page through
          proved,      \* when the key in force was last posted with success
          earned,      \* failures of each source since it was last blocked or let in
          tried,       \* failures in the present window since everyone was last blocked
          slipped      \* keys compared since everyone has been blocked

vars == <<perSource, global, login, token, passed, proved, earned, tried, slipped>>
limiter == <<perSource, global, earned, tried, slipped>>
session == <<token, proved>>

Idle == [pc |-> "idle"]

\* As long ago as any rule looks back.
Floor == -(WINDOW + MaxFlight)

\* Longer ago than any session lasts.
Never == -SESSION_TTL

NoTries == [count |-> 0, since |-> Floor]

Init == /\ perSource = [s \in Sources |-> NoOne] /\ global = NoOne
        /\ login = [l \in Logins |-> Idle]
        /\ token = NoOne /\ passed = FALSE /\ proved = Never
        /\ earned = [s \in Sources |-> 0] /\ tried = NoTries /\ slipped = 0

-----------------------------------------------------------------------------
(* FailureLimiter.                                                           *)

\* How much longer a bucket blocks, 0 when it does not.
retryAfter(bucket, now) ==
    IF bucket = NoOne \/ bucket.blockedUntil <= now THEN 0 ELSE bucket.blockedUntil - now

\* The bucket a failure is counted in: a new one once the window is over.
currentBucket(bucket, now) ==
    IF bucket = NoOne \/ now - bucket.windowStartedAt >= WINDOW
    THEN [failures |-> 0, windowStartedAt |-> now, blockedUntil |-> Floor] ELSE bucket

\* The block restarts the window and the count.
blockedBucket(bucket, now) ==
    [bucket EXCEPT !.blockedUntil = now + BLOCK, !.failures = 0, !.windowStartedAt = now]

\* Faulty variant: a failure below the limit means not blocked.
countedBucketFree(bucket) == [bucket EXCEPT !.failures = @ + 1, !.blockedUntil = Floor]

countedBucket(bucket) == [bucket EXCEPT !.failures = @ + 1]

recordFailure(bucket, max, now) ==
    LET counted == countedBucket(currentBucket(bucket, now))
    IN  IF counted.failures >= max THEN blockedBucket(counted, now) ELSE counted

\* Buckets idle for a window, and not blocked, are forgotten.
prune(buckets, now) ==
    [s \in DOMAIN buckets |->
        IF buckets[s] # NoOne /\ /\ now - buckets[s].windowStartedAt >= WINDOW
                                 /\ retryAfter(buckets[s], now) = 0
        THEN NoOne ELSE buckets[s]]

-----------------------------------------------------------------------------
(* Sessions and the gate.                                                    *)

\* A token is signed with the access key in force; rotating the key (a new
\* process) leaves the tokens of the old one behind.
mintSession(now) == [current |-> TRUE, expiresAt |-> now + SESSION_TTL]

\* Faulty variant: the payload is believed whoever signed it.
verifySessionUnsigned(presented, now) == presented # NoOne /\ presented.expiresAt > now

verifySession(presented, now) ==
    presented # NoOne /\ presented.current /\ presented.expiresAt > now

\* What the gate says of a path: public, an API's or a page's.
guard(path, authenticated) ==
    IF path = "public" \/ authenticated THEN "allow"
    ELSE IF path = "api" THEN "unauthorized" ELSE "redirect"

-----------------------------------------------------------------------------
(* POST /api/auth/login.                                                     *)

\* The clock and the address are read, then the form is awaited.
Post(l, s) ==
    /\ login[l].pc = "idle"
    /\ login' = [login EXCEPT ![l] = [pc |-> "form", source |-> s, now |-> 0]]
    /\ passed' = FALSE
    /\ UNCHANGED <<limiter, session>>

\* The tally of wrong keys after one more, which leaves this global bucket.
TriedOnce(all, now) ==
    IF all.blockedUntil = now + BLOCK THEN [count |-> 0, since |-> now]
    ELSE IF now - tried.since >= WINDOW THEN [count |-> 1, since |-> now]
    ELSE [tried EXCEPT !.count = @ + 1]

\* What counting a failure of a source makes of the limiters and the tallies.
Failed(s, now, buckets) ==
    LET mine == recordFailure(buckets[s], PER_SOURCE_MAX, now)
        all  == recordFailure(global, GLOBAL_MAX, now)
    IN  /\ perSource' = [buckets EXCEPT ![s] = mine]
        /\ global' = all
        /\ earned' = [earned EXCEPT ![s] =
              IF retryAfter(buckets[s], 0) = 0 /\ retryAfter(mine, 0) > 0 THEN 0
              ELSE IF @ < PER_SOURCE_MAX THEN @ + 1 ELSE @]
        /\ tried' = TriedOnce(all, now)

\* One more key is compared, in the block of everyone or outside one.
Slips == IF retryAfter(global, 0) > 0 THEN slipped + 1 ELSE 0

\* Faulty variant: an attempt refused counts against everyone.
RefusedCounted(l) ==
    /\ perSource' = prune(perSource, login[l].now)
    /\ global' = recordFailure(global, GLOBAL_MAX, login[l].now)
    /\ tried' = TriedOnce(global', login[l].now)
    /\ UNCHANGED <<earned, slipped>>

\* An attempt refused leaves the limiters alone.
Refused(l) ==
    /\ perSource' = prune(perSource, login[l].now)
    /\ UNCHANGED <<global, earned, tried, slipped>>

\* checkLogin, with the clock read before the form.
Check(l) ==
    LET pruned == prune(perSource, login[l].now)
        allowed == /\ retryAfter(pruned[login[l].source], login[l].now) = 0
                   /\ retryAfter(global, login[l].now) = 0
    IN  /\ login[l].pc = "form"
        /\ passed' = FALSE
        /\ \/ /\ allowed
              /\ perSource' = pruned
              /\ login' = [login EXCEPT ![l].pc = "match"]
              /\ UNCHANGED <<global, earned, tried, slipped>>
           \/ /\ ~allowed
              /\ Refused(l)
              /\ login' = [login EXCEPT ![l] = Idle]
        /\ UNCHANGED session

\* The key compared was wrong.
Wrong(l) ==
    /\ login[l].pc = "match"
    /\ Failed(login[l].source, login[l].now, perSource) /\ slipped' = Slips
    /\ login' = [login EXCEPT ![l] = Idle]
    /\ passed' = FALSE
    /\ UNCHANGED session

\* Faulty variant: a success clears the global count too.
globalAfterSuccessCleared == NoOne

\* A success clears its own source only.
globalAfterSuccess == global

\* The key was right: the browser gets its cookie.
Right(l) ==
    /\ login[l].pc = "match" /\ login[l].source = Browser
    /\ perSource' = [perSource EXCEPT ![Browser] = NoOne]
    /\ global' = globalAfterSuccess
    /\ earned' = [earned EXCEPT ![Browser] = 0]
    /\ token' = mintSession(login[l].now)
    /\ proved' = IF login[l].now > proved THEN login[l].now ELSE proved
    /\ slipped' = Slips
    /\ login' = [login EXCEPT ![l] = Idle]
    /\ passed' = FALSE
    /\ UNCHANGED tried

-----------------------------------------------------------------------------
(* Around the form.                                                          *)

\* A request of the browser's for a page that needs a session.
Visit == /\ passed' = (guard("page", verifySession(token, 0)) = "allow")
         /\ UNCHANGED <<limiter, login, session>>

Logout == /\ token # NoOne /\ token' = NoOne /\ passed' = FALSE
          /\ UNCHANGED <<limiter, login, proved>>

\* A deploy with a new access key: the limiters, in memory, start over.
Rotate == /\ token # NoOne /\ token.current
          /\ token' = [token EXCEPT !.current = FALSE] /\ proved' = Never
          /\ perSource' = [s \in Sources |-> NoOne] /\ global' = NoOne
          /\ earned' = [s \in Sources |-> 0] /\ tried' = NoTries /\ slipped' = 0
          /\ login' = [l \in Logins |-> Idle] /\ passed' = FALSE

Older(instant) == IF instant > Floor THEN instant - 1 ELSE Floor
OlderBucket(b) ==
    IF b = NoOne THEN b
    ELSE [b EXCEPT !.windowStartedAt = Older(@), !.blockedUntil = Older(@)]

\* The browser forgets a cookie past its maxAge, here a tick later.
Tick ==
    /\ \A l \in Logins : login[l].pc # "idle" => login[l].now > -MaxFlight
    /\ perSource' = [s \in Sources |-> OlderBucket(perSource[s])]
    /\ global' = OlderBucket(global)
    /\ login' = [l \in Logins |-> IF login[l].pc = "idle" THEN login[l]
                                  ELSE [login[l] EXCEPT !.now = @ - 1]]
    /\ token' = IF token = NoOne \/ token.expiresAt < 0 THEN NoOne
                ELSE [token EXCEPT !.expiresAt = @ - 1]
    /\ passed' = FALSE
    /\ proved' = IF proved > Never THEN proved - 1 ELSE Never
    /\ tried' = [tried EXCEPT !.since = Older(@)]
    /\ slipped' = IF retryAfter(global', 0) > 0 THEN slipped ELSE 0
    /\ UNCHANGED earned

Work(l) == Check(l) \/ Wrong(l) \/ Right(l)

Next == \/ \E l \in Logins : (\E s \in Sources : Post(l, s)) \/ Work(l)
        \/ Visit \/ Logout \/ Rotate \/ Tick

\* A request in hand is answered, and time passes.
Fairness == /\ \A l \in Logins : WF_vars(Work(l))
            /\ WF_vars(Tick)

Spec == Init /\ [][Next]_vars /\ Fairness

-----------------------------------------------------------------------------
(* Properties.                                                               *)

\* A block is earned anew each time: a source that becomes blocked has failed
\* PER_SOURCE_MAX times since it was last blocked or let in, however its
\* requests overlapped (FailureLimiter.recordFailure resets what it counted).
BlocksAreEarned ==
    [][\A s \in Sources :
          (retryAfter(perSource[s], 0) = 0 /\ retryAfter(perSource[s], 0)' > 0)
          => earned[s] + 1 >= PER_SOURCE_MAX]_vars

\* A block stands: while it lasts, nothing a refused, failing or pruned request
\* does lifts it; only time, and a login of the source itself that was already
\* past the check with the right key.
BlocksStand ==
    [][\A s \in Sources :
          (retryAfter(perSource[s], 0) > 0 /\ retryAfter(perSource[s], 0)' = 0)
          => Tick \/ Rotate \/ (s = Browser /\ \E l \in Logins : Right(l))]_vars

\* The global limit holds whoever logs in between.  In one window fewer than
\* GLOBAL_MAX wrong keys are compared before every source is blocked; and while
\* that block stands no keys are compared but those of the logins that were
\* already past the check, with a clock read before it, when it began.
GlobalLimitHolds == tried.count < GLOBAL_MAX /\ slipped < Cardinality(Logins)

\* Nobody is locked out for good: whatever the others do and however often it is
\* refused, again and again there is an instant at which neither the block of a
\* source nor the block of everyone stands in its way.
BlocksLift ==
    \A s \in Sources : []<>(retryAfter(perSource[s], 0) = 0 /\ retryAfter(global, 0) = 0)

\* A page is served only to an operator who posted the access key now in force,
\* and was let in, less than SESSION_TTL ago: no rotation, no overlapping login
\* that mints late and no cookie kept past its time makes a session outlast the
\* login it stands for.
SessionsAreEarned == passed => proved > -SESSION_TTL

\* A block is neither handed out without its failures nor lifted before its time.
BlocksAreFair == BlocksAreEarned /\ BlocksStand
=============================================================================
