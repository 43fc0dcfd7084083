-------------------------- MODULE PortalLoginProofs --------------------------
(***************************************************************************)
(* Proofs about the front door: the limiters' promises for every number of  *)
(* sources and overlapping logins, every limit, window, block and delay     *)
(* between the clock a login reads and the failure it records.              *)
(***************************************************************************)
EXTENDS PortalLogin, FiniteSetTheorems, TLAPS

\* What the limiters rely on of a bucket.  A block that has not ended was set
\* together with the window it stands in, and a count below the limit is all an
\* unblocked bucket holds.
BucketOK(b, max) ==
    /\ b \in Bucket
    /\ b.failures < max
    /\ Floor <= b.windowStartedAt /\ b.windowStartedAt <= 0 /\ Floor <= b.blockedUntil
    /\ b.blockedUntil <= 0 \/ b.blockedUntil = b.windowStartedAt + BLOCK

Request == [pc: {"form", "match"}, source: Sources, now: -MaxFlight .. 0]

LoginsOK == login \in [Logins -> Request \cup {Idle}]

SourcesOK ==
    /\ earned \in [Sources -> Nat]
    /\ DOMAIN perSource = Sources
    /\ \A s \in Sources : perSource[s] # NoOne =>
          BucketOK(perSource[s], PER_SOURCE_MAX) /\ perSource[s].failures <= earned[s]

\* The tally of wrong keys and the global bucket share their window.
GlobalOK ==
    /\ tried \in [count: Nat, since: Int]
    /\ global = NoOne => tried = NoTries
    /\ global # NoOne => /\ BucketOK(global, GLOBAL_MAX)
                         /\ tried.since = global.windowStartedAt
                         /\ tried.count <= global.failures

LimiterInv == LoginsOK /\ SourcesOK /\ GlobalOK

-----------------------------------------------------------------------------
(* The operators of FailureLimiter *)

LEMMA Widths ==
    /\ PER_SOURCE_MAX \in Nat /\ PER_SOURCE_MAX > 0 /\ GLOBAL_MAX \in Nat /\ GLOBAL_MAX > 0
    /\ MaxFlight \in Nat /\ BLOCK \in Nat /\ WINDOW \in Nat /\ MaxFlight < BLOCK /\ BLOCK <= WINDOW
    /\ Floor \in Int /\ Floor = -(WINDOW + MaxFlight)
  BY LoginAssumption DEF Floor

\* What a failure at now makes of bucket b: r, by way of c, the bucket current then.
AsRecorded(b, c, r, max, now) ==
    /\ BucketOK(r, max) /\ r # NoOne /\ BucketOK(c, max)
    /\ c = b \/ (c.failures = 0 /\ c.windowStartedAt = now /\ c.blockedUntil = Floor)
    /\ c = b <=> (b # NoOne /\ now - b.windowStartedAt < WINDOW)
    /\ \/ /\ c.failures + 1 >= max
          /\ r.failures = 0 /\ r.windowStartedAt = now /\ r.blockedUntil = now + BLOCK
       \/ /\ c.failures + 1 < max
          /\ r.failures = c.failures + 1 /\ r.windowStartedAt = c.windowStartedAt
          /\ r.blockedUntil = c.blockedUntil

\* A failure is counted in the bucket there is, in a new one when its window is
\* over, and at the limit starts a block that stands at once.
LEMMA Recorded ==
    ASSUME NEW b, NEW max \in Nat \ {0}, NEW now \in -MaxFlight .. 0,
           b # NoOne => BucketOK(b, max)
    PROVE  AsRecorded(b, currentBucket(b, now), recordFailure(b, max, now), max, now)
<1> DEFINE c == currentBucket(b, now)
           r == recordFailure(b, max, now)
           n == [c EXCEPT !.failures = @ + 1]
<1>1. /\ BucketOK(c, max)
      /\ c = b \/ (c.failures = 0 /\ c.windowStartedAt = now /\ c.blockedUntil = Floor)
      /\ c = b <=> (b # NoOne /\ now - b.windowStartedAt < WINDOW)
  <2>1. CASE b = NoOne \/ now - b.windowStartedAt >= WINDOW
    <3>1. c = [failures |-> 0, windowStartedAt |-> now, blockedUntil |-> Floor]
      BY <2>1 DEF currentBucket
    <3>2. BucketOK(c, max)
      BY <3>1, Widths DEF BucketOK, Bucket
    <3>3. c # b
      BY <2>1, <3>1, <3>2, Widths, NoOneAssumption DEF BucketOK
    <3> QED
      BY <2>1, <3>1, <3>2, <3>3, Widths DEF BucketOK, Bucket
  <2>2. CASE b # NoOne /\ ~(now - b.windowStartedAt >= WINDOW)
    BY <2>2, Widths DEF currentBucket, BucketOK, Bucket
  <2> QED
    BY <2>1, <2>2
<1>2. r = IF n.failures >= max THEN blockedBucket(n, now) ELSE n
  BY DEF recordFailure, countedBucket
<1> HIDE DEF c, r
<1>3. /\ n \in Bucket /\ n.failures = c.failures + 1 /\ n.windowStartedAt = c.windowStartedAt
      /\ n.blockedUntil = c.blockedUntil
  BY <1>1 DEF BucketOK, Bucket
<1> HIDE DEF n
<1>4. /\ BucketOK(r, max)
      /\ \/ /\ c.failures + 1 >= max
            /\ r.failures = 0 /\ r.windowStartedAt = now /\ r.blockedUntil = now + BLOCK
         \/ /\ c.failures + 1 < max
            /\ r.failures = c.failures + 1 /\ r.windowStartedAt = c.windowStartedAt
            /\ r.blockedUntil = c.blockedUntil
  <2>1. CASE n.failures >= max
    <3>1. r = [n EXCEPT !.blockedUntil = now + BLOCK, !.failures = 0, !.windowStartedAt = now]
      BY <1>2, <2>1 DEF blockedBucket
    <3>2. /\ r.failures = 0 /\ r.windowStartedAt = now /\ r.blockedUntil = now + BLOCK
          /\ r \in Bucket
      <4> DEFINE until == now + BLOCK
      <4>1. until \in Int /\ now \in Int
        BY Widths
      <4>2. r = [n EXCEPT !.blockedUntil = until, !.failures = 0, !.windowStartedAt = now]
        BY <3>1
      <4> HIDE DEF until
      <4>3. r.failures = 0 /\ r.windowStartedAt = now /\ r.blockedUntil = until /\ r \in Bucket
        BY <1>3, <4>1, <4>2 DEF Bucket
      <4> QED
        BY <4>3 DEF until
    <3> QED
      BY <1>1, <1>3, <2>1, <3>2, Widths DEF BucketOK
  <2>2. CASE ~(n.failures >= max)
    BY <1>1, <1>2, <1>3, <2>2, Widths DEF BucketOK, Bucket
  <2> QED
    BY <2>1, <2>2
<1>5. r # NoOne
  BY <1>4, NoOneAssumption DEF BucketOK
<1> QED
  BY <1>1, <1>4, <1>5 DEF c, r, AsRecorded

\* A block that stands now is not pruned, and no bucket is changed by pruning.
LEMMA Pruned ==
    ASSUME NEW now \in -MaxFlight .. 0, SourcesOK, NEW s \in Sources
    PROVE  /\ DOMAIN prune(perSource, now) = Sources
           /\ prune(perSource, now)[s] \in {perSource[s], NoOne}
           /\ retryAfter(perSource[s], 0) > 0 => prune(perSource, now)[s] = perSource[s]
<1>1. perSource[s] # NoOne => perSource[s] \in Bucket
  BY DEF SourcesOK, BucketOK
<1>2. now \in Int /\ now <= 0
  BY Widths
<1> QED
  BY <1>1, <1>2 DEF prune, retryAfter, SourcesOK, Bucket

\* A bucket a tick older.
LEMMA OlderBucketOK ==
    ASSUME NEW b, NEW max \in Nat \ {0}, b # NoOne, BucketOK(b, max)
    PROVE  /\ BucketOK(OlderBucket(b), max) /\ OlderBucket(b) # NoOne
           /\ OlderBucket(b).failures = b.failures
           /\ OlderBucket(b).windowStartedAt = Older(b.windowStartedAt)
           /\ retryAfter(b, 0) = 0 => retryAfter(OlderBucket(b), 0) = 0
<1>1. OlderBucket(b) = [b EXCEPT !.windowStartedAt = Older(b.windowStartedAt),
                                 !.blockedUntil = Older(b.blockedUntil)]
  BY DEF OlderBucket, BucketOK, Bucket
<1>2. /\ b \in Bucket /\ b.windowStartedAt \in Int /\ b.blockedUntil \in Int /\ b.failures \in Nat
  BY DEF BucketOK, Bucket
<1>3. \A i \in Int : Older(i) \in Int /\ Older(i) >= Floor /\ (i >= Floor => Older(i) <= i)
  BY Widths DEF Older
<1>4. BucketOK(OlderBucket(b), max)
  <2>1. /\ OlderBucket(b) \in Bucket /\ OlderBucket(b).failures = b.failures
        /\ OlderBucket(b).windowStartedAt = Older(b.windowStartedAt)
        /\ OlderBucket(b).blockedUntil = Older(b.blockedUntil)
    <3> DEFINE start == Older(b.windowStartedAt)
               until == Older(b.blockedUntil)
    <3>1. /\ start \in Int /\ until \in Int
          /\ OlderBucket(b) = [b EXCEPT !.windowStartedAt = start, !.blockedUntil = until]
      BY <1>1, <1>2, <1>3
    <3> HIDE DEF start, until
    <3>2. /\ OlderBucket(b) \in Bucket /\ OlderBucket(b).failures = b.failures
          /\ OlderBucket(b).windowStartedAt = start /\ OlderBucket(b).blockedUntil = until
      BY <1>2, <3>1 DEF Bucket
    <3> QED
      BY <3>2 DEF start, until
  <2>2. b.blockedUntil <= 0 => Older(b.blockedUntil) <= 0
    BY <1>2, Widths DEF Older
  <2>3. b.blockedUntil > 0 /\ b.blockedUntil = b.windowStartedAt + BLOCK
        => Older(b.blockedUntil) = Older(b.windowStartedAt) + BLOCK
    BY <1>2, Widths DEF Older
  <2> QED
    BY <1>2, <1>3, <2>1, <2>2, <2>3, Widths DEF BucketOK
<1>5. OlderBucket(b) # NoOne
  BY <1>4, NoOneAssumption DEF BucketOK
<1>6. retryAfter(b, 0) = 0 => retryAfter(OlderBucket(b), 0) = 0
  BY <1>1, <1>2, <1>3, <1>5, Widths DEF retryAfter, BucketOK, Bucket
<1> QED
  BY <1>1, <1>2, <1>4, <1>5, <1>6 DEF Bucket

-----------------------------------------------------------------------------
(* The steps *)

\* What a failure recorded does: to the source's bucket and tally,
LEMMA SourceFailed ==
    ASSUME SourcesOK, NEW s \in Sources, NEW now \in -MaxFlight .. 0, Failed(s, now, perSource)
    PROVE  /\ SourcesOK'
           /\ retryAfter(perSource[s], 0) = 0 /\ retryAfter(perSource'[s], 0) > 0
                => earned[s] + 1 >= PER_SOURCE_MAX
           /\ retryAfter(perSource[s], 0) > 0 => retryAfter(perSource'[s], 0) > 0
           /\ \A x \in Sources \ {s} : perSource'[x] = perSource[x]
<1> DEFINE b == perSource[s]
           c == currentBucket(b, now)
           r == recordFailure(b, PER_SOURCE_MAX, now)
<1>0. now \in Int /\ -MaxFlight <= now /\ now <= 0
  BY Widths
<1>1. /\ b # NoOne => BucketOK(b, PER_SOURCE_MAX) /\ b.failures <= earned[s]
      /\ earned[s] \in Nat /\ DOMAIN perSource = Sources
  BY DEF SourcesOK
<1>2. /\ BucketOK(r, PER_SOURCE_MAX) /\ r # NoOne /\ BucketOK(c, PER_SOURCE_MAX)
      /\ c = b \/ (c.failures = 0 /\ c.windowStartedAt = now /\ c.blockedUntil = Floor)
      /\ c = b <=> (b # NoOne /\ now - b.windowStartedAt < WINDOW)
      /\ \/ /\ c.failures + 1 >= PER_SOURCE_MAX
            /\ r.failures = 0 /\ r.windowStartedAt = now /\ r.blockedUntil = now + BLOCK
         \/ /\ c.failures + 1 < PER_SOURCE_MAX
            /\ r.failures = c.failures + 1 /\ r.windowStartedAt = c.windowStartedAt
            /\ r.blockedUntil = c.blockedUntil
  <2>1. PER_SOURCE_MAX \in Nat \ {0} /\ (b # NoOne => BucketOK(b, PER_SOURCE_MAX))
    BY <1>1, Widths
  <2>2. AsRecorded(b, c, r, PER_SOURCE_MAX, now)
    BY <2>1, Recorded
  <2> HIDE DEF b, c, r
  <2> QED
    BY <2>2 DEF AsRecorded
<1>3. /\ perSource' = [perSource EXCEPT ![s] = r]
      /\ earned' = [earned EXCEPT ![s] =
              IF retryAfter(b, 0) = 0 /\ retryAfter(r, 0) > 0 THEN 0
              ELSE IF @ < PER_SOURCE_MAX THEN @ + 1 ELSE @]
  BY DEF Failed
<1> HIDE DEF b, c, r
<1>4. /\ perSource'[s] = r /\ \A x \in Sources \ {s} : perSource'[x] = perSource[x]
      /\ DOMAIN perSource' = Sources
  BY <1>1, <1>3
<1>5. /\ b # NoOne => b.failures \in Nat /\ b.windowStartedAt \in Int /\ b.blockedUntil \in Int
      /\ c.failures \in Nat /\ c.blockedUntil \in Int /\ r.failures \in Nat /\ r.blockedUntil \in Int
  BY <1>1, <1>2 DEF BucketOK, Bucket
<1>6. c.failures <= earned[s]
  BY <1>1, <1>2, <1>5
<1>7. /\ retryAfter(r, 0) > 0 <=> r.blockedUntil > 0
      /\ retryAfter(b, 0) > 0 <=> (b # NoOne /\ b.blockedUntil > 0)
      /\ retryAfter(b, 0) = 0 <=> ~(b # NoOne /\ b.blockedUntil > 0)
  BY <1>2, <1>5 DEF retryAfter
<1>8. retryAfter(b, 0) > 0 => c = b
  BY <1>0, <1>1, <1>2, <1>5, <1>7, Widths DEF BucketOK
<1>9. retryAfter(b, 0) = 0 /\ retryAfter(r, 0) > 0 => c.failures + 1 >= PER_SOURCE_MAX
  BY <1>0, <1>2, <1>5, <1>7, Widths
<1>10. retryAfter(b, 0) > 0 => retryAfter(r, 0) > 0
  BY <1>0, <1>2, <1>5, <1>7, <1>8, Widths
<1>11. earned' \in [Sources -> Nat] /\ r.failures <= earned'[s]
  <2>1. earned \in [Sources -> Nat]
    BY DEF SourcesOK
  <2> DEFINE e == IF retryAfter(b, 0) = 0 /\ retryAfter(r, 0) > 0 THEN 0
                  ELSE IF earned[s] < PER_SOURCE_MAX THEN earned[s] + 1 ELSE earned[s]
  <2>2. e \in Nat /\ earned' = [earned EXCEPT ![s] = e]
    BY <1>1, <1>3
  <2>3. r.failures <= e
    BY <1>1, <1>2, <1>5, <1>6, <1>9, Widths
  <2> HIDE DEF e
  <2> QED
    BY <2>1, <2>2, <2>3
<1>12. \A x \in Sources \ {s} : earned'[x] = earned[x]
  BY <1>3 DEF SourcesOK
<1>13. SourcesOK'
  BY <1>2, <1>4, <1>11, <1>12 DEF SourcesOK
<1>14. retryAfter(b, 0) = 0 /\ retryAfter(r, 0) > 0 => earned[s] + 1 >= PER_SOURCE_MAX
  BY <1>1, <1>5, <1>6, <1>9, Widths
<1> QED
  BY <1>4, <1>10, <1>13, <1>14 DEF b

\* ... and to the global bucket and tally.
LEMMA GlobalFailed ==
    ASSUME GlobalOK, NEW s \in Sources, NEW now \in -MaxFlight .. 0, NEW buckets, Failed(s, now, buckets)
    PROVE  /\ GlobalOK'
           /\ retryAfter(global, 0) > 0 => retryAfter(global', 0) > 0
<1> DEFINE c == currentBucket(global, now)
           r == recordFailure(global, GLOBAL_MAX, now)
<1>0. now \in Int /\ -MaxFlight <= now /\ now <= 0
  BY Widths
<1>1. /\ BucketOK(r, GLOBAL_MAX) /\ r # NoOne /\ BucketOK(c, GLOBAL_MAX)
      /\ c = global \/ (c.failures = 0 /\ c.windowStartedAt = now /\ c.blockedUntil = Floor)
      /\ c = global <=> (global # NoOne /\ now - global.windowStartedAt < WINDOW)
      /\ \/ /\ c.failures + 1 >= GLOBAL_MAX
            /\ r.failures = 0 /\ r.windowStartedAt = now /\ r.blockedUntil = now + BLOCK
         \/ /\ c.failures + 1 < GLOBAL_MAX
            /\ r.failures = c.failures + 1 /\ r.windowStartedAt = c.windowStartedAt
            /\ r.blockedUntil = c.blockedUntil
  <2>1. GLOBAL_MAX \in Nat \ {0} /\ (global # NoOne => BucketOK(global, GLOBAL_MAX))
    BY Widths DEF GlobalOK
  <2>2. AsRecorded(global, c, r, GLOBAL_MAX, now)
    BY <2>1, Recorded
  <2> HIDE DEF c, r
  <2> QED
    BY <2>2 DEF AsRecorded
<1>2. /\ global' = r
      /\ tried' = IF r.blockedUntil = now + BLOCK THEN [count |-> 0, since |-> now]
                  ELSE IF now - tried.since >= WINDOW THEN [count |-> 1, since |-> now]
                  ELSE [tried EXCEPT !.count = @ + 1]
  BY DEF Failed, TriedOnce
<1>3. /\ tried \in [count: Nat, since: Int] /\ tried.count \in Nat /\ tried.since \in Int
      /\ global = NoOne => tried.since = Floor
      /\ global # NoOne => /\ tried.since = global.windowStartedAt /\ tried.count <= global.failures
                           /\ BucketOK(global, GLOBAL_MAX)
  BY DEF GlobalOK, NoTries
<1> HIDE DEF c, r
<1>4. /\ c.failures \in Nat /\ c.blockedUntil \in Int /\ c.windowStartedAt \in Int
      /\ r.failures \in Nat /\ r.blockedUntil \in Int /\ r.windowStartedAt \in Int
  BY <1>1 DEF BucketOK, Bucket
<1>5. ASSUME r.blockedUntil = now + BLOCK PROVE GlobalOK'
  <2>1. r.windowStartedAt = now
    BY <1>0, <1>1, <1>4, <1>5, Widths DEF BucketOK
  <2> QED
    BY <1>0, <1>1, <1>2, <1>4, <1>5, <2>1 DEF GlobalOK
<1>6. ASSUME r.blockedUntil # now + BLOCK PROVE GlobalOK'
  <2>1. /\ r.failures = c.failures + 1 /\ r.windowStartedAt = c.windowStartedAt
    BY <1>1, <1>6
  <2>2. CASE now - tried.since >= WINDOW
    <3>1. c.windowStartedAt = now
      BY <1>0, <1>1, <1>3, <1>4, <2>2, Widths
    <3>2. tried' = [count |-> 1, since |-> now]
      BY <1>2, <1>6, <2>2
    <3> QED
      BY <1>0, <1>1, <1>2, <1>4, <2>1, <3>1, <3>2 DEF GlobalOK
  <2>3. CASE ~(now - tried.since >= WINDOW)
    <3>1. c = global /\ global # NoOne
      BY <1>0, <1>1, <1>3, <2>3, Widths DEF BucketOK, Bucket
    <3>2. tried' = [tried EXCEPT !.count = @ + 1]
      BY <1>2, <1>6, <2>3
    <3>3. tried' \in [count: Nat, since: Int] /\ tried'.count = tried.count + 1 /\ tried'.since = tried.since
      BY <1>3, <3>2
    <3> QED
      BY <1>1, <1>2, <1>3, <1>4, <2>1, <3>1, <3>3 DEF GlobalOK
  <2> QED
    BY <2>2, <2>3
<1>7. retryAfter(global, 0) > 0 => retryAfter(global', 0) > 0
  <2> SUFFICES ASSUME retryAfter(global, 0) > 0 PROVE retryAfter(r, 0) > 0
    BY <1>2
  <2>1. global # NoOne /\ global.blockedUntil \in Int /\ global.windowStartedAt \in Int
    BY <1>3 DEF retryAfter, BucketOK, Bucket
  <2>2. global.blockedUntil > 0
    BY <2>1 DEF retryAfter
  <2>3. c = global
    BY <1>0, <1>1, <1>3, <2>1, <2>2, Widths DEF BucketOK
  <2> QED
    BY <1>0, <1>1, <1>4, <2>2, <2>3, Widths DEF retryAfter
<1> QED
  BY <1>5, <1>6, <1>7

LEMMA LimiterInit == Init => LimiterInv
  BY Widths DEF Init, LimiterInv, LoginsOK, SourcesOK, GlobalOK, NoTries

\* A login at work: what it holds.
LEMMA AtWork ==
    ASSUME LoginsOK, NEW l \in Logins, login[l].pc \in {"form", "match"}
    PROVE  /\ login[l] \in Request /\ login[l].source \in Sources
           /\ login[l].now \in -MaxFlight .. 0
  BY DEF LoginsOK, Request, Idle

\* Pruning keeps the sources' invariant.
LEMMA PruneKeeps ==
    ASSUME SourcesOK, NEW now \in -MaxFlight .. 0, perSource' = prune(perSource, now), earned' = earned
    PROVE  SourcesOK'
<1>1. /\ DOMAIN perSource' = Sources
      /\ \A s \in Sources : perSource'[s] \in {perSource[s], NoOne}
  BY Pruned DEF prune, SourcesOK
<1> QED
  BY <1>1 DEF SourcesOK

LEMMA LimiterStep == LimiterInv /\ [Next]_vars => LimiterInv'
<1> SUFFICES ASSUME LimiterInv, [Next]_vars
             PROVE  LimiterInv'
  OBVIOUS
<1> USE DEF LimiterInv
<1>1. ASSUME NEW l \in Logins, NEW s \in Sources, Post(l, s) PROVE LimiterInv'
  <2>1. [pc |-> "form", source |-> s, now |-> 0] \in Request
    BY Widths DEF Request
  <2> QED
    BY <1>1, <2>1 DEF Post, limiter, LoginsOK, SourcesOK, GlobalOK
<1>2. ASSUME NEW l \in Logins, Check(l) PROVE LimiterInv'
  <2>1. /\ login[l].pc = "form" /\ perSource' = prune(perSource, login[l].now)
        /\ UNCHANGED <<global, earned, tried>>
        /\ \/ login' = [login EXCEPT ![l].pc = "match"]
           \/ login' = [login EXCEPT ![l] = Idle]
    BY <1>2 DEF Check, Refused
  <2>2. login[l] \in Request /\ login[l].now \in -MaxFlight .. 0
    BY <2>1, AtWork
  <2>3. LoginsOK'
    BY <2>1, <2>2 DEF LoginsOK, Request
  <2> QED
    BY <2>1, <2>2, <2>3, PruneKeeps DEF GlobalOK
<1>3. ASSUME NEW l \in Logins, Wrong(l) PROVE LimiterInv'
  <2>1. /\ login[l].pc = "match" /\ Failed(login[l].source, login[l].now, perSource)
        /\ login' = [login EXCEPT ![l] = Idle]
    BY <1>3 DEF Wrong
  <2> QED
    BY <2>1, AtWork, SourceFailed, GlobalFailed DEF LoginsOK
<1>4. ASSUME NEW l \in Logins, Right(l) PROVE LimiterInv'
  <2>1. /\ Browser \in Sources
        /\ perSource' = [perSource EXCEPT ![Browser] = NoOne]
        /\ earned' = [earned EXCEPT ![Browser] = 0]
        /\ UNCHANGED <<global, tried>>
        /\ login' = [login EXCEPT ![l] = Idle]
    BY <1>4, AtWork DEF Right, globalAfterSuccess
  <2> QED
    BY <2>1 DEF LoginsOK, SourcesOK, GlobalOK
<1>5. CASE Visit \/ Logout
  BY <1>5 DEF Visit, Logout, limiter, session, LoginsOK, SourcesOK, GlobalOK
<1>6. CASE Rotate
  BY <1>6, Widths DEF Rotate, LoginsOK, SourcesOK, GlobalOK, NoTries
<1>7. CASE Tick
  <2>1. LoginsOK'
    <3>1. ASSUME NEW l \in Logins
          PROVE  (IF login[l].pc = "idle" THEN login[l] ELSE [login[l] EXCEPT !.now = @ - 1])
                    \in Request \cup {Idle}
      <4>1. CASE login[l] = Idle
        BY <4>1 DEF Idle
      <4>2. CASE login[l] \in Request
        <5>1. /\ login[l].pc \in {"form", "match"} /\ login[l].now \in Int
              /\ -MaxFlight < login[l].now /\ login[l].now <= 0
          BY <1>7, <4>2, Widths DEF Tick, Request
        <5> DEFINE earlier == login[l].now - 1
        <5>2. earlier \in -MaxFlight .. 0
          BY <5>1, Widths
        <5>3. [login[l] EXCEPT !.now = @ - 1] = [login[l] EXCEPT !.now = earlier]
          BY <4>2 DEF Request
        <5> HIDE DEF earlier
        <5> QED
          BY <4>2, <5>1, <5>2, <5>3 DEF Request
      <4> QED
        BY <4>1, <4>2 DEF LoginsOK
    <3> QED
      BY <1>7, <3>1 DEF Tick, LoginsOK
  <2>2. SourcesOK'
    <3>1. /\ perSource' = [s \in Sources |-> OlderBucket(perSource[s])]
          /\ UNCHANGED earned
      BY <1>7 DEF Tick
    <3>2. ASSUME NEW s \in Sources, perSource'[s] # NoOne
          PROVE  BucketOK(perSource'[s], PER_SOURCE_MAX) /\ perSource'[s].failures <= earned[s]
      <4>1. perSource[s] # NoOne /\ perSource'[s] = OlderBucket(perSource[s])
        BY <3>1, <3>2 DEF OlderBucket
      <4> QED
        BY <4>1, OlderBucketOK, Widths DEF SourcesOK
    <3> QED
      BY <3>1, <3>2 DEF SourcesOK
  <2>3. GlobalOK'
    <3>1. global' = OlderBucket(global) /\ tried' = [tried EXCEPT !.since = Older(@)]
      BY <1>7 DEF Tick
    <3>2. Older(Floor) = Floor /\ \A i \in Int : Older(i) \in Int
      BY Widths DEF Older
    <3>3. /\ tried' \in [count: Nat, since: Int] /\ tried'.count = tried.count
          /\ tried'.since = Older(tried.since) /\ tried' = [count |-> tried.count, since |-> Older(tried.since)]
      BY <3>1, <3>2 DEF GlobalOK
    <3>4. CASE global = NoOne
      <4>1. tried.count = 0 /\ tried.since = Floor
        BY <3>4 DEF GlobalOK, NoTries
      <4>2. global' = NoOne /\ tried' = NoTries
        BY <3>1, <3>2, <3>3, <3>4, <4>1 DEF OlderBucket, NoTries
      <4> QED
        BY <3>3, <4>2, Zenon DEF GlobalOK
    <3>5. CASE global # NoOne
      <4>1. /\ BucketOK(global, GLOBAL_MAX) /\ tried.since = global.windowStartedAt
            /\ tried.count <= global.failures /\ GLOBAL_MAX \in Nat \ {0}
        BY <3>5, Widths DEF GlobalOK
      <4>2. /\ BucketOK(global', GLOBAL_MAX) /\ global' # NoOne
            /\ global'.failures = global.failures
            /\ global'.windowStartedAt = Older(global.windowStartedAt)
        BY <3>1, <3>5, <4>1, OlderBucketOK
      <4> QED
        BY <3>3, <4>1, <4>2 DEF GlobalOK
    <3> QED
      BY <3>4, <3>5
  <2> QED
    BY <2>1, <2>2, <2>3
<1>8. CASE UNCHANGED vars
  BY <1>8 DEF vars, LoginsOK, SourcesOK, GlobalOK
<1> QED
  BY <1>1, <1>2, <1>3, <1>4, <1>5, <1>6, <1>7, <1>8 DEF Next, Work

LEMMA LimiterInvariant == Spec => []LimiterInv
  BY LimiterInit, LimiterStep, PTL DEF Spec

\* The logins past the check.
Matching == {l \in Logins : login[l].pc = "match"}

\* While everyone is blocked, the keys compared since the block began and those
\* still to be compared are fewer than the logins: the one that began it is over,
\* and no other passes the check.
SlippedOK ==
    /\ slipped \in Nat
    /\ ~(retryAfter(global, 0) > 0) => slipped = 0
    /\ retryAfter(global, 0) > 0 => slipped + Cardinality(Matching) < Cardinality(Logins)

LEMMA MatchingFinite ==
    /\ IsFiniteSet(Logins) /\ Cardinality(Logins) \in Nat /\ Cardinality(Logins) > 0
    /\ IsFiniteSet(Matching) /\ Cardinality(Matching) \in Nat
<1>1. IsFiniteSet(Logins) /\ Logins # {}
  BY LoginAssumption
<1>2. Cardinality(Logins) \in Nat /\ Cardinality(Logins) # 0
  BY <1>1, FS_CardinalityType, FS_EmptySet
<1>3. IsFiniteSet(Matching)
  BY <1>1, FS_Subset DEF Matching
<1> QED
  BY <1>1, <1>2, <1>3, FS_CardinalityType

\* A login that compares its key leaves the logins past the check.
LEMMA Compared ==
    ASSUME LoginsOK, SlippedOK, NEW l \in Logins, login[l].pc = "match",
           login' = [login EXCEPT ![l] = Idle], slipped' = Slips,
           retryAfter(global, 0) > 0 => retryAfter(global', 0) > 0
    PROVE  /\ slipped' \in Nat
           /\ slipped' + Cardinality(Matching') < Cardinality(Logins)
           /\ ~(retryAfter(global', 0) > 0) => slipped' = 0
<1>1. /\ Matching' = Matching \ {l} /\ l \in Matching
  <2>1. login'[l].pc = "idle" /\ \A m \in Logins \ {l} : login'[m] = login[m]
    BY DEF LoginsOK, Idle
  <2> QED
    BY <2>1 DEF Matching
<1>2. Cardinality(Matching') = Cardinality(Matching) - 1
  BY <1>1, MatchingFinite, FS_RemoveElement
<1>3. Cardinality(Matching) <= Cardinality(Logins)
  BY MatchingFinite, FS_Subset DEF Matching
<1>4. CASE retryAfter(global, 0) > 0
  BY <1>2, <1>4, MatchingFinite DEF SlippedOK, Slips
<1>5. CASE ~(retryAfter(global, 0) > 0)
  BY <1>2, <1>3, <1>5, MatchingFinite DEF Slips
<1> QED
  BY <1>4, <1>5

LEMMA SlippedStep ==
    ASSUME LimiterInv, SlippedOK, [Next]_vars
    PROVE  SlippedOK'
<1>0. LoginsOK /\ GlobalOK /\ (global # NoOne => global.blockedUntil \in Int)
  BY DEF LimiterInv, GlobalOK, BucketOK, Bucket
<1>1. CASE UNCHANGED <<global, slipped>> /\ Matching' = Matching
  BY <1>1 DEF SlippedOK
<1>2. ASSUME NEW l \in Logins, NEW s \in Sources, Post(l, s) PROVE SlippedOK'
  <2>1. /\ login[l].pc = "idle" /\ UNCHANGED <<global, slipped>>
        /\ login'[l].pc = "form" /\ \A m \in Logins \ {l} : login'[m] = login[m]
    BY <1>0, <1>2 DEF Post, limiter, LoginsOK
  <2> QED
    BY <1>1, <2>1 DEF Matching
<1>3. ASSUME NEW l \in Logins, Check(l) PROVE SlippedOK'
  <2>1. login[l].pc = "form" /\ UNCHANGED <<global, slipped>>
    BY <1>3 DEF Check, Refused
  <2>2. login[l].now \in Int /\ login[l].now <= 0
    BY <1>0, <2>1, AtWork, Widths
  <2>3. CASE retryAfter(global, login[l].now) = 0
    <3>1. ~(retryAfter(global, 0) > 0)
      BY <1>0, <2>2, <2>3 DEF retryAfter
    <3> QED
      BY <2>1, <3>1 DEF SlippedOK
  <2>4. CASE retryAfter(global, login[l].now) # 0
    <3>1. login' = [login EXCEPT ![l] = Idle]
      BY <1>3, <2>4 DEF Check
    <3>2. login'[l].pc = "idle" /\ \A m \in Logins \ {l} : login'[m] = login[m]
      BY <1>0, <3>1 DEF LoginsOK, Idle
    <3> QED
      BY <1>1, <2>1, <3>2 DEF Matching
  <2> QED
    BY <2>3, <2>4
<1>4. ASSUME NEW l \in Logins, Wrong(l) PROVE SlippedOK'
  <2>1. /\ login[l].pc = "match" /\ Failed(login[l].source, login[l].now, perSource)
        /\ login' = [login EXCEPT ![l] = Idle] /\ slipped' = Slips
    BY <1>4 DEF Wrong
  <2>2. retryAfter(global, 0) > 0 => retryAfter(global', 0) > 0
    BY <1>0, <2>1, AtWork, GlobalFailed
  <2> QED
    BY <1>0, <2>1, <2>2, Compared DEF SlippedOK
<1>5. ASSUME NEW l \in Logins, Right(l) PROVE SlippedOK'
  <2>1. /\ login[l].pc = "match" /\ UNCHANGED global
        /\ login' = [login EXCEPT ![l] = Idle] /\ slipped' = Slips
    BY <1>5 DEF Right, globalAfterSuccess
  <2> QED
    BY <1>0, <2>1, Compared DEF SlippedOK
<1>6. CASE Visit \/ Logout \/ UNCHANGED vars
  BY <1>1, <1>6 DEF Visit, Logout, limiter, vars, Matching
<1>7. CASE Rotate
  BY <1>7 DEF Rotate, SlippedOK, retryAfter
<1>8. CASE Tick
  <2>1. /\ global' = OlderBucket(global)
        /\ slipped' = IF retryAfter(global', 0) > 0 THEN slipped ELSE 0
        /\ \A l \in Logins : login'[l].pc = login[l].pc
    <3>1. login' = [l \in Logins |-> IF login[l].pc = "idle" THEN login[l]
                                     ELSE [login[l] EXCEPT !.now = @ - 1]]
      BY <1>8 DEF Tick
    <3>2. \A l \in Logins : login[l] \in Request => [login[l] EXCEPT !.now = @ - 1].pc = login[l].pc
      BY DEF Request
    <3>3. \A l \in Logins : login'[l].pc = login[l].pc
      BY <1>0, <3>1, <3>2 DEF LoginsOK, Idle
    <3> QED
      BY <1>8, <3>3 DEF Tick
  <2>2. Matching' = Matching
    BY <2>1 DEF Matching
  <2>3. retryAfter(global', 0) > 0 => retryAfter(global, 0) > 0
    <3>1. CASE global = NoOne
      BY <2>1, <3>1 DEF OlderBucket
    <3>2. CASE global # NoOne
      <4>1. retryAfter(global, 0) = 0 => retryAfter(global', 0) = 0
        BY <1>0, <2>1, <3>2, OlderBucketOK, Widths DEF GlobalOK
      <4>2. retryAfter(global, 0) = 0 \/ retryAfter(global, 0) > 0
        BY <1>0, <3>2 DEF retryAfter
      <4> QED
        BY <4>1, <4>2
    <3> QED
      BY <3>1, <3>2
  <2> QED
    BY <2>1, <2>2, <2>3 DEF SlippedOK
<1> QED
  BY <1>2, <1>3, <1>4, <1>5, <1>6, <1>7, <1>8 DEF Next, Work

\* In no window are more wrong keys compared than the global limit allows, and
\* in no block of everyone more keys than were past the check when it began,
\* whoever logs in between, for any number of sources and overlapping logins.
THEOREM GlobalLimitCorrect == Spec => []GlobalLimitHolds
<1>1. Init => SlippedOK
  BY DEF Init, SlippedOK, retryAfter
<1>2. LimiterInv /\ SlippedOK /\ [Next]_vars => SlippedOK'
  BY SlippedStep
<1>3. LimiterInv => tried.count < GLOBAL_MAX
  BY Widths DEF LimiterInv, GlobalOK, BucketOK, Bucket, NoTries
<1>4. SlippedOK => slipped < Cardinality(Logins)
  BY MatchingFinite DEF SlippedOK
<1> QED
  BY <1>1, <1>2, <1>3, <1>4, LimiterInvariant, PTL DEF Spec, GlobalLimitHolds

-----------------------------------------------------------------------------
(* Blocks *)

LEMMA BlocksStep ==
    ASSUME LimiterInv, [Next]_vars, NEW s \in Sources
    PROVE  /\ retryAfter(perSource[s], 0) = 0 /\ retryAfter(perSource'[s], 0) > 0
                => earned[s] + 1 >= PER_SOURCE_MAX
           /\ retryAfter(perSource[s], 0) > 0 /\ retryAfter(perSource'[s], 0) = 0
                => Tick \/ Rotate \/ (s = Browser /\ \E l \in Logins : Right(l))
<1>1. CASE perSource'[s] = perSource[s]
  <2>1. \A b : (b # NoOne => b \in Bucket) => ~(retryAfter(b, 0) = 0 /\ retryAfter(b, 0) > 0)
    BY DEF retryAfter, Bucket
  <2> QED
    BY <1>1, <2>1 DEF LimiterInv, SourcesOK, BucketOK
<1>2. ASSUME NEW l \in Logins, Check(l), perSource'[s] # perSource[s]
      PROVE  retryAfter(perSource[s], 0) = 0 /\ retryAfter(perSource'[s], 0) = 0
  <2>1. /\ login[l].pc = "form" /\ perSource' = prune(perSource, login[l].now)
    BY <1>2 DEF Check, Refused
  <2>2. login[l].now \in -MaxFlight .. 0
    BY <2>1, AtWork DEF LimiterInv
  <2>3. perSource'[s] = NoOne /\ ~(retryAfter(perSource[s], 0) > 0)
    BY <1>2, <2>1, <2>2, Pruned DEF LimiterInv
  <2>4. perSource[s] # NoOne => perSource[s].blockedUntil \in Int
    BY DEF LimiterInv, SourcesOK, BucketOK, Bucket
  <2> QED
    BY <2>3, <2>4 DEF retryAfter
<1>3. ASSUME NEW l \in Logins, Wrong(l)
      PROVE  /\ retryAfter(perSource[s], 0) = 0 /\ retryAfter(perSource'[s], 0) > 0
                  => earned[s] + 1 >= PER_SOURCE_MAX
             /\ \/ perSource'[s] = perSource[s]
                \/ retryAfter(perSource[s], 0) > 0 => retryAfter(perSource'[s], 0) > 0
  <2>1. login[l].pc = "match" /\ Failed(login[l].source, login[l].now, perSource)
    BY <1>3 DEF Wrong
  <2>2. login[l].source \in Sources /\ login[l].now \in -MaxFlight .. 0
    BY <2>1, AtWork DEF LimiterInv
  <2>3. CASE s = login[l].source
    BY <2>1, <2>2, <2>3, SourceFailed DEF LimiterInv
  <2>4. CASE s # login[l].source
    <3>1. perSource'[s] = perSource[s]
      BY <2>1, <2>2, <2>4, SourceFailed DEF LimiterInv
    <3> QED
      BY <1>1, <3>1
  <2> QED
    BY <2>3, <2>4
<1>4. ASSUME NEW l \in Logins, Right(l), perSource'[s] # perSource[s]
      PROVE  s = Browser /\ retryAfter(perSource'[s], 0) = 0
  <2>1. perSource' = [perSource EXCEPT ![Browser] = NoOne] /\ DOMAIN perSource = Sources
    BY <1>4 DEF Right, LimiterInv, SourcesOK
  <2>2. s = Browser /\ perSource'[s] = NoOne
    BY <1>4, <2>1
  <2> QED
    BY <2>2 DEF retryAfter
<1>5. CASE Rotate
  <2>1. perSource'[s] = NoOne
    BY <1>5 DEF Rotate
  <2> QED
    BY <1>5, <2>1 DEF retryAfter
<1>6. CASE Tick
  <2>1. perSource'[s] = OlderBucket(perSource[s])
    BY <1>6 DEF Tick
  <2>2. CASE perSource[s] = NoOne
    BY <1>1, <2>1, <2>2 DEF OlderBucket
  <2>3. CASE perSource[s] # NoOne
    <3>1. retryAfter(perSource[s], 0) = 0 => retryAfter(perSource'[s], 0) = 0
      BY <2>1, <2>3, OlderBucketOK, Widths DEF LimiterInv, SourcesOK
    <3> QED
      BY <1>6, <3>1
  <2> QED
    BY <2>2, <2>3
<1>7. \A n : n > 0 => n # 0
  OBVIOUS
<1>8. CASE perSource'[s] # perSource[s] /\ ~Rotate /\ ~Tick
  <2>1. \E l \in Logins : Check(l) \/ Wrong(l) \/ Right(l)
    BY <1>8 DEF Next, Work, Post, Visit, Logout, limiter, session, vars
  <2> QED
    BY <1>2, <1>3, <1>4, <1>7, <1>8, <2>1
<1> QED
  BY <1>1, <1>5, <1>6, <1>8

\* A block is neither handed out without its failures nor lifted before its
\* time, for every limit, window and block and however the logins overlap.
THEOREM BlocksCorrect == Spec => BlocksAreFair
<1> DEFINE A == \A s \in Sources :
                   (retryAfter(perSource[s], 0) = 0 /\ retryAfter(perSource[s], 0)' > 0)
                   => earned[s] + 1 >= PER_SOURCE_MAX
           B == \A s \in Sources :
                   (retryAfter(perSource[s], 0) > 0 /\ retryAfter(perSource[s], 0)' = 0)
                   => Tick \/ Rotate \/ (s = Browser /\ \E l \in Logins : Right(l))
<1>1. LimiterInv /\ [Next]_vars => [A]_vars /\ [B]_vars
  BY BlocksStep DEF retryAfter
<1> QED
  BY <1>1, LimiterInvariant, PTL DEF Spec, BlocksAreFair, BlocksAreEarned, BlocksStand

-----------------------------------------------------------------------------
(* Sessions *)

\* A live cookie signed with the key in force is no younger than the newest login
\* with that key, whichever of two overlapping logins was answered last.
SessionInv ==
    /\ proved \in Int
    /\ token # NoOne => token \in [current: BOOLEAN, expiresAt: Int]
    /\ token # NoOne /\ token.current /\ token.expiresAt > 0 => proved + SESSION_TTL >= token.expiresAt
    /\ SessionsAreEarned

LEMMA SessionStep ==
    ASSUME LimiterInv, SessionInv, [Next]_vars
    PROVE  SessionInv'
<1>0. SESSION_TTL \in Nat /\ SESSION_TTL > 0 /\ Never = -SESSION_TTL
  BY LoginAssumption DEF Never
<1>1. CASE token' = token /\ proved' = proved /\ (passed' => passed)
  BY <1>1 DEF SessionInv, SessionsAreEarned
<1>2. ASSUME NEW l \in Logins, Right(l) PROVE SessionInv'
  <2>1. /\ passed' = FALSE /\ token' = [current |-> TRUE, expiresAt |-> login[l].now + SESSION_TTL]
        /\ proved' = IF login[l].now > proved THEN login[l].now ELSE proved
        /\ login[l].now \in Int
    BY <1>2, AtWork, Widths DEF Right, mintSession, LimiterInv
  <2> QED
    BY <1>0, <2>1 DEF SessionInv, SessionsAreEarned
<1>3. CASE Visit
  <2>1. token' = token /\ proved' = proved /\ (passed' => verifySession(token, 0))
    BY <1>3 DEF Visit, session, guard
  <2>2. verifySession(token, 0) => proved > -SESSION_TTL
    BY <1>0 DEF verifySession, SessionInv
  <2> QED
    BY <2>1, <2>2 DEF SessionInv, SessionsAreEarned
<1>4. CASE Logout
  BY <1>4 DEF Logout, SessionInv, SessionsAreEarned
<1>5. CASE Rotate
  <2>1. token' = [token EXCEPT !.current = FALSE] /\ token # NoOne /\ proved' = Never /\ passed' = FALSE
    BY <1>5 DEF Rotate
  <2>2. token' \in [current: BOOLEAN, expiresAt: Int] /\ token'.current = FALSE
    BY <2>1 DEF SessionInv
  <2> QED
    BY <1>0, <2>1, <2>2 DEF SessionInv, SessionsAreEarned
<1>6. CASE Tick
  <2>1. /\ passed' = FALSE /\ proved' = IF proved > Never THEN proved - 1 ELSE Never
        /\ token' = IF token = NoOne \/ token.expiresAt < 0 THEN NoOne
                    ELSE [token EXCEPT !.expiresAt = @ - 1]
    BY <1>6 DEF Tick
  <2>2. CASE token' = NoOne
    BY <1>0, <2>1, <2>2 DEF SessionInv, SessionsAreEarned
  <2>3. CASE token' # NoOne
    <3>1. /\ token \in [current: BOOLEAN, expiresAt: Int] /\ token # NoOne
          /\ token' = [token EXCEPT !.expiresAt = token.expiresAt - 1]
      BY <2>1, <2>3 DEF SessionInv
    <3>2. /\ token' \in [current: BOOLEAN, expiresAt: Int]
          /\ token'.current = token.current /\ token'.expiresAt = token.expiresAt - 1
      BY <3>1
    <3> QED
      BY <1>0, <2>1, <3>1, <3>2 DEF SessionInv, SessionsAreEarned
  <2> QED
    BY <2>2, <2>3
<1>7. CASE UNCHANGED vars
  BY <1>1, <1>7 DEF vars, session
<1>8. ASSUME NEW l \in Logins, (\E s \in Sources : Post(l, s)) \/ Check(l) \/ Wrong(l) PROVE SessionInv'
  BY <1>1, <1>8 DEF Post, Check, Wrong, session
<1> QED
  BY <1>2, <1>3, <1>4, <1>5, <1>6, <1>7, <1>8 DEF Next, Work

\* A page is served only within SESSION_TTL of a login with the access key in
\* force, for every lifetime and however logins, rotations and cookies interleave.
THEOREM SessionsCorrect == Spec => []SessionsAreEarned
<1>1. Init => SessionInv
  BY LoginAssumption DEF Init, SessionInv, SessionsAreEarned, Never
<1>2. LimiterInv /\ SessionInv /\ [Next]_vars => SessionInv'
  BY SessionStep
<1>3. SessionInv => SessionsAreEarned
  BY DEF SessionInv
<1> QED
  BY <1>1, <1>2, <1>3, LimiterInvariant, PTL DEF Spec

=============================================================================
