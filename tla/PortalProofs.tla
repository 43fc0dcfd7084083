----------------------------- MODULE PortalProofs -----------------------------
(***************************************************************************)
(* Proofs about the alert feed the portal serves: a page hides no gap, is   *)
(* no older than the cache allows, and shows an alert as seen for exactly   *)
(* the day its acknowledgement lasts, for any platforms, readers and times. *)
(***************************************************************************)
EXTENDS Portal, TLAPS

LEMMA Lengths ==
    /\ ACK_TTL \in Nat /\ ACK_TTL > 0 /\ CACHE_TTL \in Nat /\ CACHE_TTL > 0
    /\ MaxFlight \in Nat /\ MaxFlight < CACHE_TTL
    /\ Floor \in Int /\ Floor = -(ACK_TTL + CACHE_TTL)
    /\ NoOne \notin Int
  BY PortalAssumption, AckTtlAssumption DEF Floor

LEMMA OlderIs ==
    \A i \in Int : /\ Older(i) \in Int /\ Older(i) >= Floor /\ (i > Floor => Older(i) = i - 1)
                   /\ (i <= Floor => Older(i) = Floor)
  BY Lengths DEF Older

-----------------------------------------------------------------------------
(* The inductive invariant, over the instants L at which the newest          *)
(* acknowledgement of each key began                                         *)

InstantsOK(L) == \A k \in DOMAIN L : L[k] \in Int /\ Floor <= L[k] /\ L[k] <= 0

\* The table holds the newest acknowledgement, or one stored after it that began
\* before it, by no more than an insert takes.
TableOK(T, L) ==
    /\ DOMAIN T = DOMAIN L
    /\ \A k \in DOMAIN L : /\ T[k] \in Int /\ Floor <= T[k]
                          /\ L[k] - MaxFlight <= T[k] /\ T[k] <= L[k]

IsAlert(a) ==
    /\ a = [key |-> a.key, kind |-> a.kind, platform |-> a.platform, storeId |-> a.storeId,
            acknowledgedUntil |-> a.acknowledgedUntil]
    /\ a.acknowledgedUntil \in Int \cup {NoOne}

IsFeed(f) ==
    /\ f = [alerts |-> f.alerts, acksUnavailable |-> f.acksUnavailable, partial |-> f.partial,
            now |-> f.now, read |-> f.read, healthy |-> f.healthy]
    /\ f.now \in Int /\ f.now <= 0
    /\ \A a \in f.alerts : IsAlert(a)

\* Nothing that was not read is hidden.
FeedShowsGaps(f) ==
    /\ Platform \ f.read # {} => f.partial
    /\ \A p \in Platform \ f.read :
          /\ \E a \in f.alerts : a.kind = "platform_unreachable" /\ a.platform = p
          /\ evaluateProbe(p, toProbe(ProbeRow[p])) # {} => ~f.healthy

\* An alert is shown as seen on the strength of an acknowledgement that has not
\* run out, and is when there was one stored before the feed was asked for.
FeedShowsAcks(f, L) ==
    \A a \in f.alerts :
        /\ a.acknowledgedUntil # NoOne =>
              /\ a.key \in DOMAIN L
              /\ a.acknowledgedUntil > f.now /\ a.acknowledgedUntil <= L[a.key] + ACK_TTL
        /\ (/\ ~f.acksUnavailable /\ a.key \in DOMAIN L
            /\ L[a.key] + MaxFlight < f.now /\ L[a.key] - MaxFlight + ACK_TTL > f.now)
              => a.acknowledgedUntil # NoOne

FeedOK(f, L) == IsFeed(f) /\ FeedShowsGaps(f) /\ FeedShowsAcks(f, L)

\* What a request that began at this instant has read of the acknowledgements:
\* none newer than the newest, and one of every key acknowledged before it began.
AcksRead(a, at, L) ==
    /\ a = [acks |-> a.acks, failed |-> a.failed] /\ a.failed \in BOOLEAN
    /\ \A k \in DOMAIN a.acks : /\ k \in DOMAIN L /\ a.acks[k] \in Int
                                /\ Floor <= a.acks[k] /\ a.acks[k] <= L[k]
    /\ ~a.failed => \A k \in DOMAIN L :
                       L[k] + MaxFlight < at /\ L[k] - MaxFlight >= at - ACK_TTL =>
                           k \in DOMAIN a.acks /\ L[k] - MaxFlight <= a.acks[k]

RequestOK(q, L) ==
    /\ q = [pc |-> q.pc, now |-> q.now, checks |-> q.checks, ok |-> q.ok, throws |-> q.throws,
            acks |-> q.acks]
    /\ q.pc \in {"verify", "query"}
    /\ q.now \in Int /\ -MaxFlight <= q.now /\ q.now <= 0
    /\ DOMAIN q.checks \subseteq Platform
    /\ \A p \in DOMAIN q.checks : q.checks[p] \in {probedCheck(p, ProbeRow[p]), unreachableCheck}
    /\ q.pc = "query" => DOMAIN q.checks = Platform
    /\ \A p \in DOMAIN q.ok : q.ok[p] \subseteq {raise("past_due", p, Store)}
    /\ q.acks # NoOne => AcksRead(q.acks, q.now, L)

VerifiedOK ==
    \A p \in DOMAIN verified : p \in Platform /\ verified[p] = probedCheck(p, ProbeRow[p])

RequestsOK == /\ DOMAIN req = Readers
              /\ \A r \in Readers : req[r] = Idle \/ RequestOK(req[r], lastAck)

CacheOK == cache # NoOne => /\ FeedOK(cache.feed, lastAck)
                            /\ cache.expiresAt = cache.feed.now + CACHE_TTL
                            /\ cache.expiresAt > 0

PageOK == GapsAreShown /\ PagesAreFresh /\ AcksLastTheirDay

PortalInv == /\ InstantsOK(lastAck) /\ TableOK(acks, lastAck)
             /\ VerifiedOK /\ RequestsOK /\ CacheOK /\ PageOK

-----------------------------------------------------------------------------
(* Another acknowledgement *)

\* The newest instant moves forward, and no further than the present.
Later(L, k, at) == IF k \in DOMAIN L /\ L[k] >= at THEN L ELSE Put(L, k, at)

LEMMA LaterIs ==
    ASSUME NEW L, NEW k, NEW at \in -MaxFlight .. 0, InstantsOK(L)
    PROVE  LET M == Later(L, k, at)
           IN  /\ DOMAIN M = DOMAIN L \cup {k} /\ at <= M[k] /\ InstantsOK(M)
               /\ \A x \in DOMAIN L \ {k} : M[x] = L[x]
               /\ k \in DOMAIN L => L[k] <= M[k]
<1> DEFINE M == Later(L, k, at)
<1>1. at \in Int /\ -MaxFlight <= at /\ at <= 0 /\ Floor <= at
  BY Lengths
<1>2. CASE k \in DOMAIN L /\ L[k] >= at
  <2>1. M = L /\ DOMAIN L \cup {k} = DOMAIN L /\ L[k] \in Int
    BY <1>2 DEF Later, InstantsOK
  <2> HIDE DEF M
  <2> QED
    BY <1>1, <1>2, <2>1 DEF M
<1>3. CASE ~(k \in DOMAIN L /\ L[k] >= at)
  <2>1. M = Put(L, k, at)
    BY <1>3 DEF Later
  <2>2. DOMAIN M = DOMAIN L \cup {k} /\ M[k] = at /\ \A x \in DOMAIN L \ {k} : M[x] = L[x]
    BY <2>1 DEF Put
  <2> HIDE DEF M
  <2>3. InstantsOK(M)
    BY <1>1, <2>2 DEF InstantsOK
  <2>4. k \in DOMAIN L => L[k] <= M[k]
    BY <1>1, <1>3, <2>2 DEF InstantsOK
  <2> QED
    BY <1>1, <2>2, <2>3, <2>4 DEF M
<1> QED
  BY <1>2, <1>3

LEMMA AckedTable ==
    ASSUME NEW T, NEW L, NEW k, NEW at \in -MaxFlight .. 0, InstantsOK(L), TableOK(T, L)
    PROVE  TableOK(Put(T, k, at), Later(L, k, at))
<1> DEFINE M == Later(L, k, at)
           N == Put(T, k, at)
<1>1. at \in Int /\ -MaxFlight <= at /\ at <= 0 /\ Floor <= at
  BY Lengths
<1>2. /\ DOMAIN M = DOMAIN L \cup {k} /\ at <= M[k] /\ InstantsOK(M)
      /\ \A x \in DOMAIN L \ {k} : M[x] = L[x]
  BY LaterIs
<1>3. DOMAIN N = DOMAIN T \cup {k} /\ N[k] = at /\ \A x \in DOMAIN T \ {k} : N[x] = T[x]
  BY DEF Put
<1> HIDE DEF M, N
<1>4. M[k] \in Int /\ M[k] <= 0
  BY <1>2 DEF InstantsOK
<1>5. ASSUME NEW x \in DOMAIN M
      PROVE  N[x] \in Int /\ Floor <= N[x] /\ M[x] - MaxFlight <= N[x] /\ N[x] <= M[x]
  <2>1. CASE x = k
    BY <1>1, <1>2, <1>3, <1>4, <2>1, Lengths
  <2>2. CASE x # k
    BY <1>2, <1>3, <1>5, <2>2 DEF TableOK
  <2> QED
    BY <2>1, <2>2
<1>6. TableOK(N, M)
  BY <1>2, <1>3, <1>5 DEF TableOK
<1> QED
  BY <1>6 DEF M, N

LEMMA AckedFeed ==
    ASSUME NEW L, NEW k, NEW at \in -MaxFlight .. 0, NEW f, InstantsOK(L), FeedOK(f, L)
    PROVE  FeedOK(f, Later(L, k, at))
<1> DEFINE M == Later(L, k, at)
<1>1. /\ DOMAIN M = DOMAIN L \cup {k} /\ at <= M[k] /\ InstantsOK(M)
      /\ \A x \in DOMAIN L \ {k} : M[x] = L[x]
      /\ k \in DOMAIN L => L[k] <= M[k]
  BY LaterIs
<1> HIDE DEF M
<1>2. FeedShowsAcks(f, M)
  <2> SUFFICES ASSUME NEW a \in f.alerts
               PROVE  /\ a.acknowledgedUntil # NoOne =>
                           /\ a.key \in DOMAIN M
                           /\ a.acknowledgedUntil > f.now /\ a.acknowledgedUntil <= M[a.key] + ACK_TTL
                      /\ (/\ ~f.acksUnavailable /\ a.key \in DOMAIN M
                          /\ M[a.key] + MaxFlight < f.now /\ M[a.key] - MaxFlight + ACK_TTL > f.now)
                         => a.acknowledgedUntil # NoOne
    BY DEF FeedShowsAcks
  <2>1. f.now \in Int /\ f.now <= 0 /\ a.acknowledgedUntil \in Int \cup {NoOne}
    BY DEF FeedOK, IsFeed, IsAlert
  <2>2. CASE a.key = k
    <3>1. M[k] \in Int /\ M[k] + MaxFlight >= 0 /\ (k \in DOMAIN L => L[k] \in Int)
      BY <1>1, Lengths DEF InstantsOK
    <3>2. ~(M[k] + MaxFlight < f.now)
      BY <2>1, <3>1, Lengths
    <3>3. a.acknowledgedUntil # NoOne =>
             k \in DOMAIN L /\ a.acknowledgedUntil > f.now /\ a.acknowledgedUntil <= L[k] + ACK_TTL
      BY <2>2 DEF FeedOK, FeedShowsAcks
    <3>4. a.acknowledgedUntil # NoOne => a.acknowledgedUntil <= M[k] + ACK_TTL
      BY <1>1, <2>1, <3>1, <3>3, Lengths
    <3> QED
      BY <1>1, <2>2, <3>2, <3>3, <3>4
  <2>3. CASE a.key # k
    BY <1>1, <2>3 DEF FeedOK, FeedShowsAcks
  <2> QED
    BY <2>2, <2>3
<1> QED
  BY <1>2 DEF FeedOK, M

LEMMA AckedRead ==
    ASSUME NEW L, NEW k, NEW at \in -MaxFlight .. 0, NEW a, NEW now \in Int, now <= 0,
           InstantsOK(L), AcksRead(a, now, L)
    PROVE  AcksRead(a, now, Later(L, k, at))
<1> DEFINE M == Later(L, k, at)
<1>1. /\ DOMAIN M = DOMAIN L \cup {k} /\ at <= M[k] /\ InstantsOK(M)
      /\ \A x \in DOMAIN L \ {k} : M[x] = L[x]
      /\ k \in DOMAIN L => L[k] <= M[k]
  BY LaterIs
<1> HIDE DEF M
<1>2. M[k] \in Int /\ M[k] + MaxFlight >= 0 /\ (k \in DOMAIN L => L[k] \in Int)
  BY <1>1, Lengths DEF InstantsOK
<1>3. \A x \in DOMAIN a.acks : /\ x \in DOMAIN M /\ a.acks[x] \in Int
                               /\ Floor <= a.acks[x] /\ a.acks[x] <= M[x]
  <2> SUFFICES ASSUME NEW x \in DOMAIN a.acks
               PROVE  x \in DOMAIN M /\ a.acks[x] \in Int /\ Floor <= a.acks[x] /\ a.acks[x] <= M[x]
    OBVIOUS
  <2>1. x \in DOMAIN L /\ a.acks[x] \in Int /\ Floor <= a.acks[x] /\ a.acks[x] <= L[x]
    BY DEF AcksRead
  <2> QED
    BY <1>1, <1>2, <2>1
<1>4. ~a.failed => \A x \in DOMAIN M :
                      M[x] + MaxFlight < now /\ M[x] - MaxFlight >= now - ACK_TTL =>
                          x \in DOMAIN a.acks /\ M[x] - MaxFlight <= a.acks[x]
  <2> SUFFICES ASSUME ~a.failed, NEW x \in DOMAIN M, M[x] + MaxFlight < now,
                      M[x] - MaxFlight >= now - ACK_TTL
               PROVE  x \in DOMAIN a.acks /\ M[x] - MaxFlight <= a.acks[x]
    OBVIOUS
  <2>1. x # k
    BY <1>2, Lengths
  <2> QED
    BY <1>1, <2>1 DEF AcksRead
<1>5. AcksRead(a, now, M)
  BY <1>3, <1>4 DEF AcksRead
<1> QED
  BY <1>5 DEF M

-----------------------------------------------------------------------------
(* A tick later *)

LEMMA OlderInstants ==
    ASSUME NEW L, InstantsOK(L)
    PROVE  /\ InstantsOK(OlderMap(L)) /\ DOMAIN OlderMap(L) = DOMAIN L
           /\ \A k \in DOMAIN L : OlderMap(L)[k] = Older(L[k])
<1>1. DOMAIN OlderMap(L) = DOMAIN L /\ \A k \in DOMAIN L : OlderMap(L)[k] = Older(L[k])
  BY DEF OlderMap
<1>2. \A k \in DOMAIN L : Older(L[k]) \in Int /\ Floor <= Older(L[k]) /\ Older(L[k]) <= 0
  BY OlderIs, Lengths DEF InstantsOK
<1> QED
  BY <1>1, <1>2 DEF InstantsOK

LEMMA OlderTable ==
    ASSUME NEW T, NEW L, InstantsOK(L), TableOK(T, L)
    PROVE  TableOK(OlderMap(T), OlderMap(L))
<1> DEFINE M == OlderMap(L)
           N == OlderMap(T)
<1>1. /\ DOMAIN M = DOMAIN L /\ \A k \in DOMAIN L : M[k] = Older(L[k])
      /\ DOMAIN N = DOMAIN T /\ \A k \in DOMAIN T : N[k] = Older(T[k])
  BY DEF OlderMap
<1> HIDE DEF M, N
<1>2. ASSUME NEW k \in DOMAIN L
      PROVE  N[k] \in Int /\ Floor <= N[k] /\ M[k] - MaxFlight <= N[k] /\ N[k] <= M[k]
  <2>1. /\ L[k] \in Int /\ Floor <= L[k] /\ T[k] \in Int /\ Floor <= T[k]
        /\ L[k] - MaxFlight <= T[k] /\ T[k] <= L[k]
    BY DEF InstantsOK, TableOK
  <2>2. M[k] = Older(L[k]) /\ N[k] = Older(T[k])
    BY <1>1 DEF TableOK
  <2> QED
    BY <2>1, <2>2, OlderIs, Lengths
<1>3. TableOK(N, M)
  BY <1>1, <1>2 DEF TableOK
<1> QED
  BY <1>3 DEF M, N

LEMMA OlderFeedOK ==
    ASSUME NEW L, InstantsOK(L), NEW f, FeedOK(f, L), f.now + CACHE_TTL > 1
    PROVE  FeedOK(OlderFeed(f), OlderMap(L)) /\ OlderFeed(f).now = f.now - 1
<1> DEFINE M == OlderMap(L)
           g == OlderFeed(f)
           Aged(a) == IF a.acknowledgedUntil = NoOne THEN a
                      ELSE [a EXCEPT !.acknowledgedUntil = Older(@)]
<1>1. DOMAIN M = DOMAIN L /\ \A k \in DOMAIN L : M[k] = Older(L[k])
  BY OlderInstants
<1>2. /\ IsFeed(f) /\ f.now \in Int /\ f.now <= 0 /\ Older(f.now) = f.now - 1
  BY OlderIs, Lengths DEF FeedOK, IsFeed
<1>3. g = [alerts |-> {Aged(a) : a \in f.alerts}, acksUnavailable |-> f.acksUnavailable,
           partial |-> f.partial, now |-> f.now - 1, read |-> f.read, healthy |-> f.healthy]
  <2> DEFINE A == {Aged(a) : a \in f.alerts}
             t == f.now - 1
  <2>1. g = [f EXCEPT !.now = Older(f.now), !.alerts = A]
    BY <1>2 DEF OlderFeed, IsFeed
  <2> HIDE DEF A
  <2>2. g = [f EXCEPT !.now = t, !.alerts = A]
    BY <1>2, <2>1
  <2> HIDE DEF t, g
  <2>3. g = [alerts |-> A, acksUnavailable |-> f.acksUnavailable, partial |-> f.partial,
             now |-> t, read |-> f.read, healthy |-> f.healthy]
    BY <1>2, <2>2 DEF IsFeed
  <2> QED
    BY <2>3 DEF A, t
<1>4. \A a \in f.alerts :
         /\ IsAlert(a) /\ IsAlert(Aged(a))
         /\ Aged(a).key = a.key /\ Aged(a).kind = a.kind /\ Aged(a).platform = a.platform
         /\ a.acknowledgedUntil = NoOne => Aged(a).acknowledgedUntil = NoOne
         /\ a.acknowledgedUntil # NoOne => /\ a.acknowledgedUntil \in Int
                                           /\ Aged(a).acknowledgedUntil = Older(a.acknowledgedUntil)
  <2> SUFFICES ASSUME NEW a \in f.alerts
               PROVE  /\ IsAlert(a) /\ IsAlert(Aged(a))
                      /\ Aged(a).key = a.key /\ Aged(a).kind = a.kind /\ Aged(a).platform = a.platform
                      /\ a.acknowledgedUntil = NoOne => Aged(a).acknowledgedUntil = NoOne
                      /\ a.acknowledgedUntil # NoOne =>
                           /\ a.acknowledgedUntil \in Int
                           /\ Aged(a).acknowledgedUntil = Older(a.acknowledgedUntil)
    OBVIOUS
  <2>1. IsAlert(a)
    BY <1>2 DEF IsFeed
  <2>2. CASE a.acknowledgedUntil = NoOne
    BY <2>1, <2>2
  <2>3. CASE a.acknowledgedUntil # NoOne
    <3> DEFINE until == Older(a.acknowledgedUntil)
    <3>1. a.acknowledgedUntil \in Int /\ until \in Int
      BY <2>1, <2>3, OlderIs DEF IsAlert
    <3> HIDE DEF until
    <3>2. Aged(a) = [key |-> a.key, kind |-> a.kind, platform |-> a.platform,
                     storeId |-> a.storeId, acknowledgedUntil |-> until]
      BY <2>1, <2>3 DEF IsAlert, until
    <3> QED
      BY <2>1, <2>3, <3>1, <3>2 DEF IsAlert, until
  <2> QED
    BY <2>2, <2>3
<1> HIDE DEF M, g, Aged
<1>5. IsFeed(g)
  BY <1>2, <1>3, <1>4 DEF IsFeed
<1>6. FeedShowsGaps(g)
  BY <1>3, <1>4 DEF FeedOK, FeedShowsGaps
<1>7. FeedShowsAcks(g, M)
  <2>1. ASSUME NEW a \in f.alerts
        PROVE  /\ Aged(a).acknowledgedUntil # NoOne =>
                    /\ a.key \in DOMAIN M
                    /\ Aged(a).acknowledgedUntil > f.now - 1
                    /\ Aged(a).acknowledgedUntil <= M[a.key] + ACK_TTL
               /\ (/\ ~f.acksUnavailable /\ a.key \in DOMAIN M
                   /\ M[a.key] + MaxFlight < f.now - 1
                   /\ M[a.key] - MaxFlight + ACK_TTL > f.now - 1)
                  => Aged(a).acknowledgedUntil # NoOne
    <3>1. /\ a.acknowledgedUntil # NoOne =>
               /\ a.acknowledgedUntil \in Int /\ a.key \in DOMAIN L
               /\ a.acknowledgedUntil > f.now /\ a.acknowledgedUntil <= L[a.key] + ACK_TTL
          /\ (/\ ~f.acksUnavailable /\ a.key \in DOMAIN L
              /\ L[a.key] + MaxFlight < f.now /\ L[a.key] - MaxFlight + ACK_TTL > f.now)
             => a.acknowledgedUntil # NoOne
          /\ a.key \in DOMAIN L => L[a.key] \in Int /\ Floor <= L[a.key] /\ M[a.key] = Older(L[a.key])
      BY <1>1, <1>4 DEF FeedOK, FeedShowsAcks, InstantsOK
    <3>2. a.acknowledgedUntil # NoOne => Aged(a).acknowledgedUntil = a.acknowledgedUntil - 1
      BY <1>2, <1>4, <3>1, OlderIs, Lengths
    <3>3. CASE a.acknowledgedUntil # NoOne
      BY <1>1, <1>2, <3>1, <3>2, <3>3, OlderIs, Lengths
    <3>4. CASE a.acknowledgedUntil = NoOne
      <4>1. Aged(a).acknowledgedUntil = NoOne
        BY <1>4, <3>4
      <4> SUFFICES ASSUME ~f.acksUnavailable, a.key \in DOMAIN M,
                          M[a.key] + MaxFlight < f.now - 1, M[a.key] - MaxFlight + ACK_TTL > f.now - 1
                   PROVE  FALSE
        BY <4>1
      <4>2. L[a.key] > Floor
        BY <1>1, <1>2, <3>1, OlderIs, Lengths
      <4> QED
        BY <1>1, <1>2, <3>1, <3>4, <4>2, OlderIs, Lengths
    <3> QED
      BY <3>3, <3>4
  <2> QED
    BY <1>3, <1>4, <2>1 DEF FeedShowsAcks
<1> QED
  BY <1>3, <1>5, <1>6, <1>7 DEF FeedOK, M, g

LEMMA OlderRead ==
    ASSUME NEW L, InstantsOK(L), NEW a, NEW at \in Int, -MaxFlight < at, AcksRead(a, at, L)
    PROVE  AcksRead([a EXCEPT !.acks = OlderMap(@)], at - 1, OlderMap(L))
<1> DEFINE M == OlderMap(L)
           older == OlderMap(a.acks)
           b == [a EXCEPT !.acks = OlderMap(@)]
<1>1. DOMAIN M = DOMAIN L /\ \A k \in DOMAIN L : M[k] = Older(L[k])
  BY OlderInstants
<1>2. DOMAIN older = DOMAIN a.acks /\ \A k \in DOMAIN a.acks : older[k] = Older(a.acks[k])
  BY DEF OlderMap
<1>3. b = [acks |-> older, failed |-> a.failed]
  BY DEF AcksRead
<1> HIDE DEF M, older, b
<1>4. \A k \in DOMAIN older : /\ k \in DOMAIN M /\ older[k] \in Int
                              /\ Floor <= older[k] /\ older[k] <= M[k]
  BY <1>1, <1>2, OlderIs, Lengths DEF AcksRead, InstantsOK
<1>5. ASSUME ~a.failed, NEW k \in DOMAIN M, M[k] + MaxFlight < at - 1,
             M[k] - MaxFlight >= at - 1 - ACK_TTL
      PROVE  k \in DOMAIN older /\ M[k] - MaxFlight <= older[k]
  <2>1. k \in DOMAIN L /\ L[k] \in Int /\ Floor <= L[k] /\ M[k] = Older(L[k])
    BY <1>1 DEF InstantsOK
  <2>2. L[k] > Floor
    BY <1>5, <2>1, OlderIs, Lengths
  <2>3. M[k] = L[k] - 1 /\ L[k] + MaxFlight < at /\ L[k] - MaxFlight >= at - ACK_TTL
    BY <1>5, <2>1, <2>2, OlderIs, Lengths
  <2>4. k \in DOMAIN a.acks /\ a.acks[k] \in Int /\ L[k] - MaxFlight <= a.acks[k]
    BY <1>5, <2>1, <2>3 DEF AcksRead
  <2>5. k \in DOMAIN older /\ older[k] = Older(a.acks[k])
    BY <1>2, <2>4
  <2> QED
    BY <2>1, <2>3, <2>4, <2>5, OlderIs, Lengths
<1>6. AcksRead(b, at - 1, M)
  BY <1>3, <1>4, <1>5 DEF AcksRead
<1> QED
  BY <1>6 DEF b, M

-----------------------------------------------------------------------------
(* The feed a request computes *)

LEMMA RaisedIs ==
    ASSUME NEW kind, NEW platform, NEW storeId
    PROVE  LET a == raise(kind, platform, storeId)
           IN  /\ IsAlert(a) /\ a.kind = kind /\ a.platform = platform /\ a.acknowledgedUntil = NoOne
  BY DEF raise, IsAlert

\* The acknowledgements applied: nothing else of an alert changes, and it is
\* shown as seen exactly when its acknowledgement has not run out.
LEMMA AppliedAcks ==
    ASSUME NEW alerts, NEW at \in Int, NEW A,
           \A a \in alerts : IsAlert(a) /\ a.acknowledgedUntil = NoOne,
           \A k \in DOMAIN A : A[k] \in Int
    PROVE  /\ \A a \in alerts : \E b \in applyAcks(alerts, A, at) :
                 b.kind = a.kind /\ b.platform = a.platform
           /\ \A b \in applyAcks(alerts, A, at) :
                 /\ IsAlert(b)
                 /\ b.acknowledgedUntil # NoOne <=> (b.key \in DOMAIN A /\ A[b.key] + ACK_TTL > at)
                 /\ b.acknowledgedUntil # NoOne => b.acknowledgedUntil = A[b.key] + ACK_TTL
<1> DEFINE Seen(a) == IF /\ a.key \in DOMAIN A /\ A[a.key] + ACK_TTL > at
                      THEN [a EXCEPT !.acknowledgedUntil = A[a.key] + ACK_TTL] ELSE a
<1>1. applyAcks(alerts, A, at) = {Seen(a) : a \in alerts}
  BY DEF applyAcks
<1>2. ASSUME NEW a \in alerts
      PROVE  /\ IsAlert(Seen(a)) /\ Seen(a).key = a.key
             /\ Seen(a).kind = a.kind /\ Seen(a).platform = a.platform
             /\ Seen(a).acknowledgedUntil # NoOne <=> (a.key \in DOMAIN A /\ A[a.key] + ACK_TTL > at)
             /\ Seen(a).acknowledgedUntil # NoOne => Seen(a).acknowledgedUntil = A[a.key] + ACK_TTL
  <2>1. CASE a.key \in DOMAIN A /\ A[a.key] + ACK_TTL > at
    <3> DEFINE until == A[a.key] + ACK_TTL
    <3>1. until \in Int /\ until # NoOne
      BY <2>1, Lengths
    <3>2. Seen(a) = [a EXCEPT !.acknowledgedUntil = until]
      BY <2>1
    <3> HIDE DEF until
    <3>3. Seen(a) = [key |-> a.key, kind |-> a.kind, platform |-> a.platform,
                     storeId |-> a.storeId, acknowledgedUntil |-> until]
      BY <3>2 DEF IsAlert
    <3> QED
      BY <2>1, <3>1, <3>3 DEF IsAlert, until
  <2>2. CASE ~(a.key \in DOMAIN A /\ A[a.key] + ACK_TTL > at)
    BY <2>2
  <2> QED
    BY <2>1, <2>2
<1> HIDE DEF Seen
<1> QED
  BY <1>1, <1>2

\* The platforms a request has not read are those its fan-out calls failed.
LEMMA FanOutIs ==
    ASSUME NEW checks, NEW run, NEW throws
    PROVE  LET fan == queryPlatforms(checks, run, throws, 0)
               usable == {p \in DOMAIN checks : isUsable(checks[p])}
           IN  /\ fan.ok = {[platform |-> p, value |-> run[p]] : p \in usable \ throws}
               /\ fan.failed = (DOMAIN checks \ usable) \cup (usable \cap throws)
               /\ fan.partial <=> (fan.failed # {})
  BY DEF queryPlatforms, fanOut

LEMMA FinishedFeed ==
    ASSUME NEW r, RequestOK(req[r], lastAck), InstantsOK(lastAck), req[r].pc = "query",
           req[r].acks # NoOne, Targets(r) = DOMAIN req[r].ok \cup req[r].throws
    PROVE  FeedOK(FeedOf(r), lastAck) /\ FeedOf(r).now = req[r].now
<1> DEFINE q == req[r]
           fan == queryPlatforms(q.checks, q.ok, q.throws, 0)
           usable == {p \in DOMAIN q.checks : isUsable(q.checks[p])}
           raised == (UNION {result.value : result \in fan.ok})
                     \cup {platformUnreachableAlert(p) : p \in fan.failed}
           f == FeedOf(r)
<1>1. /\ q.now \in Int /\ q.now <= 0 /\ -MaxFlight <= q.now /\ DOMAIN q.checks = Platform
      /\ \A p \in Platform : q.checks[p] \in {probedCheck(p, ProbeRow[p]), unreachableCheck}
      /\ \A p \in DOMAIN q.ok : q.ok[p] \subseteq {raise("past_due", p, Store)}
      /\ AcksRead(q.acks, q.now, lastAck)
      /\ usable = DOMAIN q.ok \cup q.throws
  BY DEF RequestOK, Targets
<1>2. /\ fan.ok = {[platform |-> p, value |-> q.ok[p]] : p \in usable \ q.throws}
      /\ fan.failed = (Platform \ usable) \cup (usable \cap q.throws)
      /\ fan.partial <=> (fan.failed # {})
  BY <1>1, FanOutIs
<1>3. /\ f.alerts = applyAcks(raised, q.acks.acks, q.now)
      /\ f.acksUnavailable = q.acks.failed
      /\ f.partial = (fan.partial \/ q.acks.failed)
      /\ f.now = q.now
      /\ f.read = {result.platform : result \in fan.ok}
      /\ f.healthy = (checkHealth(TRUE, q.checks).status = "ok")
      /\ f = [alerts |-> f.alerts, acksUnavailable |-> f.acksUnavailable, partial |-> f.partial,
              now |-> f.now, read |-> f.read, healthy |-> f.healthy]
  BY DEF FeedOf, alertFeed
<1>4. f.healthy => \A p \in Platform : isUsable(q.checks[p])
  BY <1>1, <1>3 DEF checkHealth, toPlatformHealth
<1> HIDE DEF fan, f
<1>5. \A a \in raised : IsAlert(a) /\ a.acknowledgedUntil = NoOne
  <2>1. ASSUME NEW result \in fan.ok, NEW a \in result.value PROVE IsAlert(a) /\ a.acknowledgedUntil = NoOne
    <3>1. PICK p \in usable \ q.throws : result = [platform |-> p, value |-> q.ok[p]]
      BY <1>2
    <3>2. p \in DOMAIN q.ok /\ a \in q.ok[p]
      BY <1>1, <2>1, <3>1
    <3>3. a = raise("past_due", p, Store)
      BY <1>1, <3>2
    <3> QED
      BY <3>3, RaisedIs
  <2>2. \A p \in fan.failed : IsAlert(platformUnreachableAlert(p)) /\ platformUnreachableAlert(p).acknowledgedUntil = NoOne
    BY RaisedIs DEF platformUnreachableAlert
  <2>3. ASSUME NEW a \in raised
        PROVE  (\E result \in fan.ok : a \in result.value)
               \/ \E p \in fan.failed : a = platformUnreachableAlert(p)
    BY Zenon
  <2> QED
    BY <2>1, <2>2, <2>3
<1>6. ASSUME NEW p \in fan.failed
      PROVE  \E a \in raised : a.kind = "platform_unreachable" /\ a.platform = p
  <2>1. platformUnreachableAlert(p) \in raised
    BY Zenon
  <2>2. /\ platformUnreachableAlert(p).kind = "platform_unreachable"
        /\ platformUnreachableAlert(p).platform = p
    BY DEF platformUnreachableAlert, raise
  <2> QED
    BY <2>1, <2>2, Zenon
<1>7. f.read = usable \ q.throws
  <2>1. \A p \in usable \ q.throws : /\ [platform |-> p, value |-> q.ok[p]] \in fan.ok
                                     /\ [platform |-> p, value |-> q.ok[p]].platform = p
    BY <1>2
  <2>2. \A result \in fan.ok : result.platform \in usable \ q.throws
    BY <1>2
  <2>3. \A p \in usable \ q.throws : \E result \in fan.ok : p = result.platform
    BY <2>1, Zenon
  <2>4. \A p : p \in f.read <=> \E result \in fan.ok : p = result.platform
    BY <1>3, Zenon
  <2> HIDE DEF usable, q
  <2>5. \A p : p \in f.read <=> p \in usable \ q.throws
    <3> TAKE p
    <3>1. ASSUME p \in f.read PROVE p \in usable \ q.throws
      <4>1. PICK result \in fan.ok : p = result.platform
        BY <2>4, <3>1, Zenon
      <4> QED
        BY <2>2, <4>1
    <3>2. ASSUME p \in usable \ q.throws PROVE p \in f.read
      BY <2>3, <2>4, <3>2, Zenon
    <3> QED
      BY <3>1, <3>2
  <2> QED
    BY <2>5
<1>8. Platform \ f.read = fan.failed
  BY <1>1, <1>2, <1>7
<1> HIDE DEF raised, usable
<1>9. \A k \in DOMAIN q.acks.acks : q.acks.acks[k] \in Int
  BY <1>1 DEF AcksRead
<1>10. /\ \A a \in raised : \E b \in f.alerts : b.kind = a.kind /\ b.platform = a.platform
       /\ \A b \in f.alerts :
             /\ IsAlert(b)
             /\ b.acknowledgedUntil # NoOne <=>
                  (b.key \in DOMAIN q.acks.acks /\ q.acks.acks[b.key] + ACK_TTL > q.now)
             /\ b.acknowledgedUntil # NoOne => b.acknowledgedUntil = q.acks.acks[b.key] + ACK_TTL
  BY <1>1, <1>3, <1>5, <1>9, AppliedAcks
<1>11. IsFeed(f)
  BY <1>1, <1>3, <1>10 DEF IsFeed
<1>12. FeedShowsGaps(f)
  <2>1. Platform \ f.read # {} => f.partial
    BY <1>2, <1>3, <1>8
  <2>2. ASSUME NEW p \in Platform \ f.read
        PROVE  \E a \in f.alerts : a.kind = "platform_unreachable" /\ a.platform = p
    BY <1>6, <1>8, <1>10
  <2>3. ASSUME NEW p \in Platform \ f.read, evaluateProbe(p, toProbe(ProbeRow[p])) # {} PROVE ~f.healthy
    <3>1. ~isUsable(q.checks[p])
      BY <1>1, <2>3 DEF isUsable, probedCheck, unreachableCheck
    <3> QED
      BY <1>4, <3>1
  <2> QED
    BY <2>1, <2>2, <2>3 DEF FeedShowsGaps
<1>13. FeedShowsAcks(f, lastAck)
  <2> SUFFICES ASSUME NEW a \in f.alerts
               PROVE  /\ a.acknowledgedUntil # NoOne =>
                           /\ a.key \in DOMAIN lastAck
                           /\ a.acknowledgedUntil > f.now
                           /\ a.acknowledgedUntil <= lastAck[a.key] + ACK_TTL
                      /\ (/\ ~f.acksUnavailable /\ a.key \in DOMAIN lastAck
                          /\ lastAck[a.key] + MaxFlight < f.now
                          /\ lastAck[a.key] - MaxFlight + ACK_TTL > f.now)
                         => a.acknowledgedUntil # NoOne
    BY DEF FeedShowsAcks
  <2>1. a.key \in DOMAIN q.acks.acks => /\ a.key \in DOMAIN lastAck /\ q.acks.acks[a.key] \in Int
                                        /\ q.acks.acks[a.key] <= lastAck[a.key]
    BY <1>1 DEF AcksRead
  <2>2. a.key \in DOMAIN lastAck => lastAck[a.key] \in Int
    BY DEF InstantsOK
  <2>3. a.acknowledgedUntil # NoOne =>
           /\ a.key \in DOMAIN lastAck
           /\ a.acknowledgedUntil > f.now /\ a.acknowledgedUntil <= lastAck[a.key] + ACK_TTL
    BY <1>1, <1>3, <1>10, <2>1, <2>2, Lengths
  <2>4. ASSUME ~f.acksUnavailable, a.key \in DOMAIN lastAck,
               lastAck[a.key] + MaxFlight < f.now, lastAck[a.key] - MaxFlight + ACK_TTL > f.now
        PROVE  a.acknowledgedUntil # NoOne
    <3>1. lastAck[a.key] - MaxFlight >= q.now - ACK_TTL
      BY <1>1, <1>3, <2>2, <2>4, Lengths
    <3>2. a.key \in DOMAIN q.acks.acks /\ lastAck[a.key] - MaxFlight <= q.acks.acks[a.key]
      BY <1>1, <1>3, <2>4, <3>1 DEF AcksRead
    <3>3. q.acks.acks[a.key] + ACK_TTL > q.now
      BY <1>1, <1>3, <2>1, <2>2, <2>4, <3>2, Lengths
    <3> QED
      BY <1>10, <3>2, <3>3
  <2> QED
    BY <2>3, <2>4
<1> QED
  BY <1>3, <1>11, <1>12, <1>13 DEF FeedOK, f

\* A page made of such a feed, asked for within the cache's lifetime of it.
LEMMA PageShown ==
    ASSUME NEW f, NEW at \in Int, FeedOK(f, lastAck), InstantsOK(lastAck), UNCHANGED lastAck,
           at - CACHE_TTL < f.now, f.now <= at, shown' = [feed |-> f, askedAt |-> at]
    PROVE  PageOK'
<1>1. shown'.feed = f /\ shown'.askedAt = at
  OBVIOUS
<1>2. GapsAreShown'
  BY <1>1 DEF GapsAreShown, FeedOK, FeedShowsGaps
<1>3. PagesAreFresh'
  BY <1>1 DEF PagesAreFresh
<1>4. f.now \in Int /\ \A a \in f.alerts : a.acknowledgedUntil \in Int \cup {NoOne}
  BY DEF FeedOK, IsFeed, IsAlert
<1>5. AcksExpire'
  BY <1>1 DEF AcksExpire, FeedOK, FeedShowsAcks
<1>6. AcksAreSeen'
  <2> SUFFICES ASSUME NEW a \in f.alerts, a.key \in DOMAIN lastAck, lastAck[a.key] + MaxFlight <= at - CACHE_TTL,
                      lastAck[a.key] - MaxFlight + ACK_TTL > at, ~f.acksUnavailable
               PROVE  a.acknowledgedUntil # NoOne
    BY <1>1 DEF AcksAreSeen
  <2>1. lastAck[a.key] \in Int
    BY DEF InstantsOK
  <2>2. lastAck[a.key] + MaxFlight < f.now /\ lastAck[a.key] - MaxFlight + ACK_TTL > f.now
    BY <1>4, <2>1, Lengths
  <2> QED
    BY <2>2 DEF FeedOK, FeedShowsAcks
<1> QED
  BY <1>2, <1>3, <1>5, <1>6 DEF PageOK, AcksLastTheirDay

-----------------------------------------------------------------------------
(* The steps *)

LEMMA PortalInit == Init => PortalInv
<1> SUFFICES ASSUME Init PROVE PortalInv
  OBVIOUS
<1>1. DOMAIN Empty = {}
  BY DEF Empty
<1>2. InstantsOK(lastAck) /\ TableOK(acks, lastAck) /\ VerifiedOK
  BY <1>1 DEF Init, InstantsOK, TableOK, VerifiedOK
<1>3. RequestsOK /\ CacheOK
  BY DEF Init, RequestsOK, CacheOK
<1>4. PageOK
  BY DEF Init, PageOK, GapsAreShown, PagesAreFresh, AcksLastTheirDay, AcksExpire, AcksAreSeen
<1> QED
  BY <1>2, <1>3, <1>4 DEF Init, PortalInv

\* No page is shown by the other steps.
LEMMA NoPage == shown' = NoOne => PageOK'
  BY DEF PageOK, GapsAreShown, PagesAreFresh, AcksLastTheirDay, AcksExpire, AcksAreSeen

\* A step that changes the requests only, and one of them at that.
LEMMA OneRequest ==
    ASSUME PortalInv, NEW r \in Readers, NEW q, RequestOK(q, lastAck) \/ q = Idle,
           req' = [req EXCEPT ![r] = q], UNCHANGED <<acks, lastAck>>
    PROVE  /\ InstantsOK(lastAck') /\ TableOK(acks', lastAck') /\ RequestsOK'
  BY DEF PortalInv, RequestsOK

LEMMA CacheKept ==
    ASSUME PortalInv, UNCHANGED <<cache, lastAck>>
    PROVE  CacheOK'
  BY DEF PortalInv, CacheOK

LEMMA VerifiedKept ==
    ASSUME PortalInv, UNCHANGED verified
    PROVE  VerifiedOK'
  BY DEF PortalInv, VerifiedOK

LEMMA OpenStep == ASSUME PortalInv, NEW r \in Readers, Open(r) PROVE PortalInv'
<1>1. CASE cache # NoOne /\ cache.expiresAt > 0
  <2>1. shown' = [feed |-> cache.feed, askedAt |-> 0] /\ UNCHANGED <<req, cache, acks, lastAck, verified>>
    BY <1>1 DEF Open
  <2>2. /\ FeedOK(cache.feed, lastAck) /\ cache.feed.now \in Int /\ cache.feed.now <= 0
        /\ 0 - CACHE_TTL < cache.feed.now /\ InstantsOK(lastAck) /\ UNCHANGED lastAck
    BY <1>1, <2>1, Lengths DEF PortalInv, CacheOK, FeedOK, IsFeed
  <2>3. PageOK'
    BY <2>1, <2>2, PageShown
  <2>4. RequestsOK' /\ InstantsOK(lastAck') /\ TableOK(acks', lastAck')
    BY <2>1 DEF PortalInv, RequestsOK
  <2> QED
    BY <2>1, <2>3, <2>4, CacheKept, VerifiedKept DEF PortalInv
<1>2. CASE ~(cache # NoOne /\ cache.expiresAt > 0)
  <2> DEFINE q == [pc |-> "verify", now |-> 0, checks |-> Empty, ok |-> Empty, throws |-> {}, acks |-> NoOne]
  <2>1. req' = [req EXCEPT ![r] = q] /\ shown' = NoOne /\ UNCHANGED <<cache, acks, lastAck, verified>>
    BY <1>2 DEF Open
  <2>2. RequestOK(q, lastAck)
    <3>1. DOMAIN Empty = {}
      BY DEF Empty
    <3> QED
      BY <3>1, Lengths DEF RequestOK
  <2> HIDE DEF q
  <2>3. RequestsOK' /\ InstantsOK(lastAck') /\ TableOK(acks', lastAck')
    BY <2>1, <2>2, OneRequest
  <2> QED
    BY <2>1, <2>3, CacheKept, VerifiedKept, NoPage DEF PortalInv
<1> QED
  BY <1>1, <1>2

LEMMA VerifyStep ==
    ASSUME PortalInv, NEW r \in Readers, NEW p \in Platform, Verify(r, p) PROVE PortalInv'
<1> DEFINE check == IF p \in DOMAIN verified THEN verified[p]
                    ELSE IF p \in up THEN probedCheck(p, ProbeRow[p]) ELSE unreachableCheck
           checks == Put(req[r].checks, p, check)
           pc == IF DOMAIN checks = Platform THEN "query" ELSE req[r].pc
           q == [pc |-> pc, now |-> req[r].now, checks |-> checks, ok |-> req[r].ok,
                 throws |-> req[r].throws, acks |-> req[r].acks]
<1>1. /\ req[r].pc = "verify" /\ verified' = verifiedAfter(p, check)
      /\ req' = [req EXCEPT ![r].checks = checks, ![r].pc = IF DOMAIN checks = Platform THEN "query" ELSE @]
      /\ shown' = NoOne /\ UNCHANGED <<cache, acks, lastAck>>
  BY DEF Verify
<1>2. RequestOK(req[r], lastAck) /\ DOMAIN req = Readers
  BY <1>1 DEF PortalInv, RequestsOK, Idle
<1>3. check \in {probedCheck(p, ProbeRow[p]), unreachableCheck}
  BY DEF PortalInv, VerifiedOK
<1> HIDE DEF check
<1>4. /\ DOMAIN checks = DOMAIN req[r].checks \cup {p} /\ checks[p] = check
      /\ \A x \in DOMAIN req[r].checks \ {p} : checks[x] = req[r].checks[x]
  BY DEF Put
<1> HIDE DEF checks
<1>5. req' = [req EXCEPT ![r] = [req[r] EXCEPT !.checks = checks, !.pc = pc]]
  BY <1>1, <1>2
<1> HIDE DEF pc
<1>6. [req[r] EXCEPT !.checks = checks, !.pc = pc] = q
  <2> DEFINE old == req[r]
             w == [old EXCEPT !.checks = checks]
  <2>1. old = [pc |-> old.pc, now |-> old.now, checks |-> old.checks, ok |-> old.ok,
               throws |-> old.throws, acks |-> old.acks]
    BY <1>2, Zenon DEF RequestOK
  <2> HIDE DEF old
  <2>2. w = [pc |-> old.pc, now |-> old.now, checks |-> checks, ok |-> old.ok,
             throws |-> old.throws, acks |-> old.acks]
    BY <2>1
  <2>3. [old EXCEPT !.checks = checks, !.pc = pc] = [w EXCEPT !.pc = pc]
    OBVIOUS
  <2> HIDE DEF w
  <2>4. [w EXCEPT !.pc = pc] = [pc |-> pc, now |-> old.now, checks |-> checks, ok |-> old.ok,
                                throws |-> old.throws, acks |-> old.acks]
    BY <2>2
  <2> QED
    BY <2>3, <2>4 DEF old
<1>7. RequestOK(q, lastAck)
  <2>1. pc \in {"verify", "query"} /\ (pc = "query" => DOMAIN checks = Platform)
    BY <1>1 DEF pc
  <2>2. /\ DOMAIN checks \subseteq Platform
        /\ \A x \in DOMAIN checks : checks[x] \in {probedCheck(x, ProbeRow[x]), unreachableCheck}
    BY <1>2, <1>3, <1>4 DEF RequestOK
  <2> QED
    BY <1>2, <2>1, <2>2 DEF RequestOK
<1>8. req' = [req EXCEPT ![r] = q]
  BY <1>5, <1>6
<1> HIDE DEF q
<1>9. RequestsOK' /\ InstantsOK(lastAck') /\ TableOK(acks', lastAck')
  BY <1>1, <1>7, <1>8, OneRequest
<1>10. VerifiedOK'
  <2>1. CASE p \in DOMAIN verified \/ ~check.reachable
    BY <1>1, <2>1 DEF verifiedAfter, PortalInv, VerifiedOK
  <2>2. CASE ~(p \in DOMAIN verified \/ ~check.reachable)
    <3>1. check = probedCheck(p, ProbeRow[p])
      BY <1>3, <2>2 DEF unreachableCheck
    <3>2. /\ DOMAIN verified' = DOMAIN verified \cup {p} /\ verified'[p] = check
          /\ \A x \in DOMAIN verified \ {p} : verified'[x] = verified[x]
      BY <1>1, <2>2 DEF verifiedAfter, Put
    <3> QED
      BY <3>1, <3>2 DEF PortalInv, VerifiedOK
  <2> QED
    BY <2>1, <2>2
<1> QED
  BY <1>1, <1>9, <1>10, CacheKept, NoPage DEF PortalInv

LEMMA QueryStep ==
    ASSUME PortalInv, NEW r \in Readers, NEW p \in Platform, Query(r, p) PROVE PortalInv'
<1> DEFINE old == req[r]
           found == IF p \in Troubled THEN {raise("past_due", p, Store)} ELSE {}
           ok == Put(old.ok, p, found)
           throws == old.throws \cup {p}
           asked == [pc |-> old.pc, now |-> old.now, checks |-> old.checks, ok |-> ok,
                     throws |-> old.throws, acks |-> old.acks]
           failed == [pc |-> old.pc, now |-> old.now, checks |-> old.checks, ok |-> old.ok,
                      throws |-> throws, acks |-> old.acks]
<1>1. /\ old.pc = "query" /\ shown' = NoOne /\ UNCHANGED <<verified, cache, acks, lastAck>>
      /\ req' = IF p \in up THEN [req EXCEPT ![r].ok = Put(@, p, found)]
                ELSE [req EXCEPT ![r].throws = @ \cup {p}]
  BY DEF Query
<1>2. RequestOK(old, lastAck) /\ DOMAIN req = Readers
  BY <1>1 DEF PortalInv, RequestsOK, Idle
<1>3. req' = [req EXCEPT ![r] = IF p \in up THEN [old EXCEPT !.ok = ok] ELSE [old EXCEPT !.throws = throws]]
  BY <1>1, <1>2
<1>4. /\ DOMAIN ok = DOMAIN old.ok \cup {p} /\ ok[p] = found
      /\ \A x \in DOMAIN old.ok \ {p} : ok[x] = old.ok[x]
  BY DEF Put
<1>5. found \subseteq {raise("past_due", p, Store)}
  OBVIOUS
<1> HIDE DEF old, found, ok, throws
<1>6. [old EXCEPT !.ok = ok] = asked
  BY <1>2 DEF RequestOK
<1>7. [old EXCEPT !.throws = throws] = failed
  BY <1>2 DEF RequestOK
<1>8. RequestOK(asked, lastAck)
  <2>1. \A x \in DOMAIN ok : ok[x] \subseteq {raise("past_due", x, Store)}
    BY <1>2, <1>4, <1>5 DEF RequestOK
  <2> QED
    BY <1>2, <2>1 DEF RequestOK
<1>9. RequestOK(failed, lastAck)
  BY <1>2 DEF RequestOK
<1> HIDE DEF asked, failed
<1>10. req' = [req EXCEPT ![r] = IF p \in up THEN asked ELSE failed]
  BY <1>3, <1>6, <1>7
<1> DEFINE q == IF p \in up THEN asked ELSE failed
<1>11. RequestOK(q, lastAck)
  BY <1>8, <1>9
<1> HIDE DEF q
<1>12. RequestsOK' /\ InstantsOK(lastAck') /\ TableOK(acks', lastAck')
  BY <1>1, <1>10, <1>11, OneRequest DEF q
<1> QED
  BY <1>1, <1>12, CacheKept, VerifiedKept, NoPage DEF PortalInv

\* What activeAcks leaves out is older than any page the request may make.
LEMMA ReadAcksStep ==
    ASSUME PortalInv, NEW r \in Readers, NEW answers \in BOOLEAN, ReadAcks(r, answers)
    PROVE  PortalInv'
<1> DEFINE old == req[r]
           active == activeAcks(old.now)
           got == readAcks(answers, active)
           q == [pc |-> old.pc, now |-> old.now, checks |-> old.checks, ok |-> old.ok,
                 throws |-> old.throws, acks |-> got]
<1>1. /\ old.pc \in {"verify", "query"} /\ shown' = NoOne /\ UNCHANGED <<verified, cache, acks, lastAck>>
      /\ req' = [req EXCEPT ![r].acks = got]
  BY DEF ReadAcks
<1>2. RequestOK(old, lastAck) /\ DOMAIN req = Readers /\ InstantsOK(lastAck) /\ TableOK(acks, lastAck)
  BY <1>1 DEF PortalInv, RequestsOK, Idle
<1>3. req' = [req EXCEPT ![r] = [old EXCEPT !.acks = got]]
  BY <1>1, <1>2
<1>4. /\ old.now \in Int
      /\ DOMAIN active = {k \in DOMAIN acks : acks[k] >= old.now - ACK_TTL}
      /\ \A k \in DOMAIN active : active[k] = acks[k]
  BY <1>2 DEF activeAcks, RequestOK
<1> HIDE DEF active, old
<1>5. AcksRead(got, old.now, lastAck)
  <2>1. CASE answers
    <3>1. got = [acks |-> active, failed |-> FALSE]
      BY <2>1 DEF readAcks
    <3> HIDE DEF got
    <3>2. \A k \in DOMAIN active : /\ k \in DOMAIN lastAck /\ active[k] \in Int
                                   /\ Floor <= active[k] /\ active[k] <= lastAck[k]
      BY <1>2, <1>4 DEF TableOK
    <3>3. ASSUME NEW k \in DOMAIN lastAck, lastAck[k] - MaxFlight >= old.now - ACK_TTL
          PROVE  k \in DOMAIN active /\ lastAck[k] - MaxFlight <= active[k]
      <4>1. /\ k \in DOMAIN acks /\ acks[k] \in Int /\ lastAck[k] \in Int
            /\ lastAck[k] - MaxFlight <= acks[k]
        BY <1>2 DEF TableOK, InstantsOK
      <4>2. acks[k] >= old.now - ACK_TTL
        BY <1>4, <3>3, <4>1, Lengths
      <4> QED
        BY <1>4, <4>1, <4>2
    <3> QED
      BY <3>1, <3>2, <3>3 DEF AcksRead
  <2>2. CASE ~answers
    <3> DEFINE none == [k \in {} |-> 0]
    <3>1. got = [acks |-> none, failed |-> TRUE] /\ DOMAIN none = {}
      BY <2>2 DEF readAcks
    <3> HIDE DEF got, none
    <3> QED
      BY <3>1 DEF AcksRead
  <2> QED
    BY <2>1, <2>2
<1> HIDE DEF got
<1>6. [old EXCEPT !.acks = got] = q
  BY <1>2 DEF RequestOK
<1>7. RequestOK(q, lastAck)
  BY <1>2, <1>5 DEF RequestOK
<1> HIDE DEF q
<1>8. RequestsOK' /\ InstantsOK(lastAck') /\ TableOK(acks', lastAck')
  BY <1>1, <1>3, <1>6, <1>7, OneRequest
<1> QED
  BY <1>1, <1>8, CacheKept, VerifiedKept, NoPage DEF PortalInv

LEMMA FinishStep == ASSUME PortalInv, NEW r \in Readers, Finish(r) PROVE PortalInv'
<1> DEFINE f == FeedOf(r)
           at == req[r].now
<1>1. /\ req[r].pc = "query" /\ req[r].acks # NoOne
      /\ Targets(r) = DOMAIN req[r].ok \cup req[r].throws
      /\ cache' = [feed |-> f, expiresAt |-> at + CACHE_TTL]
      /\ shown' = [feed |-> f, askedAt |-> at]
      /\ req' = [req EXCEPT ![r] = Idle] /\ UNCHANGED <<verified, acks, lastAck>>
  BY DEF Finish, entryOf
<1>2. RequestOK(req[r], lastAck) /\ InstantsOK(lastAck)
  BY <1>1 DEF PortalInv, RequestsOK, Idle
<1>3. FeedOK(f, lastAck) /\ f.now = at
  BY <1>1, <1>2, FinishedFeed
<1>4. at \in Int /\ -MaxFlight <= at /\ at <= 0
  BY <1>2 DEF RequestOK
<1> HIDE DEF f, at
<1>5. at - CACHE_TTL < f.now /\ f.now <= at /\ at + CACHE_TTL > 0
  BY <1>3, <1>4, Lengths
<1>6. PageOK'
  BY <1>1, <1>2, <1>3, <1>4, <1>5, PageShown
<1>7. CacheOK'
  BY <1>1, <1>3, <1>5 DEF CacheOK
<1>8. RequestsOK' /\ InstantsOK(lastAck') /\ TableOK(acks', lastAck')
  BY <1>1, OneRequest
<1> QED
  BY <1>1, <1>6, <1>7, <1>8, VerifiedKept DEF PortalInv

LEMMA AcknowledgeStep ==
    ASSUME PortalInv, NEW k, NEW at \in -MaxFlight .. 0, Acknowledge(k, at)
    PROVE  PortalInv'
<1> DEFINE L == Later(lastAck, k, at)
<1>1. /\ acks' = Put(acks, k, at) /\ lastAck' = L /\ shown' = NoOne
      /\ UNCHANGED <<verified, cache, req>>
  BY DEF Acknowledge, acknowledged, Newest, Later
<1>2. InstantsOK(lastAck) /\ TableOK(acks, lastAck)
  BY DEF PortalInv
<1>3. InstantsOK(lastAck') /\ TableOK(acks', lastAck')
  BY <1>1, <1>2, LaterIs, AckedTable
<1>4. CacheOK'
  <2>1. CASE cache = NoOne
    BY <1>1, <2>1 DEF CacheOK
  <2>2. CASE cache # NoOne
    <3>1. FeedOK(cache.feed, lastAck)
      BY <2>2 DEF PortalInv, CacheOK
    <3>2. FeedOK(cache.feed, L)
      BY <1>2, <3>1, AckedFeed
    <3> QED
      BY <1>1, <3>2 DEF PortalInv, CacheOK
  <2> QED
    BY <2>1, <2>2
<1>5. RequestsOK'
  <2>1. ASSUME NEW r \in Readers, RequestOK(req[r], lastAck) PROVE RequestOK(req[r], L)
    <3>1. CASE req[r].acks = NoOne
      BY <2>1, <3>1 DEF RequestOK
    <3>2. CASE req[r].acks # NoOne
      <4>1. req[r].now \in Int /\ req[r].now <= 0 /\ AcksRead(req[r].acks, req[r].now, lastAck)
        BY <2>1, <3>2 DEF RequestOK
      <4>2. AcksRead(req[r].acks, req[r].now, L)
        BY <1>2, <4>1, AckedRead
      <4> HIDE DEF L
      <4> QED
        BY <2>1, <4>2 DEF RequestOK
    <3> QED
      BY <3>1, <3>2
  <2> HIDE DEF L
  <2> QED
    BY <1>1, <2>1 DEF PortalInv, RequestsOK
<1> HIDE DEF L
<1> QED
  BY <1>1, <1>3, <1>4, <1>5, VerifiedKept, NoPage DEF PortalInv

LEMMA RefreshStep == ASSUME PortalInv, Refresh PROVE PortalInv'
<1>1. cache' = NoOne /\ shown' = NoOne /\ UNCHANGED <<verified, acks, lastAck, req>>
  BY DEF Refresh
<1>2. CacheOK' /\ RequestsOK' /\ InstantsOK(lastAck') /\ TableOK(acks', lastAck')
  BY <1>1 DEF PortalInv, CacheOK, RequestsOK
<1> QED
  BY <1>1, <1>2, VerifiedKept, NoPage DEF PortalInv

LEMMA RestartStep == ASSUME PortalInv, Restart PROVE PortalInv'
<1>1. /\ verified' = Empty /\ cache' = NoOne /\ req' = [r \in Readers |-> Idle] /\ shown' = NoOne
      /\ UNCHANGED <<acks, lastAck>>
  BY DEF Restart
<1>2. VerifiedOK'
  BY <1>1 DEF VerifiedOK, Empty
<1>3. CacheOK' /\ RequestsOK' /\ InstantsOK(lastAck') /\ TableOK(acks', lastAck')
  BY <1>1 DEF PortalInv, CacheOK, RequestsOK
<1> QED
  BY <1>1, <1>2, <1>3, NoPage DEF PortalInv

LEMMA OutageStep ==
    ASSUME PortalInv, shown' = NoOne, UNCHANGED <<verified, cache, acks, lastAck, req>> PROVE PortalInv'
<1>1. RequestsOK' /\ InstantsOK(lastAck') /\ TableOK(acks', lastAck')
  BY DEF PortalInv, RequestsOK
<1> QED
  BY <1>1, CacheKept, VerifiedKept, NoPage DEF PortalInv

LEMMA TickStep == ASSUME PortalInv, Tick PROVE PortalInv'
<1> DEFINE L == OlderMap(lastAck)
<1>1. /\ \A r \in Readers : req[r].pc # "idle" => req[r].now > -MaxFlight
      /\ cache' = IF cache = NoOne \/ cache.expiresAt <= 1 THEN NoOne
                  ELSE [feed |-> OlderFeed(cache.feed), expiresAt |-> cache.expiresAt - 1]
      /\ acks' = OlderMap(acks) /\ lastAck' = L /\ shown' = NoOne /\ UNCHANGED verified
      /\ req' = [r \in Readers |-> OlderReq(req[r])]
  BY DEF Tick, PortalInv
<1>2. InstantsOK(lastAck) /\ TableOK(acks, lastAck)
  BY DEF PortalInv
<1>3. InstantsOK(lastAck') /\ TableOK(acks', lastAck')
  BY <1>1, <1>2, OlderInstants, OlderTable
<1>4. CacheOK'
  <2>1. CASE cache = NoOne \/ cache.expiresAt <= 1
    BY <1>1, <2>1 DEF CacheOK
  <2>2. CASE ~(cache = NoOne \/ cache.expiresAt <= 1)
    <3> DEFINE g == OlderFeed(cache.feed)
    <3>1. /\ FeedOK(cache.feed, lastAck) /\ cache.feed.now \in Int
          /\ cache.expiresAt = cache.feed.now + CACHE_TTL
      BY <2>2 DEF PortalInv, CacheOK, FeedOK, IsFeed
    <3>2. cache.feed.now + CACHE_TTL > 1
      BY <2>2, <3>1, Lengths
    <3>3. FeedOK(g, L) /\ g.now = cache.feed.now - 1
      BY <1>2, <3>1, <3>2, OlderFeedOK
    <3>4. cache' = [feed |-> g, expiresAt |-> cache.expiresAt - 1]
      BY <1>1, <2>2
    <3> HIDE DEF g, L
    <3>5. cache'.feed = g /\ cache'.expiresAt = g.now + CACHE_TTL /\ cache'.expiresAt > 0
      BY <3>1, <3>2, <3>3, <3>4, Lengths
    <3> QED
      BY <1>1, <3>3, <3>5 DEF CacheOK
  <2> QED
    BY <2>1, <2>2
<1>5. ASSUME NEW r \in Readers PROVE OlderReq(req[r]) = Idle \/ RequestOK(OlderReq(req[r]), L)
  <2>1. CASE req[r] = Idle
    BY <2>1 DEF OlderReq, Idle
  <2>2. CASE req[r] # Idle
    <3> DEFINE old == req[r]
               now == old.now - 1
               got == OlderAcks(old.acks)
               w == [old EXCEPT !.now = now]
               q == [pc |-> old.pc, now |-> now, checks |-> old.checks, ok |-> old.ok,
                     throws |-> old.throws, acks |-> got]
    <3>1. RequestOK(old, lastAck)
      BY <2>2 DEF PortalInv, RequestsOK
    <3>2. old.pc # "idle" /\ old.now \in Int /\ old.now <= 0 /\ -MaxFlight < old.now
      BY <1>1, <3>1 DEF RequestOK
    <3>3. OlderReq(old) = [old EXCEPT !.now = old.now - 1, !.acks = got]
      BY <3>2, Zenon DEF OlderReq
    <3>4. got # NoOne => AcksRead(got, now, L)
      <4>1. CASE old.acks = NoOne
        BY <4>1 DEF OlderAcks
      <4>2. CASE old.acks # NoOne
        <5>1. AcksRead(old.acks, old.now, lastAck)
          BY <3>1, <4>2 DEF RequestOK
        <5>2. AcksRead([old.acks EXCEPT !.acks = OlderMap(@)], old.now - 1, L)
          BY <1>2, <3>2, <5>1, OlderRead
        <5> QED
          BY <4>2, <5>2 DEF OlderAcks
      <4> QED
        BY <4>1, <4>2
    <3>5. now \in Int /\ now <= 0 /\ -MaxFlight <= now
      BY <3>2, Lengths
    <3> HIDE DEF old, now, got, L
    <3>6. OlderReq(old) = [w EXCEPT !.acks = got]
      BY <3>3 DEF now
    <3>7. w = [pc |-> old.pc, now |-> now, checks |-> old.checks, ok |-> old.ok,
               throws |-> old.throws, acks |-> old.acks]
      BY <3>1 DEF RequestOK
    <3> HIDE DEF w
    <3>8. [w EXCEPT !.acks = got] = q
      BY <3>7
    <3>9. RequestOK(q, L)
      BY <3>1, <3>4, <3>5 DEF RequestOK
    <3> QED
      BY <3>6, <3>8, <3>9 DEF old
  <2> QED
    BY <2>1, <2>2
<1> HIDE DEF L
<1>6. RequestsOK'
  BY <1>1, <1>5 DEF RequestsOK
<1> QED
  BY <1>1, <1>3, <1>4, <1>6, VerifiedKept, NoPage DEF PortalInv

LEMMA PortalStep == PortalInv /\ [Next]_vars => PortalInv'
<1> SUFFICES ASSUME PortalInv, [Next]_vars PROVE PortalInv'
  OBVIOUS
<1>1. ASSUME NEW r \in Readers, Open(r) \/ Step(r) PROVE PortalInv'
  BY <1>1, OpenStep, VerifyStep, QueryStep, ReadAcksStep, FinishStep DEF Step
<1>2. ASSUME NEW k \in Keys, NEW at \in -MaxFlight .. 0, Acknowledge(k, at) PROVE PortalInv'
  BY <1>2, AcknowledgeStep
<1>3. CASE Refresh
  BY <1>3, RefreshStep
<1>4. CASE Restart
  BY <1>4, RestartStep
<1>5. ASSUME NEW p \in Unsteady, Outage(p) PROVE PortalInv'
  BY <1>5, OutageStep DEF Outage
<1>6. CASE Tick
  BY <1>6, TickStep
<1>7. CASE UNCHANGED vars
  <2>1. UNCHANGED <<verified, cache, acks, lastAck, req, shown>>
    BY <1>7 DEF vars
  <2>2. RequestsOK' /\ InstantsOK(lastAck') /\ TableOK(acks', lastAck')
    BY <2>1 DEF PortalInv, RequestsOK
  <2>3. PageOK'
    BY <2>1 DEF PortalInv, PageOK, GapsAreShown, PagesAreFresh, AcksLastTheirDay, AcksExpire, AcksAreSeen
  <2> QED
    BY <2>1, <2>2, <2>3, CacheKept, VerifiedKept DEF PortalInv
<1> QED
  BY <1>1, <1>2, <1>3, <1>4, <1>5, <1>6, <1>7 DEF Next

LEMMA PortalCorrect == Spec => []PortalInv
  BY PortalInit, PortalStep, PTL DEF Spec

\* Whatever platforms are configured and whatever their probes find, however
\* the readers' requests, the outages and the restarts interleave: no page hides
\* a platform that was not read.
THEOREM GapsCorrect == Spec => []GapsAreShown
<1>1. PortalInv => GapsAreShown
  BY DEF PortalInv, PageOK
<1> QED
  BY <1>1, PortalCorrect, PTL

\* For every lifetime of the cache and every bound on a request below it, a page
\* is never older than the lifetime when it is asked for.
THEOREM PagesCorrect == Spec => []PagesAreFresh
<1>1. PortalInv => PagesAreFresh
  BY DEF PortalInv, PageOK
<1> QED
  BY <1>1, PortalCorrect, PTL

\* An acknowledgement silences its alert for its day, for every length of the
\* day and of the cache's lifetime, however the table's reading races the
\* operator's writing, and however many of those writes overlap.
THEOREM AcksCorrect == Spec => []AcksLastTheirDay
<1>1. PortalInv => AcksLastTheirDay
  BY DEF PortalInv, PageOK
<1> QED
  BY <1>1, PortalCorrect, PTL

=============================================================================
