-------------------------- MODULE AuthLimiterProofs --------------------------
(***************************************************************************)
(* For every size and price of the two buckets: the contents of a bucket   *)
(* stay in range, Retry-After is never too short, the eviction of idle     *)
(* buckets forgets nothing, and an address cannot fail more often than its *)
(* tokens allow.                                                           *)
(***************************************************************************)
EXTENDS AuthLimiter, FiniteSetTheorems, TLAPS

\* A full bucket has a token, and an idle one has had time to fill up.
LEMMA BucketSizes ==
  /\ Full \in Nat /\ Full >= IPCost /\ IPCost \in Nat \ {0}
  /\ GlobalFull \in Nat /\ GlobalFull >= GlobalCost /\ GlobalCost \in Nat \ {0}
  /\ IdleEvict \in Nat /\ IdleEvict >= Full + IPCost
<1>1. ASSUME NEW n \in Nat \ {0}, NEW c \in Nat \ {0}
      PROVE  n * c \in Nat /\ n * c >= c
  <2>1. n * c = (n - 1) * c + c
    BY <1>1
  <2>2. (n - 1) * c \in Nat
    BY <1>1
  <2> QED BY <1>1, <2>1, <2>2
<1>2. (IPCap + 1) * IPCost = IPCap * IPCost + IPCost
  BY LimiterAssumption DEF LimiterAssumption
<1> QED BY <1>1, <1>2, LimiterAssumption DEF LimiterAssumption, Full, GlobalFull

\* Refilling keeps a bucket in range, whatever clocks are compared.
LEMMA RefillRange ==
  ASSUME NEW b, NEW full \in Nat, NEW low \in Int, NEW t \in Int,
         b.credit \in low..full, b.seen \in Int
  PROVE  refillTokens(b, full, t) \in low..full /\ refillTokens(b, full, t) \in Int
BY DEF refillTokens, Lower, Higher

\* A bucket read at time s, waiting for w from a later time u on: the wait is
\* credited in full even if others have debited the bucket between s and u.
LEMMA RefillAfter ==
  ASSUME NEW b, NEW full \in Nat, NEW s \in Int, NEW u \in Int, NEW w \in Nat, NEW t \in Int,
         b.credit \in Int, b.seen \in Int, b.seen <= u, s <= u, u + w <= t,
         NEW cost \in Nat, cost <= full, refillTokens(b, full, s) + w >= cost
  PROVE  refillTokens(b, full, t) >= cost
BY DEF refillTokens, Lower, Higher

\* Rounding up to whole seconds never shortens a wait.
LEMMA RoundUpSuffices ==
  ASSUME NEW d \in Nat
  PROVE  RoundUp(d) \in Nat /\ RoundUp(d) >= d
<1>1. Second \in Nat \ {0}
  BY LimiterAssumption DEF LimiterAssumption
<1> DEFINE x == d + Second - 1
           q == x \div Second
<1>2. x \in Nat /\ q \in Nat
  BY <1>1
<1>3. x < (q + 1) * Second
  BY <1>1, <1>2
<1>4. (q + 1) * Second = q * Second + Second /\ q * Second \in Nat
  BY <1>1, <1>2
<1>5. q * Second >= d
  BY <1>1, <1>2, <1>3, <1>4
<1>6. RoundUp(d) = Higher(Second, q * Second)
  BY DEF RoundUp
<1> HIDE DEF q
<1> QED BY <1>1, <1>4, <1>5, <1>6 DEF Higher

-----------------------------------------------------------------------------
\* The bucket that Allowed or RegisterFailure works on is in range.
LEMMA BucketsTyped ==
  ASSUME LimiterTypeOK
  PROVE  /\ clock \in Int /\ global.credit \in (1 - GlobalCost)..GlobalFull
         /\ global.seen \in Int /\ global.seen <= clock
         /\ \A i \in IPs : perIP[i] # NoBucket =>
              /\ perIP[i].credit \in (1 - IPCost)..Full
              /\ perIP[i].seen \in Int /\ perIP[i].seen <= clock
BY LimiterAssumption DEF LimiterAssumption, LimiterTypeOK, BucketOf, LongAgo

\* A debit leaves a bucket in range.
LEMMA DebitRange ==
  ASSUME NEW full \in Nat, NEW cost \in Nat \ {0}, NEW c \in (1 - cost)..full
  PROVE  Debit(c, cost) \in (1 - cost)..full
BY DEF Debit

\* Buckets stay in range and no clock runs ahead, whatever the handlers, the
\* sweep and the clock do in between.
THEOREM LimiterTypeCorrect == LimiterSpec => []LimiterTypeOK
<1>1. LimiterInit => LimiterTypeOK
  <2> SUFFICES ASSUME LimiterInit PROVE LimiterTypeOK
    OBVIOUS
  <2>1. GlobalFull \in (1 - GlobalCost)..GlobalFull /\ MaxTime \in Nat
    BY BucketSizes, LimiterAssumption DEF LimiterAssumption
  <2> HIDE DEF GlobalFull
  <2> QED BY <2>1 DEF LimiterInit, LimiterTypeOK, Places, BucketOf, LongAgo, None
<1>2. LimiterTypeOK /\ [LimiterNext]_limiterVars => LimiterTypeOK'
  <2> SUFFICES ASSUME LimiterTypeOK, [LimiterNext]_limiterVars PROVE LimiterTypeOK'
    OBVIOUS
  <2>0. /\ MaxTime \in Nat /\ clock \in 0..MaxTime
        /\ Full \in Nat /\ IPCost \in Nat \ {0}
        /\ GlobalFull \in Nat /\ GlobalCost \in Nat \ {0}
    BY BucketSizes, LimiterAssumption DEF LimiterAssumption, LimiterTypeOK
  <2> HIDE DEF Full, GlobalFull
  <2>1. CASE LimiterTick
    <3>1. clock' \in 0..MaxTime /\ clock <= clock'
      BY <2>0, <2>1 DEF LimiterTick
    <3>2. /\ BucketOf(Full, IPCost) \subseteq BucketOf(Full, IPCost)'
          /\ BucketOf(GlobalFull, GlobalCost) \subseteq BucketOf(GlobalFull, GlobalCost)'
          /\ 0..clock \subseteq 0..clock'
      BY <2>0, <3>1 DEF BucketOf, LongAgo
    <3> QED BY <2>1, <3>1, <3>2 DEF LimiterTick, limiter, LimiterTypeOK
  <2>2. ASSUME NEW a \in Handlers, NEW from, NEW to,
               to \in {"allowed?", "failing", "refusing"}, ReadClock(a, from, to)
        PROVE  LimiterTypeOK'
    BY <2>0, <2>2 DEF ReadClock, Places, LimiterTypeOK, limiter, BucketOf
  <2>3. ASSUME NEW a \in Handlers, Allowed(a) PROVE LimiterTypeOK'
    <3>1. ip[a] \in IPs /\ now[a] \in LongAgo..clock
      BY <2>0 DEF LimiterTypeOK, LongAgo, None
    <3>2. Bucket(ip[a], now[a]) \in BucketOf(Full, IPCost)
      BY <2>0, <3>1 DEF Bucket, BucketOf, LimiterTypeOK
    <3>3. perIP' \in [IPs -> BucketOf(Full, IPCost) \cup {NoBucket}]
      BY <2>3, <3>1, <3>2 DEF Allowed, LimiterTypeOK
    <3>4. /\ limiterPc' \in [Handlers -> Places]
          /\ now' \in [Handlers -> 0..clock \cup {None}]
      BY <2>3 DEF Allowed, Goto, Places, LimiterTypeOK
    <3> QED BY <2>3, <3>3, <3>4 DEF Allowed, LimiterTypeOK, BucketOf
  <2>4. ASSUME NEW a \in Handlers, NoFailure(a) PROVE LimiterTypeOK'
    BY <2>4 DEF NoFailure, Goto, Places, LimiterTypeOK, limiter, BucketOf
  <2>5. ASSUME NEW a \in Handlers, RegisterFailure(a) PROVE LimiterTypeOK'
    <3> DEFINE i == ip[a]
               t == now[a]
               b == IF perIP[i] = NoBucket THEN [credit |-> Full, seen |-> LongAgo] ELSE perIP[i]
    <3>1. i \in IPs /\ t \in LongAgo..clock /\ t \in Int
      BY <2>0 DEF LimiterTypeOK, LongAgo, None
    <3>2. b.credit \in (1 - IPCost)..Full /\ b.seen \in Int
      BY <2>0, <3>1, BucketsTyped DEF LongAgo
    <3>3. Debit(refillTokens(b, Full, t), IPCost) \in (1 - IPCost)..Full
      <4>1. refillTokens(b, Full, t) \in (1 - IPCost)..Full
        BY <2>0, <3>1, <3>2, RefillRange
      <4> QED BY <2>0, <4>1, DebitRange
    <3>4. Debit(refillTokens(global, GlobalFull, t), GlobalCost) \in (1 - GlobalCost)..GlobalFull
      <4>1. refillTokens(global, GlobalFull, t) \in (1 - GlobalCost)..GlobalFull
        BY <2>0, <3>1, BucketsTyped, RefillRange
      <4> QED BY <2>0, <4>1, DebitRange
    <3>5. global' \in BucketOf(GlobalFull, GlobalCost)
      BY <2>5, <3>1, <3>4 DEF RegisterFailure, BucketOf
    <3>6. perIP' \in [IPs -> BucketOf(Full, IPCost) \cup {NoBucket}]
      BY <2>5, <3>1, <3>3 DEF RegisterFailure, BucketOf, LimiterTypeOK
    <3>7. fails' \in [IPs -> Nat]
      BY <2>5, <3>1 DEF RegisterFailure, LimiterTypeOK
    <3>8. lag' \in [IPs -> Nat]
      <4>1. clock - t \in Nat
        BY <2>0, <3>1 DEF LongAgo
      <4>2. lag' = [lag EXCEPT ![i] = @ + (clock - t)]
        BY <2>5 DEF RegisterFailure
      <4> QED BY <3>1, <4>1, <4>2 DEF LimiterTypeOK
    <3>9. /\ limiterPc' \in [Handlers -> Places]
          /\ now' \in [Handlers -> 0..clock \cup {None}]
          /\ promise' \in [Handlers -> Nat \cup {None}]
          /\ UNCHANGED <<clock, ip, limiterSweep>>
      BY <2>5, Zenon DEF RegisterFailure, Goto, Places, LimiterTypeOK
    <3> QED BY <3>5, <3>6, <3>7, <3>8, <3>9 DEF LimiterTypeOK, BucketOf
  <2>6. ASSUME NEW a \in Handlers, Refuse(a) PROVE LimiterTypeOK'
    <3>1. RetryAfter(ip[a], now[a]) \in Nat
      <4>1. ip[a] \in IPs /\ now[a] \in Int
        BY <2>0 DEF LimiterTypeOK, None
      <4>2. Bucket(ip[a], now[a]).credit \in (1 - IPCost)..Full /\ Bucket(ip[a], now[a]).seen \in Int
        BY <2>0, <4>1, BucketsTyped DEF Bucket
      <4>3. /\ refillTokens(Bucket(ip[a], now[a]), Full, now[a]) \in Int
            /\ refillTokens(global, GlobalFull, now[a]) \in Int
        BY <2>0, <4>1, <4>2, BucketsTyped, RefillRange
      <4>4. Higher(Higher(0, GlobalCost - refillTokens(global, GlobalFull, now[a])),
                   Higher(0, IPCost - refillTokens(Bucket(ip[a], now[a]), Full, now[a]))) \in Nat
        BY <2>0, <4>3 DEF Higher
      <4> QED BY <4>4, RoundUpSuffices DEF RetryAfter
    <3>2. promise' \in [Handlers -> Nat \cup {None}]
      <4>1. clock + RetryAfter(ip[a], now[a]) \in Nat
        BY <2>0, <3>1
      <4> QED BY <2>6, <4>1 DEF Refuse, LimiterTypeOK
    <3>3. /\ limiterPc' \in [Handlers -> Places]
          /\ now' \in [Handlers -> 0..clock \cup {None}]
      BY <2>6 DEF Refuse, Goto, Places, LimiterTypeOK
    <3> QED BY <2>6, <3>2, <3>3 DEF Refuse, limiter, LimiterTypeOK, BucketOf
  <2>7. CASE LimiterSweepClock
    BY <2>0, <2>7 DEF LimiterSweepClock, LimiterTypeOK, limiter, BucketOf
  <2>8. CASE sweep
    BY <2>0, <2>8 DEF sweep, LimiterTypeOK, BucketOf
  <2>9. CASE UNCHANGED limiterVars
    BY <2>9 DEF limiterVars, LimiterTypeOK, BucketOf
  <2> QED BY <2>1, <2>2, <2>3, <2>4, <2>5, <2>6, <2>7, <2>8, <2>9 DEF LimiterNext
<1> QED BY <1>1, <1>2, PTL DEF LimiterSpec

-----------------------------------------------------------------------------
\* Evicting an idle bucket forgets nothing: the time it was idle for has filled it
\* up, even from the deepest debit.
THEOREM EvictionHarmless == LimiterSpec => EvictionForgetsNothing
<1>1. ASSUME LimiterTypeOK, [LimiterNext]_limiterVars, NEW i \in IPs, perIP[i] # NoBucket, perIP'[i] = NoBucket
      PROVE  refillTokens(perIP[i], Full, clock) = Full
  <2>1. sweep
    <3>1. ASSUME NEW a \in Handlers, Allowed(a) PROVE FALSE
      <4>1. ip[a] \in IPs
        BY <1>1 DEF LimiterTypeOK
      <4>2. CASE ip[a] = i
        <5>1. Bucket(ip[a], now[a]) = perIP[i]
          BY <1>1, <4>2 DEF Bucket
        <5> QED BY <1>1, <3>1, <4>1, <4>2, <5>1 DEF Allowed, LimiterTypeOK
      <4>3. CASE ip[a] # i
        BY <1>1, <3>1, <4>1, <4>3 DEF Allowed, LimiterTypeOK
      <4> QED BY <4>2, <4>3
    <3>2. ASSUME NEW a \in Handlers, RegisterFailure(a) PROVE FALSE
      <4>1. ip[a] \in IPs /\ now[a] # -2
        BY <1>1 DEF LimiterTypeOK, None
      <4>2. \E c : perIP' = [perIP EXCEPT ![ip[a]] = [credit |-> c, seen |-> now[a]]]
        BY <3>2, Zenon DEF RegisterFailure
      <4> QED BY <1>1, <4>1, <4>2 DEF LimiterTypeOK, NoBucket
    <3> QED BY <1>1, <3>1, <3>2 DEF LimiterNext, limiterVars, limiter, LimiterTick, ReadClock, NoFailure, Refuse,
                                    LimiterSweepClock
  <2>2. Idle(perIP[i])
    BY <1>1, <2>1 DEF sweep
  <2>3. limiterSweep \in Int /\ limiterSweep <= clock /\ limiterSweep - perIP[i].seen > IdleEvict
    BY <1>1, <2>1, <2>2 DEF sweep, Idle, LimiterTypeOK
  <2>4. /\ perIP[i].credit \in (1 - IPCost)..Full
        /\ perIP[i].seen \in Int /\ clock \in Int
    BY <1>1, BucketsTyped
  <2> QED BY <2>3, <2>4, BucketSizes DEF refillTokens, Lower, Higher
<1>2. LimiterTypeOK /\ [LimiterNext]_limiterVars =>
        \A i \in IPs : perIP[i] # NoBucket /\ perIP'[i] = NoBucket =>
                        refillTokens(perIP[i], Full, clock) = Full
  BY <1>1
<1> QED BY <1>2, LimiterTypeCorrect, PTL DEF LimiterSpec, EvictionForgetsNothing

-----------------------------------------------------------------------------
\* A promise made by Retry-After is good from the time it names on.
PromisesGood ==
  \A a \in Handlers : promise[a] # None =>
    \A t \in Int : t >= promise[a] => AllowedAt(ip[a], t)

\* Once a token is there it stays there while nobody fails.
LEMMA FullIsAllowed ==
  ASSUME NEW t \in Int, NEW u \in Int
  PROVE  refillTokens([credit |-> Full, seen |-> u], Full, t) >= IPCost
BY BucketSizes DEF refillTokens, Lower, Higher

\* The answer 429 promises enough: the wait covers what either bucket lacks.
LEMMA PromiseSuffices ==
  ASSUME LimiterTypeOK, NEW i \in IPs, NEW s \in Int, s <= clock, NEW t \in Int,
         t >= clock + RetryAfter(i, s)
  PROVE  AllowedAt(i, t)
<1> DEFINE g == refillTokens(global, GlobalFull, s)
           p == refillTokens(Bucket(i, s), Full, s)
           w == RetryAfter(i, s)
<1>1. /\ clock \in Int
      /\ Bucket(i, s).credit \in (1 - IPCost)..Full
      /\ Bucket(i, s).seen \in Int /\ Bucket(i, s).seen <= clock
  BY BucketsTyped, BucketSizes DEF Bucket
<1>2. g \in Int /\ p \in Int
  BY <1>1, BucketsTyped, BucketSizes, RefillRange
<1>3. w \in Nat /\ w >= GlobalCost - g /\ w >= IPCost - p
  <2>1. RetryAfter(i, s) = RoundUp(Higher(Higher(0, GlobalCost - g), Higher(0, IPCost - p)))
    BY DEF RetryAfter
  <2> HIDE DEF g, p
  <2>2. LET d == Higher(Higher(0, GlobalCost - g), Higher(0, IPCost - p))
        IN  d \in Nat /\ d >= GlobalCost - g /\ d >= IPCost - p
    BY <1>2, BucketSizes DEF Higher
  <2> QED BY <1>2, <2>1, <2>2, BucketSizes, RoundUpSuffices
<1>4. refillTokens(global, GlobalFull, t) >= GlobalCost
  <2>1. g + w >= GlobalCost
    BY <1>2, <1>3, BucketSizes
  <2> QED BY <1>1, <1>3, <2>1, BucketsTyped, BucketSizes, RefillAfter
<1>5. refillTokens(Bucket(i, s), Full, t) >= IPCost
  <2>1. p + w >= IPCost
    BY <1>2, <1>3, BucketSizes
  <2> QED BY <1>1, <1>3, <2>1, BucketSizes, RefillAfter
<1>6. refillTokens(Bucket(i, t), Full, t) >= IPCost
  BY <1>5, FullIsAllowed DEF Bucket
<1> QED BY <1>4, <1>6 DEF AllowedAt

\* A client that waits as long as Retry-After said is let in unless somebody has
\* failed meanwhile, for every configuration of the buckets.
THEOREM RetryAfterIsEnough == LimiterSpec => []RetryAfterSuffices
<1>1. LimiterInit => PromisesGood
  BY DEF LimiterInit, PromisesGood
<1>2. LimiterTypeOK /\ PromisesGood /\ [LimiterNext]_limiterVars => PromisesGood'
  <2> SUFFICES ASSUME LimiterTypeOK, PromisesGood, [LimiterNext]_limiterVars PROVE PromisesGood'
    OBVIOUS
  <2>0. ip \in [Handlers -> IPs] /\ \A a \in Handlers : now[a] \in Int /\ now[a] <= clock
    BY LimiterAssumption DEF LimiterAssumption, LimiterTypeOK, None
  <2>1. ASSUME UNCHANGED <<perIP, global, ip, promise>> PROVE PromisesGood'
    BY <2>1 DEF PromisesGood, AllowedAt, Bucket
  <2>2. ASSUME UNCHANGED <<global, ip, promise>>,
               \A i \in IPs : \/ perIP'[i] = perIP[i]
                              \/ perIP'[i] = NoBucket
                              \/ \E u \in Int : perIP'[i] = [credit |-> Full, seen |-> u]
        PROVE  PromisesGood'
    <3> SUFFICES ASSUME NEW a \in Handlers, promise[a] # None, NEW t \in Int, t >= promise[a]
                 PROVE  AllowedAt(ip[a], t)'
      BY <2>2, Zenon DEF PromisesGood
    <3>1. /\ refillTokens(global, GlobalFull, t) >= GlobalCost
          /\ refillTokens(Bucket(ip[a], t), Full, t) >= IPCost
      BY DEF PromisesGood, AllowedAt
    <3>2. ip[a] \in IPs
      BY <2>0
    <3>3. refillTokens(Bucket(ip[a], t)', Full, t) >= IPCost
      BY <2>2, <3>1, <3>2, FullIsAllowed, Zenon DEF Bucket
    <3> QED BY <2>2, <3>1, <3>3 DEF AllowedAt, refillTokens, Bucket
  <2>3. ASSUME NEW a \in Handlers, Allowed(a) PROVE PromisesGood'
    <3>1. \A i \in IPs : \/ perIP'[i] = perIP[i]
                         \/ \E u \in Int : perIP'[i] = [credit |-> Full, seen |-> u]
      BY <2>0, <2>3 DEF Allowed, Bucket, LimiterTypeOK
    <3> QED BY <2>2, <2>3, <3>1, Zenon DEF Allowed
  <2>4. ASSUME NEW a \in Handlers, RegisterFailure(a) PROVE PromisesGood'
    <3>1. \A c \in Handlers : promise'[c] = None
      BY <2>4 DEF RegisterFailure
    <3> QED BY <3>1 DEF PromisesGood
  <2>5. ASSUME NEW a \in Handlers, Refuse(a) PROVE PromisesGood'
    <3>1. /\ promise' = [promise EXCEPT ![a] = clock + RetryAfter(ip[a], now[a])]
          /\ UNCHANGED <<perIP, global, ip>>
      BY <2>5 DEF Refuse, limiter
    <3>2. \A t \in Int : t >= clock + RetryAfter(ip[a], now[a]) => AllowedAt(ip[a], t)
      BY <2>0, PromiseSuffices
    <3>3. ASSUME NEW c \in Handlers, promise'[c] # None, NEW t \in Int, t >= promise'[c]
          PROVE  AllowedAt(ip[c], t)
      <4>1. CASE c = a
        BY <3>1, <3>2, <3>3, <4>1 DEF LimiterTypeOK
      <4>2. CASE c # a
        BY <3>1, <3>3, <4>2 DEF PromisesGood, LimiterTypeOK
      <4> QED BY <4>1, <4>2
    <3>4. ASSUME NEW c \in Handlers, NEW t \in Int, AllowedAt(ip[c], t)
          PROVE  AllowedAt(ip[c], t)'
      BY <3>1, <3>4 DEF AllowedAt, Bucket, refillTokens
    <3> QED BY <3>3, <3>4 DEF PromisesGood
  <2>6. CASE sweep
    <3>1. \A i \in IPs : perIP'[i] = perIP[i] \/ perIP'[i] = NoBucket
      BY <2>6 DEF sweep
    <3> QED BY <2>2, <2>6, <3>1, Zenon DEF sweep
  <2>7. CASE LimiterTick \/ LimiterSweepClock \/ UNCHANGED limiterVars
    BY <2>1, <2>7 DEF LimiterTick, LimiterSweepClock, limiterVars, limiter
  <2>8. ASSUME NEW a \in Handlers, NoFailure(a) PROVE PromisesGood'
    BY <2>1, <2>8 DEF NoFailure, limiter
  <2>9. ASSUME NEW a \in Handlers, NEW from, NEW to, ReadClock(a, from, to)
        PROVE  PromisesGood'
    BY <2>1, <2>9 DEF ReadClock, limiter
  <2> QED BY <2>3, <2>4, <2>5, <2>6, <2>7, <2>8, <2>9 DEF LimiterNext
<1>3. LimiterTypeOK /\ PromisesGood => RetryAfterSuffices
  <2> SUFFICES ASSUME LimiterTypeOK, PromisesGood, NEW a \in Handlers, promise[a] # None
               PROVE  AllowedAt(ip[a], Higher(clock, promise[a]))
    BY DEF RetryAfterSuffices
  <2>1. promise[a] \in Int /\ clock \in Int
    BY DEF LimiterTypeOK
  <2>2. Higher(clock, promise[a]) \in Int /\ Higher(clock, promise[a]) >= promise[a]
    BY <2>1 DEF Higher
  <2> QED BY <2>2 DEF PromisesGood
<1> QED BY <1>1, <1>2, <1>3, LimiterTypeCorrect, PTL DEF LimiterSpec

\* What the bucket of an address holds at the present time.
Credit(i) == refillTokens(Bucket(i, clock), Full, clock)

\* What has been taken from it or has run over, in ticks, with the lag of late
\* failures on top.
Spent(i) == Full + clock + lag[i] - Higher(0, Credit(i))

\* The handlers that Allowed has let in and that may yet fail.
Inside(i) == {h \in Handlers : ip[h] = i /\ limiterPc[h] \in {"authenticate", "failing"}}

\* Those whose failures are paid for already: once there is no token left nobody
\* follows them.
Owing(i) == IF Credit(i) < IPCost THEN Inside(i) ELSE {}

\* Each token taken from the bucket stands for at most one failure of each handler.
Paid(i) == fails[i] + Cardinality(Owing(i)) <= Cardinality(Handlers) * (Spent(i) \div IPCost)

\* A failure takes no more from a bucket than was in it, and a whole token where
\* there is one, even when it is registered late.
LEMMA FailureSpends ==
  ASSUME NEW b, NEW full \in Nat, NEW cost \in Nat \ {0}, cost <= full,
         b.credit \in (1 - cost)..full, NEW k \in Int, b.seen \in Int, b.seen <= k,
         NEW t \in Int, t <= k,
         NEW d, d.credit = Debit(refillTokens(b, full, t), cost), d.seen = t
  PROVE  LET v == refillTokens(b, full, k)
             w == refillTokens(d, full, k)
         IN  /\ (k - t) - Higher(0, w) >= -Higher(0, v)
             /\ v >= cost => (k - t) - Higher(0, w) >= cost - Higher(0, v)
<1> DEFINE c == b.credit
           s == b.seen
           e == d.credit
           r == Lower(full, c + Higher(0, t - s))
           v == Lower(full, c + Higher(0, k - s))
           w == Lower(full, e + (k - t))
<1>1. c \in Int /\ s \in Int /\ c >= 1 - cost /\ c <= full
  OBVIOUS
<1>2. r \in Int /\ v \in Int /\ r <= v /\ v <= full
  BY <1>1 DEF Lower, Higher
<1>3. e = (IF r > 0 THEN r - cost ELSE r) /\ e \in Int
  BY <1>2 DEF Debit, refillTokens
<1>4. refillTokens(b, full, k) = v /\ refillTokens(d, full, k) = w
  BY <1>3 DEF refillTokens, Higher
<1>5. w \in Int /\ w <= e + (k - t)
  BY <1>3 DEF Lower
<1> HIDE DEF c, s, e, r, v, w
<1>6. /\ (k - t) - Higher(0, w) >= -Higher(0, v)
      /\ v >= cost => (k - t) - Higher(0, w) >= cost - Higher(0, v)
  BY <1>2, <1>3, <1>5 DEF Higher
<1> QED BY <1>4, <1>6

\* More spent pays for more failures, and a token for one of every handler.
LEMMA TokenPays ==
  ASSUME NEW n \in Nat, NEW cost \in Nat \ {0}, NEW x \in Int, NEW y \in Int, x <= y
  PROVE  /\ n * (x \div cost) \in Int /\ n * (y \div cost) \in Int
         /\ n * (x \div cost) <= n * (y \div cost)
         /\ y >= x + cost => n * (x \div cost) + n <= n * (y \div cost)
<1> DEFINE q == x \div cost
           p == y \div cost
<1>1. q \in Int /\ p \in Int /\ q * cost <= x /\ x < (q + 1) * cost /\ p * cost <= y /\ y < (p + 1) * cost
  OBVIOUS
<1>2. (q + 1) * cost = q * cost + cost /\ (p + 1) * cost = p * cost + cost
  BY <1>1
<1> HIDE DEF p, q
<1>3. ASSUME NEW d \in Nat, q * cost + d * cost <= y PROVE p >= q + d
  <2> SUFFICES ASSUME p + 1 <= q + d PROVE FALSE
    BY <1>1
  <2>1. (q + d) - (p + 1) \in Nat
    BY <1>1
  <2>2. ((q + d) - (p + 1)) * cost \in Nat
    BY <2>1
  <2>3. ((q + d) - (p + 1)) * cost = q * cost + d * cost - (p + 1) * cost
    BY <1>1
  <2> QED BY <1>1, <1>3, <2>2, <2>3
<1>4. p >= q
  BY <1>1, <1>3
<1>5. y >= x + cost => p >= q + 1
  BY <1>1, <1>3
<1>6. ASSUME NEW d \in Int, p >= q + d PROVE n * q + n * d <= n * p
  <2>1. p - (q + d) \in Nat
    BY <1>1, <1>6
  <2>2. n * (p - (q + d)) \in Nat
    BY <2>1
  <2>3. n * (p - (q + d)) = n * p - (n * q + n * d)
    BY <1>1
  <2> QED BY <1>1, <2>2, <2>3
<1>7. n * q \in Int /\ n * p \in Int
  BY <1>1
<1>8. n * q <= n * p
  <2>1. n * q + n * 0 <= n * p
    BY <1>1, <1>4, <1>6
  <2> QED BY <1>7, <2>1
<1>9. y >= x + cost => n * q + n <= n * p
  BY <1>1, <1>5, <1>6, <1>7
<1> QED BY <1>7, <1>8, <1>9 DEF p, q

\* Whole tokens count one by one.
LEMMA WholeTokens ==
  ASSUME NEW m \in Nat, NEW cost \in Nat \ {0}, NEW x \in Nat
  PROVE  (m * cost + x) \div cost = m + x \div cost
<1> DEFINE q == x \div cost
           p == (m * cost + x) \div cost
<1>1. m * cost \in Nat /\ q \in Nat /\ q * cost <= x /\ x < (q + 1) * cost
  OBVIOUS
<1>2. p \in Nat /\ p * cost <= m * cost + x /\ m * cost + x < (p + 1) * cost
  BY <1>1
<1> HIDE DEF p, q
<1>3. /\ (m + q) * cost = m * cost + q * cost
      /\ (m + q + 1) * cost = m * cost + (q + 1) * cost
  BY <1>1
<1>4. ASSUME NEW u \in Nat, NEW v \in Nat, u * cost < v * cost PROVE u < v
  <2> SUFFICES ASSUME u >= v PROVE FALSE
    BY <1>4
  <2>1. (u - v) * cost \in Nat /\ (u - v) * cost = u * cost - v * cost
    BY <1>4
  <2> QED BY <1>4, <2>1
<1>5. p < m + q + 1
  <2>1. p * cost < (m + q + 1) * cost
    BY <1>1, <1>2, <1>3
  <2> QED BY <1>1, <1>2, <1>4, <2>1
<1>6. m + q < p + 1
  <2>1. (m + q) * cost < (p + 1) * cost
    BY <1>1, <1>2, <1>3
  <2> QED BY <1>1, <1>2, <1>4, <2>1
<1>7. p = m + q
  BY <1>1, <1>2, <1>5, <1>6
<1> QED BY <1>7 DEF p, q

\* An evicted bucket was full again.
LEMMA EvictedFull ==
  ASSUME LimiterTypeOK, sweep, NEW i \in IPs, perIP[i] # NoBucket, perIP'[i] = NoBucket
  PROVE  refillTokens(perIP[i], Full, clock) = Full
<1>1. Idle(perIP[i])
  BY DEF sweep
<1>2. limiterSweep \in Int /\ limiterSweep <= clock /\ limiterSweep - perIP[i].seen > IdleEvict
  BY <1>1 DEF sweep, Idle, LimiterTypeOK
<1>3. /\ perIP[i].credit \in (1 - IPCost)..Full
      /\ perIP[i].seen \in Int /\ clock \in Int
  BY BucketsTyped
<1> QED BY <1>2, <1>3, BucketSizes DEF refillTokens, Lower, Higher

\* Nothing is owed that was not before, and nothing is given back.
LEMMA PaidKeeps ==
  ASSUME LimiterTypeOK, LimiterTypeOK', NEW i \in IPs, Paid(i),
         fails'[i] = fails[i], Owing(i)' \subseteq Owing(i),
         Spent(i) \in Int, Spent(i)' \in Int, Spent(i) <= Spent(i)'
  PROVE  Paid(i)'
<1>1. IsFiniteSet(Handlers) /\ IPCost \in Nat \ {0} /\ fails[i] \in Nat
  BY LimiterAssumption DEF LimiterAssumption, LimiterTypeOK
<1>2. IsFiniteSet(Owing(i)) /\ Cardinality(Handlers) \in Nat
  BY <1>1, FS_Subset, FS_CardinalityType DEF Owing, Inside
<1>3. /\ Cardinality(Owing(i)) \in Nat /\ Cardinality(Owing(i)') \in Nat
      /\ Cardinality(Owing(i)') <= Cardinality(Owing(i))
  BY <1>2, FS_Subset, FS_CardinalityType
<1> DEFINE n == Cardinality(Handlers)
<1>4. /\ n * (Spent(i) \div IPCost) \in Int /\ n * (Spent(i)' \div IPCost) \in Int
      /\ n * (Spent(i) \div IPCost) <= n * (Spent(i)' \div IPCost)
  BY <1>1, <1>2, TokenPays
<1>5. Paid(i)' <=> fails'[i] + Cardinality(Owing(i)') <= n * (Spent(i)' \div IPCost)
  BY DEF Paid
<1>6. fails[i] + Cardinality(Owing(i)) <= n * (Spent(i) \div IPCost)
  BY DEF Paid
<1> HIDE DEF n
<1> QED BY <1>1, <1>3, <1>4, <1>5, <1>6

\* The types of what a bucket holds and has spent.
LEMMA SpentTyped ==
  ASSUME LimiterTypeOK, NEW i \in IPs
  PROVE  /\ Bucket(i, clock).credit \in (1 - IPCost)..Full
         /\ Bucket(i, clock).seen \in Int /\ Bucket(i, clock).seen <= clock
         /\ Credit(i) \in (1 - IPCost)..Full /\ Credit(i) \in Int
         /\ Spent(i) \in Int /\ lag[i] \in Nat /\ clock \in Int
<1>1. /\ Bucket(i, clock).credit \in (1 - IPCost)..Full
      /\ Bucket(i, clock).seen \in Int /\ Bucket(i, clock).seen <= clock
      /\ clock \in Int
  BY BucketsTyped, BucketSizes DEF Bucket
<1>2. Credit(i) \in (1 - IPCost)..Full /\ Credit(i) \in Int
  BY <1>1, BucketSizes, RefillRange DEF Credit
<1>3. lag[i] \in Nat
  BY DEF LimiterTypeOK
<1> QED BY <1>1, <1>2, <1>3, BucketSizes DEF Spent, Higher

\* Whoever is let in comes while there is a token.
LEMMA PaidCalm ==
  ASSUME LimiterTypeOK, LimiterTypeOK', NEW i \in IPs, Paid(i),
         fails'[i] = fails[i], lag'[i] = lag[i], clock' = clock, Credit(i)' = Credit(i),
         Inside(i)' \subseteq Inside(i) \/ Credit(i) >= IPCost
  PROVE  Paid(i)'
<1>1. Spent(i)' = Spent(i)
  BY DEF Spent
<1>2. Credit(i) \in Int /\ IPCost \in Int /\ Spent(i) \in Int
  BY SpentTyped, BucketSizes
<1>3. Owing(i)' \subseteq Owing(i)
  BY <1>2 DEF Owing
<1> QED BY <1>1, <1>2, <1>3, PaidKeeps

\* The bucket of an unseen address is full.
LEMMA FullCredit ==
  ASSUME NEW s \in Int, NEW t \in Int
  PROVE  refillTokens([credit |-> Full, seen |-> s], Full, t) = Full
BY BucketSizes DEF refillTokens, Lower, Higher

\* In a tick a bucket gains at most a tick.
LEMMA CreditGrows ==
  ASSUME LimiterTypeOK, NEW i \in IPs, clock' = clock + 1, perIP' = perIP
  PROVE  Credit(i)' \in Int /\ Credit(i) <= Credit(i)' /\ Credit(i)' <= Credit(i) + 1
<1>1. CASE perIP[i] = NoBucket
  <2>1. Credit(i)' = refillTokens([credit |-> Full, seen |-> clock + 1], Full, clock + 1)
    BY <1>1, Zenon DEF Credit, Bucket
  <2>2. Credit(i) = refillTokens([credit |-> Full, seen |-> clock], Full, clock)
    BY <1>1, Zenon DEF Credit, Bucket
  <2>3. clock \in Int /\ clock + 1 \in Int
    BY SpentTyped
  <2>4. Credit(i)' = Full /\ Credit(i) = Full
    BY <2>1, <2>2, <2>3, FullCredit, Zenon
  <2> QED BY <2>4, BucketSizes
<1>2. CASE perIP[i] # NoBucket
  <2> DEFINE c == perIP[i].credit
             s == perIP[i].seen
  <2>1. c \in Int /\ s \in Int /\ clock \in Int /\ Full \in Int
    BY <1>2, BucketsTyped, BucketSizes
  <2>2. Bucket(i, clock) = perIP[i] /\ Bucket(i, clock)' = perIP[i]
    BY <1>2, Zenon DEF Bucket
  <2>3. /\ Credit(i) = Lower(Full, c + Higher(0, clock - s))
        /\ Credit(i)' = Lower(Full, c + Higher(0, (clock + 1) - s))
    BY <2>2, Zenon DEF Credit, refillTokens
  <2> HIDE DEF c, s
  <2> QED BY <2>1, <2>3 DEF Lower, Higher
<1> QED BY <1>1, <1>2

\* The fields of a bucket.
LEMMA BucketFields ==
  ASSUME NEW c, NEW s
  PROVE  /\ [credit |-> c, seen |-> s].credit = c /\ [credit |-> c, seen |-> s].seen = s
         /\ s # -2 => [credit |-> c, seen |-> s] # NoBucket
<1>1. NoBucket.seen = -2
  BY DEF NoBucket
<1>2. [credit |-> c, seen |-> s].credit = c /\ [credit |-> c, seen |-> s].seen = s
  OBVIOUS
<1> QED BY <1>1, <1>2, Zenon

\* The bucket that RegisterFailure finds or inserts.
Debited(i) == IF perIP[i] = NoBucket THEN [credit |-> Full, seen |-> LongAgo] ELSE perIP[i]

\* It differs from the one Allowed finds only in a time that does not matter.
LEMMA DebitedTyped ==
  ASSUME LimiterTypeOK, NEW i \in IPs
  PROVE  /\ Debited(i).credit \in (1 - IPCost)..Full
         /\ Debited(i).seen \in Int /\ Debited(i).seen <= clock
         /\ refillTokens(Debited(i), Full, clock) = Credit(i)
<1>1. clock \in Int /\ LongAgo \in Int /\ LongAgo <= clock
  BY LimiterAssumption DEF LimiterAssumption, LimiterTypeOK, LongAgo
<1>2. CASE perIP[i] = NoBucket
  <2>1. Debited(i) = [credit |-> Full, seen |-> LongAgo] /\ Bucket(i, clock) = [credit |-> Full, seen |-> clock]
    BY <1>2, Zenon DEF Debited, Bucket
  <2>2. Debited(i).credit = Full /\ Debited(i).seen = LongAgo
    BY <2>1, BucketFields
  <2>3. refillTokens(Debited(i), Full, clock) = Full /\ Credit(i) = Full
    BY <1>1, <2>1, FullCredit, Zenon DEF Credit
  <2> QED BY <1>1, <2>2, <2>3, BucketSizes
<1>3. CASE perIP[i] # NoBucket
  <2>1. Debited(i) = perIP[i] /\ Bucket(i, clock) = perIP[i]
    BY <1>3, Zenon DEF Debited, Bucket
  <2> QED BY <1>3, <2>1, BucketsTyped, Zenon DEF Credit
<1> QED BY <1>2, <1>3

\* What RegisterFailure does to the address.
LEMMA FailureEffect ==
  ASSUME LimiterTypeOK, NEW a \in Handlers, RegisterFailure(a)
  PROVE  /\ ip[a] \in IPs /\ UNCHANGED <<ip, clock>>
         /\ now[a] \in Int /\ now[a] >= -1 /\ now[a] <= clock /\ clock \in Int
         /\ fails[ip[a]] \in Nat /\ fails'[ip[a]] = fails[ip[a]] + 1
         /\ lag[ip[a]] \in Nat /\ lag'[ip[a]] = lag[ip[a]] + (clock - now[a])
         /\ perIP'[ip[a]].credit = Debit(refillTokens(Debited(ip[a]), Full, now[a]), IPCost)
         /\ perIP'[ip[a]].seen = now[a] /\ perIP'[ip[a]] # NoBucket
<1>1. ip[a] \in IPs /\ fails \in [IPs -> Nat] /\ lag \in [IPs -> Nat] /\ UNCHANGED <<ip, clock>>
  BY Zenon DEF LimiterTypeOK, RegisterFailure
<1>2. clock \in 0..MaxTime /\ now[a] \in 0..clock \cup {None}
  BY Zenon DEF LimiterTypeOK
<1>3. now[a] \in Int /\ now[a] >= -1 /\ now[a] <= clock /\ clock \in Int
  BY <1>2, LimiterAssumption DEF LimiterAssumption, None
<1>4. /\ fails' = [fails EXCEPT ![ip[a]] = fails[ip[a]] + 1]
      /\ lag' = [lag EXCEPT ![ip[a]] = lag[ip[a]] + (clock - now[a])]
  BY Zenon DEF RegisterFailure
<1>5. perIP'[ip[a]] = [credit |-> Debit(refillTokens(Debited(ip[a]), Full, now[a]), IPCost), seen |-> now[a]]
  BY <1>1, Zenon DEF RegisterFailure, Debited, LimiterTypeOK
<1>6. now[a] # -2
  BY <1>3
<1>7. /\ perIP'[ip[a]].credit = Debit(refillTokens(Debited(ip[a]), Full, now[a]), IPCost)
      /\ perIP'[ip[a]].seen = now[a] /\ perIP'[ip[a]] # NoBucket
  <2> DEFINE c == Debit(refillTokens(Debited(ip[a]), Full, now[a]), IPCost)
  <2> HIDE DEF c
  <2>1. perIP'[ip[a]] = [credit |-> c, seen |-> now[a]]
    BY <1>5 DEF c
  <2>2. perIP'[ip[a]].credit = c /\ perIP'[ip[a]].seen = now[a] /\ perIP'[ip[a]] # NoBucket
    BY <1>6, <2>1, BucketFields
  <2> QED BY <2>2 DEF c
<1>8. /\ fails[ip[a]] \in Nat /\ fails'[ip[a]] = fails[ip[a]] + 1
      /\ lag[ip[a]] \in Nat /\ lag'[ip[a]] = lag[ip[a]] + (clock - now[a])
  BY <1>1, <1>4, Zenon
<1> QED BY <1>1, <1>3, <1>7, <1>8, Zenon

\* A failure is paid for when it is registered, or has been before.
LEMMA FailurePaid ==
  ASSUME LimiterTypeOK, LimiterTypeOK', NEW a \in Handlers, RegisterFailure(a), Paid(ip[a])
  PROVE  Paid(ip[a])'
<1> DEFINE i == ip[a]
           t == now[a]
           b == Debited(i)
           d == perIP'[i]
           n == Cardinality(Handlers)
           x == Cardinality(Owing(i))
           y == Cardinality(Owing(i)')
<1>1. i \in IPs /\ i' = i /\ t \in Int /\ t >= -1 /\ t <= clock /\ clock \in Int /\ clock' = clock
  BY FailureEffect, Zenon
<1>2. /\ IsFiniteSet(Handlers) /\ fails[i] \in Nat /\ lag[i] \in Nat
      /\ fails'[i] = fails[i] + 1 /\ lag'[i] = lag[i] + (clock - t)
  BY FailureEffect, LimiterAssumption, Zenon DEF LimiterAssumption
<1>3. b.credit \in (1 - IPCost)..Full /\ b.seen \in Int /\ b.seen <= clock
  BY <1>1, DebitedTyped, Zenon
<1>4. refillTokens(b, Full, clock) = Credit(i)
  BY <1>1, DebitedTyped, Zenon
<1>5. d.credit = Debit(refillTokens(b, Full, t), IPCost) /\ d.seen = t /\ d # NoBucket
  BY FailureEffect, Zenon
<1>6. Credit(i)' = refillTokens(d, Full, clock)
  BY <1>1, <1>5, Zenon DEF Credit, Bucket, refillTokens
<1> HIDE DEF b, d
<1>7. /\ (clock - t) - Higher(0, Credit(i)') >= -Higher(0, Credit(i))
      /\ Credit(i) >= IPCost => (clock - t) - Higher(0, Credit(i)') >= IPCost - Higher(0, Credit(i))
  BY <1>1, <1>3, <1>4, <1>5, <1>6, BucketSizes, FailureSpends, Zenon
<1>8. /\ Spent(i) \in Int /\ Spent(i)' \in Int /\ Credit(i) \in Int /\ Credit(i)' \in Int
      /\ Full \in Nat /\ IPCost \in Nat \ {0}
  <2>1. LimiterTypeOK' /\ i' \in IPs
    BY <1>1
  <2>2. d.credit \in (1 - IPCost)..Full
    <3>1. refillTokens(b, Full, t) \in (1 - IPCost)..Full
      BY <1>1, <1>3, BucketSizes, RefillRange
    <3> QED BY <1>5, <3>1, BucketSizes, DebitRange, Zenon
  <2>3. Credit(i)' \in (1 - IPCost)..Full
    BY <1>1, <1>5, <1>6, <2>2, BucketSizes, RefillRange
  <2>4. Credit(i)' \in Int
    BY <2>3, BucketSizes
  <2>5. Spent(i)' = Full + clock + lag'[i] - Higher(0, Credit(i)')
    BY <1>1, Zenon DEF Spent
  <2>6. lag'[i] \in Int /\ Higher(0, Credit(i)') \in Int
    BY <1>1, <1>2, <2>4 DEF Higher
  <2>7. Spent(i)' \in Int
    BY <1>1, <2>5, <2>6, BucketSizes
  <2> QED BY <1>1, <2>4, <2>7, SpentTyped, BucketSizes, Zenon
<1>9. /\ Spent(i) <= Spent(i)'
      /\ Credit(i) >= IPCost => Spent(i) + IPCost <= Spent(i)'
  <2>1. Spent(i) = Full + clock + lag[i] - Higher(0, Credit(i))
    BY Zenon DEF Spent
  <2>2. Spent(i)' = Full + clock + (lag[i] + (clock - t)) - Higher(0, Credit(i)')
    BY <1>1, <1>2, Zenon DEF Spent
  <2>3. Higher(0, Credit(i)) \in Int /\ Higher(0, Credit(i)') \in Int
    BY <1>8 DEF Higher
  <2>0. lag[i] \in Int
    BY <1>2
  <2> DEFINE u == Higher(0, Credit(i))
             v == Higher(0, Credit(i)')
             l == lag[i]
  <2>4. /\ Spent(i) = Full + clock + l - u /\ Spent(i)' = Full + clock + (l + (clock - t)) - v
        /\ u \in Int /\ v \in Int /\ l \in Int /\ (clock - t) - v >= -u
        /\ Credit(i) >= IPCost => (clock - t) - v >= IPCost - u
    BY <1>7, <2>0, <2>1, <2>2, <2>3, Zenon
  <2> HIDE DEF u, v, l, t
  <2> QED BY <1>1, <1>8, <2>4
<1>10. a \in Inside(i) /\ Inside(i)' \subseteq Inside(i) \ {a}
  BY <1>1, Zenon DEF Inside, RegisterFailure, Goto, LimiterTypeOK
<1>11. IsFiniteSet(Owing(i)) /\ IsFiniteSet(Owing(i)') /\ IsFiniteSet(Handlers \ {a})
  BY <1>2, FS_Subset, Zenon DEF Owing, Inside
<1>12. n \in Nat /\ x \in Nat /\ y \in Nat /\ Cardinality(Handlers \ {a}) = n - 1
  BY <1>2, <1>11, FS_CardinalityType, FS_RemoveElement, Zenon
<1>13. CASE Credit(i) >= IPCost
  <2>1. y <= n - 1
    <3>1. Owing(i)' \subseteq Handlers \ {a}
      BY <1>10 DEF Owing, Inside
    <3> QED BY <1>11, <1>12, <3>1, FS_Subset
  <2>2. n * (Spent(i) \div IPCost) + n <= n * (Spent(i)' \div IPCost)
    BY <1>8, <1>9, <1>12, <1>13, TokenPays, Zenon
  <2>3. n * (Spent(i) \div IPCost) \in Int /\ n * (Spent(i)' \div IPCost) \in Int
    BY <1>8, <1>9, <1>12, TokenPays
  <2>4. fails[i] + x <= n * (Spent(i) \div IPCost)
    BY DEF Paid
  <2>5. Paid(i)' <=> fails'[i] + y <= n * (Spent(i)' \div IPCost)
    BY <1>1 DEF Paid
  <2> HIDE DEF n, x, y
  <2> QED BY <1>2, <1>12, <2>1, <2>2, <2>3, <2>4, <2>5
<1>14. CASE ~(Credit(i) >= IPCost)
  <2>1. y <= x - 1
    <3>1. a \in Owing(i) /\ Owing(i)' \subseteq Owing(i) \ {a}
      BY <1>8, <1>10, <1>14 DEF Owing
    <3>2. IsFiniteSet(Owing(i) \ {a}) /\ Cardinality(Owing(i) \ {a}) = x - 1
      BY <1>11, <3>1, FS_RemoveElement
    <3> QED BY <3>1, <3>2, FS_Subset
  <2>2. n * (Spent(i) \div IPCost) <= n * (Spent(i)' \div IPCost)
    BY <1>8, <1>9, <1>12, TokenPays
  <2>3. n * (Spent(i) \div IPCost) \in Int /\ n * (Spent(i)' \div IPCost) \in Int
    BY <1>8, <1>9, <1>12, TokenPays
  <2>4. fails[i] + x <= n * (Spent(i) \div IPCost)
    BY DEF Paid
  <2>5. Paid(i)' <=> fails'[i] + y <= n * (Spent(i)' \div IPCost)
    BY <1>1 DEF Paid
  <2> HIDE DEF n, x, y
  <2> QED BY <1>2, <1>12, <2>1, <2>2, <2>3, <2>4, <2>5
<1> QED BY <1>13, <1>14

\* The failures of one address are bounded by the tokens it has had, although any
\* number of handlers may have been let in by the same token, clocks are read
\* before the lock, and idle buckets are forgotten.
THEOREM FailuresThrottled == LimiterSpec => []Throttled
<1> DEFINE PaidFor == \A i \in IPs : Paid(i)
<1>1. LimiterInit /\ LimiterTypeOK => PaidFor
  <2> SUFFICES ASSUME LimiterInit, LimiterTypeOK, NEW i \in IPs PROVE Paid(i)
    OBVIOUS
  <2>1. Inside(i) = {} /\ fails[i] = 0 /\ lag[i] = 0 /\ clock = 0
    BY DEF LimiterInit, Inside
  <2>2. Cardinality(Owing(i)) = 0
    BY <2>1, FS_EmptySet DEF Owing
  <2>3. Credit(i) = Full
    BY <2>1, FullCredit DEF LimiterInit, Credit, Bucket
  <2>4. Spent(i) = 0
    BY <2>1, <2>3, BucketSizes DEF Spent, Higher
  <2>5. Cardinality(Handlers) \in Nat /\ IPCost \in Nat \ {0}
    BY FS_CardinalityType, LimiterAssumption DEF LimiterAssumption
  <2>6. 0 \div IPCost = 0
    BY <2>5
  <2> QED BY <2>1, <2>2, <2>4, <2>5, <2>6 DEF Paid
<1>2. LimiterTypeOK /\ LimiterTypeOK' /\ PaidFor /\ [LimiterNext]_limiterVars => PaidFor'
  <2> SUFFICES ASSUME LimiterTypeOK, LimiterTypeOK', PaidFor, [LimiterNext]_limiterVars, NEW i \in IPs
               PROVE  Paid(i)'
    OBVIOUS
  <2>0. Paid(i)
    OBVIOUS
  <2>1. CASE LimiterTick
    <3>1. clock' = clock + 1 /\ UNCHANGED <<perIP, fails, lag, Inside(i)>>
      BY <2>1 DEF LimiterTick, limiter, Inside
    <3>2. /\ Credit(i)' \in Int /\ Credit(i) <= Credit(i)' /\ Credit(i)' <= Credit(i) + 1
      BY <3>1, CreditGrows, Zenon
    <3>3. Spent(i)' \in Int /\ Spent(i) <= Spent(i)'
      <4>1. Spent(i)' = Full + (clock + 1) + lag[i] - Higher(0, Credit(i)')
        BY <3>1 DEF Spent
      <4>2. Spent(i) = Full + clock + lag[i] - Higher(0, Credit(i))
        BY DEF Spent
      <4> QED BY <3>2, <4>1, <4>2, SpentTyped, BucketSizes DEF Higher
    <3>4. Owing(i)' \subseteq Owing(i)
      BY <3>1, <3>2, SpentTyped, BucketSizes DEF Owing
    <3> QED BY <2>0, <3>1, <3>3, <3>4, SpentTyped, PaidKeeps, Zenon
  <2>2. ASSUME NEW a \in Handlers, NEW from, NEW to, ReadClock(a, from, to),
               to = "failing" => from = "authenticate", to # "authenticate"
        PROVE  Paid(i)'
    <3>1. UNCHANGED <<clock, perIP, fails, lag>>
      BY <2>2 DEF ReadClock, limiter
    <3>2. Inside(i)' \subseteq Inside(i)
      BY <2>2, Zenon DEF ReadClock, Inside, LimiterTypeOK
    <3>3. Credit(i)' = Credit(i)
      BY <3>1, Zenon DEF Credit, Bucket, refillTokens
    <3> QED BY <2>0, <3>1, <3>2, <3>3, PaidCalm
  <2>3. ASSUME NEW a \in Handlers, Allowed(a) PROVE Paid(i)'
    <3>1. UNCHANGED <<clock, fails, lag, ip>> /\ clock \in Int
      BY <2>3, SpentTyped DEF Allowed
    <3>2. now[a] \in Int /\ now[a] >= -1 /\ now[a] <= clock /\ ip[a] \in IPs
      BY LimiterAssumption DEF LimiterAssumption, LimiterTypeOK, None
    <3>3. Credit(i)' = Credit(i)
      <4>1. CASE perIP'[i] = perIP[i]
        BY <3>1, <4>1, Zenon DEF Credit, Bucket, refillTokens
      <4>2. CASE perIP'[i] # perIP[i]
        <5>1. perIP[i] = NoBucket /\ perIP'[i] = [credit |-> Full, seen |-> now[a]]
          BY <2>3, <3>2, <4>2 DEF Allowed, Bucket, LimiterTypeOK
        <5>2. now[a] # -2
          BY <3>2
        <5>3. perIP'[i] # NoBucket
          BY <5>1, <5>2, BucketFields, Zenon
        <5>4. Credit(i)' = refillTokens(perIP'[i], Full, clock)
          BY <3>1, <5>3, Zenon DEF Credit, Bucket
        <5>5. Credit(i) = refillTokens([credit |-> Full, seen |-> clock], Full, clock)
          BY <5>1, Zenon DEF Credit, Bucket
        <5> QED BY <3>1, <3>2, <5>1, <5>4, <5>5, FullCredit, Zenon
      <4> QED BY <4>1, <4>2
    <3>4. Inside(i)' \subseteq Inside(i) \/ Credit(i) >= IPCost
      <4>1. CASE limiterPc'[a] = "authenticate" /\ ip[a] = i
        <5>1. refillTokens(Bucket(i, now[a]), Full, now[a]) >= IPCost
          BY <2>3, <4>1 DEF Allowed, AllowedAt, Goto, LimiterTypeOK
        <5>2. CASE perIP[i] = NoBucket
          BY <3>1, <5>2, FullIsAllowed, Zenon DEF Credit, Bucket
        <5>3. CASE perIP[i] # NoBucket
          <6>1. Bucket(i, now[a]) = perIP[i] /\ Bucket(i, clock) = perIP[i]
            BY <5>3, Zenon DEF Bucket
          <6>2. refillTokens(perIP[i], Full, now[a]) >= IPCost
            BY <5>1, <6>1
          <6>3. perIP[i].credit \in Int /\ perIP[i].seen \in Int
            BY <6>1, SpentTyped
          <6>4. refillTokens(perIP[i], Full, clock) >= IPCost
            BY <3>1, <3>2, <6>2, <6>3, BucketSizes DEF refillTokens, Lower, Higher
          <6> QED BY <6>1, <6>4 DEF Credit
        <5> QED BY <5>2, <5>3
      <4>2. CASE ~(limiterPc'[a] = "authenticate" /\ ip[a] = i)
        <5>1. \A h \in Handlers : h # a => limiterPc'[h] = limiterPc[h]
          BY <2>3 DEF Allowed, Goto, LimiterTypeOK
        <5>2. limiterPc'[a] \in {"authenticate", "refused"}
          BY <2>3 DEF Allowed, Goto, LimiterTypeOK
        <5> QED BY <3>1, <4>2, <5>1, <5>2 DEF Inside
      <4> QED BY <4>1, <4>2
    <3> QED BY <2>0, <3>1, <3>3, <3>4, PaidCalm, Zenon
  <2>4. ASSUME NEW a \in Handlers, NoFailure(a) \/ Refuse(a) PROVE Paid(i)'
    <3>1. UNCHANGED <<clock, perIP, fails, lag>>
      BY <2>4 DEF NoFailure, Refuse, limiter
    <3>2. Inside(i)' \subseteq Inside(i)
      BY <2>4 DEF NoFailure, Refuse, Goto, Inside, LimiterTypeOK
    <3>3. Credit(i)' = Credit(i)
      BY <3>1 DEF Credit, Bucket, refillTokens
    <3> QED BY <2>0, <3>1, <3>2, <3>3, PaidCalm
  <2>5. ASSUME NEW a \in Handlers, RegisterFailure(a) PROVE Paid(i)'
    <3>1. ip[a] \in IPs /\ ip' = ip
      BY <2>5, Zenon DEF LimiterTypeOK, RegisterFailure
    <3>2. CASE ip[a] = i
      <4>1. Paid(ip[a])'
        BY <2>0, <2>5, <3>2, FailurePaid
      <4> QED BY <3>1, <3>2, <4>1
    <3>3. CASE ip[a] # i
      <4>1. clock' = clock /\ perIP'[i] = perIP[i] /\ fails'[i] = fails[i] /\ lag'[i] = lag[i]
        BY <2>5, <3>1, <3>3, Zenon DEF RegisterFailure, LimiterTypeOK
      <4>2. Inside(i)' \subseteq Inside(i)
        BY <2>5, <3>1, Zenon DEF RegisterFailure, Goto, Inside, LimiterTypeOK
      <4>3. Credit(i)' = Credit(i)
        BY <4>1, Zenon DEF Credit, Bucket, refillTokens
      <4> QED BY <2>0, <4>1, <4>2, <4>3, PaidCalm, Zenon
    <3> QED BY <3>2, <3>3
  <2>6. CASE LimiterSweepClock \/ UNCHANGED limiterVars
    <3>1. UNCHANGED <<clock, perIP, fails, lag, Inside(i)>>
      BY <2>6 DEF LimiterSweepClock, limiterVars, limiter, Inside
    <3>2. Credit(i)' = Credit(i)
      BY <3>1 DEF Credit, Bucket, refillTokens
    <3> QED BY <2>0, <3>1, <3>2, PaidCalm
  <2>7. CASE sweep
    <3>1. UNCHANGED <<clock, fails, lag, Inside(i)>> /\ clock \in Int
      BY <2>7, SpentTyped DEF sweep, Inside
    <3>2. Credit(i)' = Credit(i)
      <4>1. CASE perIP'[i] = perIP[i]
        BY <3>1, <4>1 DEF Credit, Bucket, refillTokens
      <4>2. CASE perIP'[i] # perIP[i]
        <5>1. perIP[i] # NoBucket /\ perIP'[i] = NoBucket
          BY <2>7, <4>2 DEF sweep
        <5>2. refillTokens(perIP[i], Full, clock) = Full
          BY <2>7, <5>1, EvictedFull
        <5>3. Credit(i)' = refillTokens([credit |-> Full, seen |-> clock], Full, clock)
          BY <3>1, <5>1, Zenon DEF Credit, Bucket
        <5> QED BY <3>1, <5>1, <5>2, <5>3, FullCredit, Zenon DEF Credit, Bucket
      <4> QED BY <4>1, <4>2
    <3> QED BY <2>0, <3>1, <3>2, PaidCalm
  <2> QED BY <2>1, <2>2, <2>3, <2>4, <2>5, <2>6, <2>7 DEF LimiterNext
<1>3. LimiterTypeOK /\ PaidFor => Throttled
  <2> SUFFICES ASSUME LimiterTypeOK, NEW i \in IPs, Paid(i)
               PROVE  fails[i] <= Cardinality(Handlers) * (IPCap + (clock + lag[i]) \div IPCost)
    BY DEF Throttled
  <2> DEFINE n == Cardinality(Handlers)
             x == Cardinality(Owing(i))
             y == Full + clock + lag[i]
  <2>1. /\ IsFiniteSet(Handlers) /\ IPCost \in Nat \ {0} /\ IPCap \in Nat
        /\ fails[i] \in Nat /\ lag[i] \in Nat /\ clock \in Nat
    BY LimiterAssumption DEF LimiterAssumption, LimiterTypeOK
  <2>2. n \in Nat /\ x \in Nat
    BY <2>1, FS_Subset, FS_CardinalityType DEF Owing, Inside
  <2>3. y \in Int /\ Spent(i) \in Int /\ Spent(i) <= y
    BY <2>1, SpentTyped, BucketSizes DEF Spent, Higher
  <2>4. /\ n * (Spent(i) \div IPCost) \in Int /\ n * (y \div IPCost) \in Int
        /\ n * (Spent(i) \div IPCost) <= n * (y \div IPCost)
    BY <2>1, <2>2, <2>3, TokenPays, Zenon
  <2>5. y \div IPCost = IPCap + (clock + lag[i]) \div IPCost
    <3>1. y = IPCap * IPCost + (clock + lag[i])
      BY <2>1 DEF Full
    <3>2. clock + lag[i] \in Nat
      BY <2>1
    <3>3. (IPCap * IPCost + (clock + lag[i])) \div IPCost = IPCap + (clock + lag[i]) \div IPCost
      BY <2>1, <3>2, WholeTokens, Zenon
    <3> HIDE DEF y
    <3> QED BY <3>1, <3>3
  <2>6. fails[i] + x <= n * (Spent(i) \div IPCost)
    BY DEF Paid
  <2>7. fails[i] <= n * (y \div IPCost)
    <3> HIDE DEF n, x, y
    <3> QED BY <2>1, <2>2, <2>4, <2>6
  <2> QED BY <2>5, <2>7
<1> QED BY <1>1, <1>2, <1>3, LimiterTypeCorrect, PTL DEF LimiterSpec
==============================================================================
