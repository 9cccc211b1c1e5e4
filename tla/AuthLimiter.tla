----------------------------- MODULE AuthLimiter -----------------------------
(***************************************************************************)
(* AuthLimiter: token buckets per client address and one for all, that     *)
(* throttle failed authentications on the admin port.  Time is counted in  *)
(* ticks.  A bucket's contents is counted in ticks too: a token of the     *)
(* per-address bucket is worth IPCost ticks of refill, so that refilling   *)
(* adds the elapsed time and no fractions are needed.                      *)
(*                                                                         *)
(* The callers are request handlers (Middleware and loginPostHandler):     *)
(* Allowed, then the credential is looked at, then RegisterFailure.  Each  *)
(* method reads the clock before it locks the mutex; handlers interleave   *)
(* between all of these steps.                                             *)
(***************************************************************************)
EXTENDS AdminPort, FiniteSets

CONSTANTS
  IPs,         \* client addresses
  IPCap, IPCost,          \* 5 tokens, one per 6 s
  GlobalCap, GlobalCost,  \* 20 tokens, one per 50 ms
  Second,      \* ticks in a second, the unit of Retry-After
  IdleEvict    \* 10 minutes

NoBucket == [credit |-> 0, seen |-> -2]
LongAgo == -1  \* the zero time.Time of a bucket that was never debited

ASSUME LimiterAssumption ==
  /\ IsFiniteSet(Handlers) /\ IsFiniteSet(IPs)
  /\ IPCap \in Nat \ {0} /\ IPCost \in Nat \ {0}
  /\ GlobalCap \in Nat \ {0} /\ GlobalCost \in Nat \ {0}
  /\ Second \in Nat \ {0}
  /\ IdleEvict \in Nat /\ IdleEvict >= (IPCap + 1) * IPCost
  /\ MaxTime \in Nat

VARIABLES
  perIP,     \* the bucket of each address, or NoBucket
  global,
  limiterPc,        \* where each handler is
  ip,        \* its client's address
  now,       \* the clock as the method it is in has read it, or None
  limiterSweep,  \* the clock as sweep has read it, or None
  promise,   \* history: when the handler's client was told to come back, or None
             \* when somebody has failed since
  fails,     \* history: failures registered for each address
  lag        \* history: how late failures were registered, in ticks since their
             \* handlers read the clock

limiter == <<perIP, global>>
limiterVars == <<clock, perIP, global, limiterPc, ip, now, limiterSweep, promise, fails, lag>>

Full == IPCap * IPCost
GlobalFull == GlobalCap * GlobalCost

LimiterInit ==
  /\ clock = 0
  /\ perIP = [i \in IPs |-> NoBucket]
  /\ global = [credit |-> GlobalFull, seen |-> LongAgo]
  /\ limiterPc = [a \in Handlers |-> "idle"]
  /\ ip \in [Handlers -> IPs]
  /\ now = [a \in Handlers |-> None]
  /\ limiterSweep = None
  /\ promise = [a \in Handlers |-> None]
  /\ fails = [i \in IPs |-> 0]
  /\ lag = [i \in IPs |-> 0]

-----------------------------------------------------------------------------
Lower(m, n) == IF m < n THEN m ELSE n
Higher(m, n) == IF m > n THEN m ELSE n

refillTokens(b, full, t) == Lower(full, b.credit + Higher(0, t - b.seen))

\* The bucket of an address that Allowed would find or insert.
Bucket(i, t) == IF perIP[i] = NoBucket THEN [credit |-> Full, seen |-> t] ELSE perIP[i]

AllowedAt(i, t) ==
  /\ refillTokens(global, GlobalFull, t) >= GlobalCost
  /\ refillTokens(Bucket(i, t), Full, t) >= IPCost

\* Mutant: the failure is not charged.
Debit_Free(credit, cost) == credit

Debit(credit, cost) == IF credit > 0 THEN credit - cost ELSE credit

\* Mutant: rounded down.
RoundUp_Down(d) == Higher(Second, (d \div Second) * Second)

\* To whole seconds, and at least one.
RoundUp(d) == Higher(Second, ((d + Second - 1) \div Second) * Second)

RetryAfter(i, t) ==
  RoundUp(Higher(Higher(0, GlobalCost - refillTokens(global, GlobalFull, t)),
                 Higher(0, IPCost - refillTokens(Bucket(i, t), Full, t))))

-----------------------------------------------------------------------------
LimiterTick ==
  /\ clock < MaxTime
  /\ clock' = clock + 1
  /\ UNCHANGED <<limiter, limiterPc, ip, now, limiterSweep, promise, fails, lag>>

\* The handler of a request calls l.now() for Allowed, RetryAfter or
\* RegisterFailure; the mutex comes later.
ReadClock(a, from, to) ==
  /\ limiterPc[a] = from
  /\ limiterPc' = [limiterPc EXCEPT ![a] = to]
  /\ now' = [now EXCEPT ![a] = clock]
  /\ UNCHANGED <<clock, limiter, ip, limiterSweep, promise, fails, lag>>

Goto(a, to) ==
  /\ limiterPc' = [limiterPc EXCEPT ![a] = to]
  /\ now' = [now EXCEPT ![a] = None]

\* Allowed: an unseen address gets its bucket, unless the global check fails.
Allowed(a) ==
  /\ limiterPc[a] = "allowed?"
  /\ IF AllowedAt(ip[a], now[a]) THEN Goto(a, "authenticate") ELSE Goto(a, "refused")
  /\ perIP' = IF refillTokens(global, GlobalFull, now[a]) < GlobalCost THEN perIP
              ELSE [perIP EXCEPT ![ip[a]] = Bucket(ip[a], now[a])]
  /\ UNCHANGED <<clock, global, ip, limiterSweep, promise, fails, lag>>

\* The credential is good, or the login form is unusable: no failure.
NoFailure(a) ==
  /\ limiterPc[a] = "authenticate"
  /\ Goto(a, "idle")
  /\ UNCHANGED <<clock, limiter, ip, limiterSweep, promise, fails, lag>>

RegisterFailure(a) ==
  LET i == ip[a]
      t == now[a]
      b == IF perIP[i] = NoBucket THEN [credit |-> Full, seen |-> LongAgo] ELSE perIP[i]
  IN
  /\ limiterPc[a] = "failing"
  /\ global' = [credit |-> Debit(refillTokens(global, GlobalFull, t), GlobalCost), seen |-> t]
  /\ perIP' = [perIP EXCEPT ![i] = [credit |-> Debit(refillTokens(b, Full, t), IPCost),
                                    seen |-> t]]
  /\ fails' = [fails EXCEPT ![i] = @ + 1]
  /\ lag' = [lag EXCEPT ![i] = @ + (clock - t)]
  /\ promise' = [c \in Handlers |-> None]
  /\ Goto(a, "idle")
  /\ UNCHANGED <<clock, ip, limiterSweep>>

\* The answer 429 with the seconds to wait.
Refuse(a) ==
  /\ limiterPc[a] = "refusing"
  /\ promise' = [promise EXCEPT ![a] = clock + RetryAfter(ip[a], now[a])]
  /\ Goto(a, "idle")
  /\ UNCHANGED <<clock, limiter, ip, limiterSweep, fails, lag>>

-----------------------------------------------------------------------------
LimiterSweepClock ==
  /\ limiterSweep = None
  /\ limiterSweep' = clock
  /\ UNCHANGED <<clock, limiter, limiterPc, ip, now, promise, fails, lag>>

\* Mutant: any bucket is evicted.
Idle_Always(b) == b # NoBucket

Idle(b) == b # NoBucket /\ limiterSweep - b.seen > IdleEvict

sweep ==
  /\ limiterSweep # None
  /\ perIP' = [i \in IPs |-> IF Idle(perIP[i]) THEN NoBucket ELSE perIP[i]]
  /\ limiterSweep' = None
  /\ UNCHANGED <<clock, global, limiterPc, ip, now, promise, fails, lag>>

LimiterNext ==
  \/ LimiterTick
  \/ \E a \in Handlers :
       \/ ReadClock(a, "idle", "allowed?")
       \/ Allowed(a)
       \/ NoFailure(a)
       \/ ReadClock(a, "authenticate", "failing")
       \/ RegisterFailure(a)
       \/ ReadClock(a, "refused", "refusing")
       \/ Refuse(a)
  \/ LimiterSweepClock \/ sweep

LimiterSpec == LimiterInit /\ [][LimiterNext]_limiterVars

-----------------------------------------------------------------------------
Places == {"idle", "allowed?", "authenticate", "failing", "refused", "refusing"}

BucketOf(full, cost) == [credit : (1 - cost)..full, seen : LongAgo..clock]

LimiterTypeOK ==
  /\ clock \in 0..MaxTime
  /\ perIP \in [IPs -> BucketOf(Full, IPCost) \cup {NoBucket}]
  /\ global \in BucketOf(GlobalFull, GlobalCost)
  /\ limiterPc \in [Handlers -> Places]
  /\ ip \in [Handlers -> IPs]
  /\ now \in [Handlers -> 0..clock \cup {None}]
  /\ limiterSweep \in 0..clock \cup {None}
  /\ promise \in [Handlers -> Nat \cup {None}]
  /\ fails \in [IPs -> Nat] /\ lag \in [IPs -> Nat]

\* A client that waits as long as Retry-After said is let in, provided nobody
\* failed meanwhile: rounding, the two buckets, and a clock read before other
\* handlers changed them do not make the answer too short.
RetryAfterSuffices ==
  \A a \in Handlers : promise[a] # None => AllowedAt(ip[a], Higher(clock, promise[a]))

\* Evicting an idle bucket forgets nothing: it was full again, as the bucket of
\* an unseen address is.
EvictionForgetsNothing ==
  [][\A i \in IPs : perIP[i] # NoBucket /\ perIP'[i] = NoBucket =>
                      refillTokens(perIP[i], Full, clock) = Full]_limiterVars

\* What the per-address bucket guarantees in spite of the check being apart from
\* the debit, and of clocks read before the lock: every token lets at most as many
\* failures through as there are handlers, and a failure registered late
\* gives back no more refill than it was late.
Throttled ==
  \A i \in IPs :
    fails[i] <= Cardinality(Handlers) * (IPCap + (clock + lag[i]) \div IPCost)
==============================================================================
