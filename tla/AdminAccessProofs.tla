--------------------------- MODULE AdminAccessProofs ---------------------------
(***************************************************************************)
(* The handlers of the admin port.  They keep to the protocols that the    *)
(* session store and the limiter expect of their callers, so that the      *)
(* results on those hold of the whole; and what they answer is justified   *)
(* by the credential of the request.                                       *)
(***************************************************************************)
EXTENDS AdminAccess, SessionStoreProofs, AuthLimiterProofs, WellFoundedInduction

-----------------------------------------------------------------------------
(* Numbers and sums. *)

\* Every set of natural numbers that is not empty has a least member.
LEMMA LeastNumber ==
  ASSUME NEW T, T \subseteq Nat, T # {}
  PROVE  \E x \in T : \A y \in T : x <= y
<1> DEFINE less == {p \in Nat \X Nat : p[1] < p[2]}
<1>1. IsWellFoundedOn(less, Nat)
  BY NatLessThanWellFounded, Zenon DEF OpToRel
<1> HIDE DEF less
<1>2. PICK x \in T : \A y \in T : ~ (<<y, x>> \in less)
  BY <1>1, WFMin, Zenon
<1>3. ASSUME NEW y \in T PROVE x <= y
  <2>1. y < x => <<y, x>> \in less
    BY DEF less
  <2>2. x \in Nat /\ y \in Nat /\ ~(y < x)
    BY <1>2, <2>1
  <2> QED BY <2>2
<1> QED BY <1>3

\* Induction, with a set for the property.
LEMMA NumberInduction ==
  ASSUME NEW T, 0 \in T, \A n \in Nat : n \in T => n + 1 \in T
  PROVE  \A n \in Nat : n \in T
<1> SUFFICES ASSUME NEW m \in Nat, m \notin T PROVE FALSE
  OBVIOUS
<1>1. PICK x \in Nat \ T : \A y \in Nat \ T : x <= y
  BY LeastNumber, Zenon
<1>2. x # 0 /\ x - 1 \in Nat /\ x - 1 \notin Nat \ T
  BY <1>1
<1>3. (x - 1) + 1 \in T
  BY <1>2
<1> QED BY <1>1, <1>3

\* The sum of f over S, as ChargedIsCounted takes it.
Total(f, S) == MapThenSumSet(LAMBDA i : f[i], S)

\* The element a fold takes from a set first.
Pick(s) == CHOOSE x \in s : TRUE
\* g gives the sum of f over each subset of S.
Sums(f, S, g) ==
  g = [s \in SUBSET S |-> IF s = {} THEN 0 ELSE f[Pick(s)] + g[s \ {Pick(s)}]]

\* Where the sums exist the fold computes them.
LEMMA TotalUnfold ==
  ASSUME NEW f, NEW S, NEW g, Sums(f, S, g)
  PROVE  \E h : Sums(f, S, h) /\ Total(f, S) = h[S]
<1> DEFINE iter[s \in SUBSET S] == IF s = {} THEN 0 ELSE LET x == Pick(s) IN f[x] + iter[s \ {x}]
<1>1. Total(f, S) = iter[S]
  BY DEF Total, MapThenSumSet, MapThenFoldSet, Pick
<1>2. iter = CHOOSE h : h = [s \in SUBSET S |-> IF s = {} THEN 0 ELSE LET x == Pick(s) IN f[x] + h[s \ {x}]]
  BY DEF iter
<1>3. Sums(f, S, iter)
  BY <1>2, Zenon DEF Sums
<1> QED BY <1>1, <1>3, Zenon

\* Taking an element from a finite set.
LEMMA PickOne ==
  ASSUME NEW S, IsFiniteSet(S), NEW s \in SUBSET S
  PROVE  /\ Cardinality(s) \in Nat /\ Cardinality(s) <= Cardinality(S)
         /\ (Cardinality(s) = 0 <=> s = {})
         /\ s # {} => /\ Pick(s) \in s /\ s \ {Pick(s)} \in SUBSET S
                      /\ Cardinality(s \ {Pick(s)}) = Cardinality(s) - 1
<1>1. IsFiniteSet(s) /\ Cardinality(s) <= Cardinality(S)
  BY FS_Subset
<1>2. Cardinality(s) \in Nat /\ (Cardinality(s) = 0 <=> s = {})
  BY <1>1, FS_CardinalityType, FS_EmptySet
<1>3. s # {} => Pick(s) \in s
  BY DEF Pick
<1> QED BY <1>1, <1>2, <1>3, FS_RemoveElement, Zenon

\* They exist for every finite set, by induction on the size of its subsets.
LEMMA SumsExist ==
  ASSUME NEW f, NEW S, IsFiniteSet(S)
  PROVE  \E g : Sums(f, S, g)
<1> DEFINE Step(g, s) == IF s = {} THEN 0 ELSE f[Pick(s)] + g[s \ {Pick(s)}]
           T == {n \in Nat : \E g : \A s \in SUBSET S : Cardinality(s) <= n => g[s] = Step(g, s)}
<1>1. 0 \in T
  <2>1. ASSUME NEW s \in SUBSET S, Cardinality(s) <= 0
        PROVE  [r \in SUBSET S |-> 0][s] = Step([r \in SUBSET S |-> 0], s)
    <3>1. Cardinality(s) \in Nat /\ (Cardinality(s) = 0 <=> s = {})
      BY PickOne, Zenon
    <3>2. s = {}
      BY <2>1, <3>1
    <3> QED BY <3>2
  <2> QED BY <2>1, Zenon
<1>2. ASSUME NEW n \in Nat, n \in T PROVE n + 1 \in T
  <2>1. PICK g : \A s \in SUBSET S : Cardinality(s) <= n => g[s] = Step(g, s)
    BY <1>2, Zenon
  <2> DEFINE k == [s \in SUBSET S |-> IF Cardinality(s) <= n THEN g[s] ELSE Step(g, s)]
  <2>2. ASSUME NEW s \in SUBSET S PROVE k[s] = Step(g, s)
    BY <2>1
  <2>3. ASSUME NEW s \in SUBSET S, Cardinality(s) <= n PROVE k[s] = g[s]
    BY <2>3
  <2>4. ASSUME NEW s \in SUBSET S, Cardinality(s) <= n + 1 PROVE k[s] = Step(k, s)
    <3>1. CASE s = {}
      BY <2>2, <3>1, Zenon
    <3>2. CASE s # {}
      <4>1. s \ {Pick(s)} \in SUBSET S /\ Cardinality(s \ {Pick(s)}) <= n
        BY PickOne, <2>4, <3>2
      <4>2. k[s \ {Pick(s)}] = g[s \ {Pick(s)}]
        BY <2>3, <4>1
      <4> HIDE DEF k
      <4> QED BY <2>2, <3>2, <4>2
    <3> QED BY <3>1, <3>2
  <2> HIDE DEF k, Step
  <2>5. \E j : \A s \in SUBSET S : Cardinality(s) <= n + 1 => j[s] = Step(j, s)
    BY <2>4
  <2> QED BY <2>5
<1>3. Cardinality(S) \in T
  <2> HIDE DEF T
  <2> QED BY <1>1, <1>2, FS_CardinalityType, NumberInduction
<1>4. PICK g : \A s \in SUBSET S : Cardinality(s) <= Cardinality(S) => g[s] = Step(g, s)
  BY <1>3, Zenon
<1> DEFINE h == [s \in SUBSET S |-> g[s]]
<1>5. ASSUME NEW s \in SUBSET S PROVE h[s] = Step(h, s)
  <2>1. h[s] = Step(g, s)
    BY PickOne, <1>4, Zenon
  <2>2. s # {} => h[s \ {Pick(s)}] = g[s \ {Pick(s)}]
    BY PickOne
  <2> HIDE DEF h
  <2> QED BY <2>1, <2>2
<1>6. h = [s \in SUBSET S |-> Step(h, s)]
  <2> HIDE DEF Step
  <2> QED BY <1>5, Zenon
<1> QED BY <1>6, Zenon DEF Sums

\* The sum of a function on a finite set.
LEMMA TotalSums ==
  ASSUME NEW f, NEW S, IsFiniteSet(S)
  PROVE  \E h : Sums(f, S, h) /\ Total(f, S) = h[S]
BY SumsExist, TotalUnfold

\* One more at one place is one more in the sum.
LEMMA TotalBumps ==
  ASSUME NEW S, IsFiniteSet(S), NEW f \in [S -> Nat], NEW i \in S, NEW d \in [S -> Nat],
         d = [f EXCEPT ![i] = @ + 1]
  PROVE  Total(f, S) \in Nat /\ Total(d, S) = Total(f, S) + 1
<1>1. PICK g : Sums(f, S, g) /\ Total(f, S) = g[S]
  BY TotalSums
<1>2. PICK h : Sums(d, S, h) /\ Total(d, S) = h[S]
  BY TotalSums
<1> DEFINE One(s) == IF i \in s THEN 1 ELSE 0
           Good(s) == g[s] \in Nat /\ h[s] = g[s] + One(s)
           T == {n \in Nat : \A s \in SUBSET S : Cardinality(s) = n => Good(s)}
<1>3. 0 \in T
  <2>1. g[{}] = 0 /\ h[{}] = 0
    BY <1>1, <1>2 DEF Sums
  <2>2. ASSUME NEW s \in SUBSET S, Cardinality(s) = 0 PROVE s = {}
    BY <2>2, PickOne, Zenon
  <2> QED BY <2>1, <2>2
<1>4. ASSUME NEW n \in Nat, n \in T PROVE n + 1 \in T
  <2> SUFFICES ASSUME NEW s \in SUBSET S, Cardinality(s) = n + 1 PROVE Good(s)
    OBVIOUS
  <2> DEFINE x == Pick(s)
             r == s \ {x}
  <2>1. x \in s /\ x \in S /\ r \in SUBSET S /\ Cardinality(r) = n /\ s # {}
    BY PickOne
  <2>2. g[r] \in Nat /\ h[r] = g[r] + One(r)
    BY <1>4, <2>1
  <2>3. g[s] = f[x] + g[r] /\ h[s] = d[x] + h[r]
    BY <1>1, <1>2, <2>1, Zenon DEF Sums
  <2> DEFINE one == IF x = i THEN 1 ELSE 0
  <2>4. f[x] \in Nat /\ d[x] = f[x] + one /\ one \in Nat
    BY <2>1
  <2>5. One(s) = One(r) + one /\ One(r) \in Nat
    BY <2>1
  <2> HIDE DEF One, one, x, r
  <2>6. g[s] \in Nat /\ h[s] = g[s] + One(s)
    BY <2>2, <2>3, <2>4, <2>5
  <2> QED BY <2>6
<1>5. Cardinality(S) \in T
  <2> HIDE DEF T
  <2> QED BY <1>3, <1>4, FS_CardinalityType, NumberInduction
<1> QED BY <1>1, <1>2, <1>5

\* The sum of zeros is zero.
LEMMA TotalOfZeros ==
  ASSUME NEW S, IsFiniteSet(S)
  PROVE  Total([i \in S |-> 0], S) = 0
<1> DEFINE f == [i \in S |-> 0]
<1>1. PICK g : Sums(f, S, g) /\ Total(f, S) = g[S]
  BY TotalSums
<1> DEFINE T == {n \in Nat : \A s \in SUBSET S : Cardinality(s) = n => g[s] = 0}
<1>2. 0 \in T
  <2>1. g[{}] = 0
    BY <1>1 DEF Sums
  <2>2. ASSUME NEW s \in SUBSET S, Cardinality(s) = 0 PROVE s = {}
    BY <2>2, PickOne, Zenon
  <2> QED BY <2>1, <2>2
<1>3. ASSUME NEW n \in Nat, n \in T PROVE n + 1 \in T
  <2> SUFFICES ASSUME NEW s \in SUBSET S, Cardinality(s) = n + 1 PROVE g[s] = 0
    OBVIOUS
  <2>1. s # {} /\ Pick(s) \in S /\ s \ {Pick(s)} \in SUBSET S /\ Cardinality(s \ {Pick(s)}) = n
    BY PickOne
  <2>2. g[s \ {Pick(s)}] = 0
    BY <1>3, <2>1
  <2>3. g[s] = f[Pick(s)] + g[s \ {Pick(s)}]
    BY <1>1, <2>1, Zenon DEF Sums
  <2> QED BY <2>1, <2>2, <2>3
<1>4. Cardinality(S) \in T
  <2> HIDE DEF T
  <2> QED BY <1>2, <1>3, FS_CardinalityType, NumberInduction
<1> QED BY <1>1, <1>4

-----------------------------------------------------------------------------
(* The handlers. *)

\* The stages of a request.
Stages == {"idle", "origin", "logout", "limit", "limited", "refusing", "authenticate",
           "cookie", "admit", "create", "login", "deny", "denied"}

\* The types of the variables of the requests.
RequestTypeOK ==
  /\ stage \in [Handlers -> Stages]
  /\ req \in [Handlers -> Requests]
  /\ cookie \in [Handlers -> Ids \cup {None}]
  /\ status \in [Handlers -> {"none", "served", "303", "400", "401", "403", "429", "500"}]
  /\ late \in [Handlers -> BOOLEAN]

-----------------------------------------------------------------------------
\* Requests go from stage to stage.
LEMMA RequestTypeStep ==
  ASSUME RequestTypeOK, [AccessNext]_accessVars PROVE RequestTypeOK'
<1>1. ASSUME NEW h \in Handlers, NEW r \in Requests, NEW c \in Ids \cup {None}, Arrive(h, r, c)
      PROVE  RequestTypeOK'
  BY <1>1 DEF Arrive, RequestTypeOK, Stages
<1>2. ASSUME NEW h \in Handlers, NEW s \in Stages, Proceed(h, s) PROVE RequestTypeOK'
  BY <1>2 DEF Proceed, RequestTypeOK
<1>3. ASSUME NEW h \in Handlers, NEW code \in {"served", "303", "400", "401", "403", "429", "500"},
             Respond(h, code)
      PROVE  RequestTypeOK'
  BY <1>3 DEF Respond, RequestTypeOK, Stages
<1>4. ASSUME NEW h \in Handlers, RateLimited(h) PROVE RequestTypeOK'
  BY <1>4 DEF RateLimited, RequestTypeOK, Stages
<1>5. ASSUME UNCHANGED <<stage, req, cookie, status, late>> PROVE RequestTypeOK'
  BY <1>5 DEF RequestTypeOK
<1>6. ASSUME NEW h \in Handlers, csrfOriginCheck(h) PROVE RequestTypeOK'
  BY <1>2, <1>3, <1>6 DEF csrfOriginCheck, Stages
<1>7. ASSUME NEW h \in Handlers,
             \/ logoutHandler(h) \/ TooManyRequests(h) \/ Serve(h) \/ BadForm(h)
             \/ CreateFails(h) \/ SetCookie(h) \/ denyRequest(h)
      PROVE  RequestTypeOK'
  BY <1>3, <1>7, Zenon DEF logoutHandler, TooManyRequests, Serve, BadForm, CreateFails, SetCookie, denyRequest
<1>8. ASSUME NEW h \in Handlers,
             \/ CheckLimit(h) \/ CheckCredential(h) \/ CheckCookie(h) \/ WrongToken(h)
             \/ StoreSession(h) \/ ChargeFailure(h) \/ \E i \in Ids : CreateSession(h, i)
      PROVE  RequestTypeOK'
  BY <1>2, <1>8, Zenon DEF CheckLimit, CheckCredential, CheckCookie, WrongToken, StoreSession, ChargeFailure,
                    CreateSession, Stages
<1>9. ASSUME NEW h \in Handlers, AskLimiter(h) \/ Deny(h) PROVE RequestTypeOK'
  BY <1>5, <1>9 DEF AskLimiter, Deny, request
<1>10. CASE AccessTick \/ Sweepers \/ UNCHANGED accessVars
  BY <1>5, <1>10 DEF AccessTick, Sweepers, accessVars, request
<1> QED BY <1>1, <1>4, <1>6, <1>7, <1>8, <1>9, <1>10 DEF AccessNext, HandlerStep

\* A step of the handlers is a step of the session store, or leaves it alone.
LEMMA AccessIsStore ==
  ASSUME RequestTypeOK, [AccessNext]_accessVars PROVE [StoreNext]_storeVars
<1>1. ASSUME UNCHANGED <<clock, storeOnly>> PROVE UNCHANGED storeVars
  BY <1>1 DEF storeOnly, storeVars
<1>2. ASSUME NEW h \in Handlers, logoutHandler(h) PROVE [StoreNext]_storeVars
  <2>1. CASE cookie[h] = None
    BY <1>1, <1>2, <2>1 DEF logoutHandler
  <2>2. CASE cookie[h] # None
    BY <1>2, <2>2 DEF logoutHandler, StoreNext, RequestTypeOK
  <2> QED BY <2>1, <2>2
<1>3. ASSUME NEW h \in Handlers, CheckCredential(h) PROVE [StoreNext]_storeVars
  <2>1. CASE UNCHANGED <<clock, storeOnly>>
    BY <1>1, <2>1
  <2>2. CASE cookie[h] # None /\ ValidateLookup(h, cookie[h])
    BY <2>2 DEF StoreNext, RequestTypeOK
  <2> QED BY <1>3, <2>1, <2>2 DEF CheckCredential, Alone
<1>4. ASSUME NEW h \in Handlers, CheckCookie(h) \/ StoreSession(h) \/ \E i \in Ids : CreateSession(h, i)
      PROVE  [StoreNext]_storeVars
  BY <1>4 DEF CheckCookie, StoreSession, CreateSession, StoreNext
<1>5. ASSUME NEW h \in Handlers,
             \/ \E r \in Requests, c \in Ids \cup {None} : Arrive(h, r, c)
             \/ csrfOriginCheck(h) \/ WrongToken(h) \/ denyRequest(h)
      PROVE  [StoreNext]_storeVars
  BY <1>1, <1>5, Zenon DEF Arrive, csrfOriginCheck, WrongToken, denyRequest, Alone
<1>6. ASSUME NEW h \in Handlers,
             \/ AskLimiter(h) \/ CheckLimit(h) \/ RateLimited(h) \/ TooManyRequests(h) \/ Serve(h)
             \/ BadForm(h) \/ CreateFails(h) \/ SetCookie(h) \/ Deny(h) \/ ChargeFailure(h)
      PROVE  [StoreNext]_storeVars
  <2>1. UNCHANGED storeOnly
    BY <1>6, Zenon DEF AskLimiter, CheckLimit, RateLimited, TooManyRequests, Serve, BadForm, CreateFails, SetCookie,
                Deny, ChargeFailure, InLimiter
  <2>2. UNCHANGED clock
    <3>1. \/ \E from, to : ReadClock(h, from, to)
          \/ Allowed(h) \/ Refuse(h) \/ NoFailure(h) \/ RegisterFailure(h)
      BY <1>6, Zenon DEF AskLimiter, CheckLimit, RateLimited, TooManyRequests, Serve, BadForm, CreateFails,
                  SetCookie, Deny, ChargeFailure
    <3>2. ASSUME NEW from, NEW to, ReadClock(h, from, to) PROVE UNCHANGED clock
      BY <3>2 DEF ReadClock
    <3>3. CASE Allowed(h) \/ Refuse(h) \/ NoFailure(h)
      BY <3>3 DEF Allowed, Refuse, NoFailure
    <3>4. CASE RegisterFailure(h)
      BY <3>4 DEF RegisterFailure
    <3> QED BY <3>1, <3>2, <3>3, <3>4
  <2> QED BY <1>1, <2>1, <2>2
<1>7. CASE AccessTick
  BY <1>7 DEF AccessTick, StoreNext
<1>8. CASE Sweepers
  <2>1. CASE (LimiterSweepClock \/ sweep) /\ UNCHANGED storeOnly
    <3>1. UNCHANGED clock
      BY <2>1 DEF LimiterSweepClock, sweep
    <3> QED BY <1>1, <2>1, <3>1
  <2>2. CASE StoreSweepClock \/ SweepDelete
    BY <2>2 DEF StoreNext
  <2> QED BY <1>8, <2>1, <2>2 DEF Sweepers, InLimiter
<1>9. CASE UNCHANGED accessVars
  BY <1>1, <1>9 DEF accessVars
<1> QED BY <1>2, <1>3, <1>4, <1>5, <1>6, <1>7, <1>8, <1>9 DEF AccessNext, HandlerStep

\* And one of the limiter, or leaves that alone.
LEMMA AccessIsLimiter ==
  ASSUME [AccessNext]_accessVars PROVE [LimiterNext]_limiterVars
<1>1. ASSUME UNCHANGED <<clock, limiterOnly>> PROVE UNCHANGED limiterVars
  BY <1>1 DEF limiterOnly, limiterVars
<1>2. ASSUME NEW h \in Handlers,
             \/ logoutHandler(h) \/ CheckCookie(h) \/ StoreSession(h) \/ CheckCredential(h)
             \/ \E i \in Ids : CreateSession(h, i)
      PROVE  [LimiterNext]_limiterVars
  <2>1. UNCHANGED limiterOnly
    BY <1>2 DEF logoutHandler, CheckCookie, StoreSession, CheckCredential, CreateSession, InStore, Alone
  <2>2. UNCHANGED clock
    BY <1>2, Zenon DEF logoutHandler, CheckCookie, StoreSession, CheckCredential, CreateSession, Alone, Revoke,
                ValidateLookup, ValidateDecide, CreateStore, CreateCompute, shared
  <2> QED BY <1>1, <2>1, <2>2
<1>3. ASSUME NEW h \in Handlers,
             \/ \E r \in Requests, c \in Ids \cup {None} : Arrive(h, r, c)
             \/ csrfOriginCheck(h) \/ WrongToken(h) \/ denyRequest(h)
      PROVE  [LimiterNext]_limiterVars
  BY <1>1, <1>3, Zenon DEF Arrive, csrfOriginCheck, WrongToken, denyRequest, Alone
<1>4. ASSUME NEW h \in Handlers,
             \/ AskLimiter(h) \/ CheckLimit(h) \/ RateLimited(h) \/ TooManyRequests(h) \/ Serve(h)
             \/ BadForm(h) \/ CreateFails(h) \/ SetCookie(h) \/ Deny(h) \/ ChargeFailure(h)
      PROVE  [LimiterNext]_limiterVars
  BY <1>4, Zenon DEF AskLimiter, CheckLimit, RateLimited, TooManyRequests, Serve, BadForm, CreateFails, SetCookie,
              Deny, ChargeFailure, LimiterNext
<1>5. CASE AccessTick
  BY <1>5 DEF AccessTick, StoreTick, limiterOnly, LimiterNext, LimiterTick, limiter
<1>6. CASE Sweepers
  <2>1. CASE UNCHANGED limiterOnly /\ (StoreSweepClock \/ SweepDelete)
    BY <1>1, <2>1 DEF StoreSweepClock, SweepDelete
  <2> QED BY <1>6, <2>1 DEF Sweepers, LimiterNext, InStore
<1>7. CASE UNCHANGED accessVars
  BY <1>1, <1>7 DEF accessVars
<1> QED BY <1>2, <1>3, <1>4, <1>5, <1>6, <1>7 DEF AccessNext, HandlerStep

\* RequestTypeOK holds of the whole.
LEMMA RequestTypeCorrect == AccessSpec => []RequestTypeOK
<1>1. AccessInit => RequestTypeOK
  BY RequestAssumption DEF RequestAssumption, AccessInit, RequestTypeOK, Stages
<1> QED BY <1>1, RequestTypeStep, PTL DEF AccessSpec

\* The handlers implement the protocols of the session store and of the limiter:
\* whatever is proved of the two holds of the admin port.
THEOREM HandlersKeepProtocols == AccessSpec => ProtocolsKept
<1>1. AccessInit => StoreInit /\ LimiterInit
  BY DEF AccessInit
<1> QED BY <1>1, RequestTypeCorrect, AccessIsStore, AccessIsLimiter, PTL
        DEF AccessSpec, ProtocolsKept, StoreSpec, LimiterSpec

-----------------------------------------------------------------------------
\* The request rests on a session cookie.
ByCookie(h) == req[h].route = "page" /\ cookie[h] # None

\* What justifies letting the request in.
Admissible(h) == HasBearer(h) \/ (ByCookie(h) /\ wasGood[h] /\ ~late[h])

\* What justifies turning the request away.
Deniable(h) == ~HasBearer(h) /\ (ByCookie(h) => wasBad[h])

\* What is known of a request at each stage.
RequestInv(h) ==
  /\ late[h] => cookie[h] \in revoked
  /\ stage[h] = "cookie" => /\ ~HasBearer(h) /\ ByCookie(h) /\ storePc[h] = "validate"
                            /\ late[h] => expires[h] = None
  /\ stage[h] = "admit" => Admissible(h)
  /\ stage[h] \in {"deny", "denied"} => Deniable(h)
  /\ status[h] = "served" => stage[h] = "idle" /\ Admissible(h)
  /\ status[h] = "401" => stage[h] = "idle" /\ Deniable(h)

\* What the others do leaves a request as it is.
Undisturbed(g) ==
  /\ stage'[g] = stage[g] /\ req'[g] = req[g] /\ cookie'[g] = cookie[g]
  /\ status'[g] = status[g] /\ late'[g] = late[g]
  /\ storePc'[g] = storePc[g] /\ expires'[g] = expires[g]
  /\ wasGood[g] => wasGood'[g]
  /\ wasBad[g] => wasBad'[g]
  /\ revoked \subseteq revoked'

\* A request that nothing disturbs keeps what is known of it.
LEMMA UndisturbedKeeps ==
  ASSUME NEW g \in Handlers, RequestInv(g), Undisturbed(g) PROVE RequestInv(g)'
<1>1. HasBearer(g)' <=> HasBearer(g)
  BY DEF HasBearer, Undisturbed
<1>2. ByCookie(g)' <=> ByCookie(g)
  BY DEF ByCookie, Undisturbed
<1>3. Admissible(g) => Admissible(g)'
  BY <1>1, <1>2 DEF Admissible, Undisturbed
<1>4. Deniable(g) => Deniable(g)'
  BY <1>1, <1>2 DEF Deniable, Undisturbed
<1> QED BY <1>1, <1>2, <1>3, <1>4 DEF RequestInv, Undisturbed

\* The steps of the store that are taken for one request, or for none.
LEMMA StoreDisturbsNobody ==
  ASSUME StoreTypeOK, NEW g \in Handlers,
         \/ UNCHANGED storeOnly \/ StoreTick \/ StoreSweepClock \/ SweepDelete
         \/ \E h \in Handlers \ {g} :
              \/ CreateStore(h) \/ ValidateDecide(h)
              \/ \E i \in Ids : CreateCompute(h, i) \/ ValidateLookup(h, i) \/ Revoke(h, i)
  PROVE  /\ storePc'[g] = storePc[g] /\ expires'[g] = expires[g]
         /\ wasGood[g] => wasGood'[g]
         /\ wasBad[g] => wasBad'[g]
         /\ revoked \subseteq revoked'
<1>1. CASE UNCHANGED storeOnly \/ StoreSweepClock
  BY <1>1, Zenon DEF storeOnly, StoreSweepClock
<1>2. CASE StoreTick \/ SweepDelete
  BY <1>2, Zenon DEF StoreTick, SweepDelete, Observe
<1>3. ASSUME NEW h \in Handlers \ {g}, CreateStore(h) \/ \E i \in Ids : Revoke(h, i)
      PROVE  /\ storePc'[g] = storePc[g] /\ expires'[g] = expires[g]
             /\ wasGood[g] => wasGood'[g]
             /\ wasBad[g] => wasBad'[g]
             /\ revoked \subseteq revoked'
  BY <1>3 DEF CreateStore, Revoke, Observe, StoreTypeOK
<1>4. ASSUME NEW h \in Handlers \ {g},
             ValidateDecide(h) \/ \E i \in Ids : CreateCompute(h, i) \/ ValidateLookup(h, i)
      PROVE  /\ storePc'[g] = storePc[g] /\ expires'[g] = expires[g]
             /\ wasGood[g] => wasGood'[g]
             /\ wasBad[g] => wasBad'[g]
             /\ revoked \subseteq revoked'
  <2>1. CASE ValidateDecide(h)
    BY <2>1, Zenon DEF ValidateDecide, shared, StoreTypeOK
  <2>2. ASSUME NEW i \in Ids, CreateCompute(h, i)
        PROVE  /\ storePc'[g] = storePc[g] /\ expires'[g] = expires[g]
               /\ UNCHANGED <<wasGood, wasBad, revoked>>
    BY <2>2, Zenon DEF CreateCompute, shared, StoreTypeOK
  <2>3. ASSUME NEW i \in Ids, ValidateLookup(h, i)
        PROVE  /\ storePc'[g] = storePc[g] /\ expires'[g] = expires[g]
               /\ wasGood'[g] = wasGood[g] /\ wasBad'[g] = wasBad[g] /\ UNCHANGED revoked
    BY <2>3, Zenon DEF ValidateLookup, shared, StoreTypeOK
  <2> QED BY <1>4, <2>1, <2>2, <2>3, Zenon
<1> QED BY <1>1, <1>2, <1>3, <1>4

\* No handler disturbs the request of another.
LEMMA OthersUndisturbed ==
  ASSUME RequestTypeOK, StoreTypeOK, NEW h \in Handlers, HandlerStep(h), NEW g \in Handlers, g # h
  PROVE  Undisturbed(g)
<1>1. ASSUME NEW s, Proceed(h, s)
      PROVE  UNCHANGED <<stage[g], req[g], cookie[g], status[g], late[g]>>
  BY <1>1 DEF Proceed, RequestTypeOK
<1>2. ASSUME NEW s, Respond(h, s)
      PROVE  UNCHANGED <<stage[g], req[g], cookie[g], status[g], late[g]>>
  BY <1>2 DEF Respond, RequestTypeOK
<1>3. UNCHANGED <<stage[g], req[g], cookie[g], status[g], late[g]>>
  <2>1. ASSUME NEW r \in Requests, NEW c \in Ids \cup {None}, Arrive(h, r, c)
        PROVE  UNCHANGED <<stage[g], req[g], cookie[g], status[g], late[g]>>
    BY <2>1 DEF Arrive, RequestTypeOK
  <2>2. CASE RateLimited(h)
    BY <2>2 DEF RateLimited, RequestTypeOK
  <2>3. CASE AskLimiter(h) \/ Deny(h)
    BY <2>3, Zenon DEF AskLimiter, Deny, request
  <2>4. CASE csrfOriginCheck(h)
    BY <1>1, <1>2, <2>4 DEF csrfOriginCheck
  <2>5. CASE \/ logoutHandler(h) \/ TooManyRequests(h) \/ Serve(h) \/ BadForm(h)
             \/ CreateFails(h) \/ SetCookie(h) \/ denyRequest(h)
    BY <1>2, <2>5, Zenon DEF logoutHandler, TooManyRequests, Serve, BadForm, CreateFails, SetCookie, denyRequest
  <2>6. CASE \/ CheckLimit(h) \/ CheckCredential(h) \/ CheckCookie(h) \/ WrongToken(h)
             \/ StoreSession(h) \/ ChargeFailure(h) \/ \E i \in Ids : CreateSession(h, i)
    BY <1>1, <2>6, Zenon DEF CheckLimit, CheckCredential, CheckCookie, WrongToken, StoreSession, ChargeFailure,
                      CreateSession
  <2> QED BY <2>1, <2>2, <2>3, <2>4, <2>5, <2>6, Zenon DEF HandlerStep
<1>4. \/ UNCHANGED storeOnly
      \/ CreateStore(h) \/ ValidateDecide(h)
      \/ \E i \in Ids : CreateCompute(h, i) \/ ValidateLookup(h, i) \/ Revoke(h, i)
  <2>1. CASE logoutHandler(h) \/ CheckCredential(h)
    BY <2>1 DEF logoutHandler, CheckCredential, Alone, RequestTypeOK
  <2>2. CASE CheckCookie(h) \/ StoreSession(h) \/ \E i \in Ids : CreateSession(h, i)
    BY <2>2 DEF CheckCookie, StoreSession, CreateSession
  <2>3. CASE \/ \E r \in Requests, c \in Ids \cup {None} : Arrive(h, r, c)
             \/ csrfOriginCheck(h) \/ WrongToken(h) \/ denyRequest(h)
    BY <2>3, Zenon DEF Arrive, csrfOriginCheck, WrongToken, denyRequest, Alone
  <2>4. CASE \/ AskLimiter(h) \/ CheckLimit(h) \/ RateLimited(h) \/ TooManyRequests(h) \/ Serve(h)
             \/ BadForm(h) \/ CreateFails(h) \/ SetCookie(h) \/ Deny(h) \/ ChargeFailure(h)
    BY <2>4, Zenon DEF AskLimiter, CheckLimit, RateLimited, TooManyRequests, Serve, BadForm, CreateFails, SetCookie,
                Deny, ChargeFailure, InLimiter
  <2> QED BY <2>1, <2>2, <2>3, <2>4 DEF HandlerStep
<1>5. /\ storePc'[g] = storePc[g] /\ expires'[g] = expires[g]
      /\ wasGood[g] => wasGood'[g]
      /\ wasBad[g] => wasBad'[g]
      /\ revoked \subseteq revoked'
  BY <1>4, StoreDisturbsNobody, Zenon
<1> QED BY <1>3, <1>5, Zenon DEF Undisturbed

\* A step of a request to a stage, or to an answer, that promises nothing.
LEMMA PlainStep ==
  ASSUME NEW h \in Handlers, RequestInv(h),
         late'[h] => late[h], cookie'[h] = cookie[h], revoked \subseteq revoked',
         stage'[h] \notin {"cookie", "admit", "deny", "denied"}, status'[h] \notin {"served", "401"}
  PROVE  RequestInv(h)'
BY Zenon DEF RequestInv

\* A request that is not answered yet.
LEMMA Unanswered ==
  ASSUME NEW h \in Handlers, RequestInv(h), stage[h] # "idle"
  PROVE  status[h] \notin {"served", "401"}
BY DEF RequestInv

\* The credential does not change on the way.
LEMMA SameRequest ==
  ASSUME NEW h \in Handlers, req'[h] = req[h], cookie'[h] = cookie[h]
  PROVE  (HasBearer(h)' <=> HasBearer(h)) /\ (ByCookie(h)' <=> ByCookie(h))
BY DEF HasBearer, ByCookie

\* A step from stage to stage, that says what it has to say of the new one.
LEMMA StageStep ==
  ASSUME NEW h \in Handlers, RequestInv(h), stage[h] # "idle",
         UNCHANGED <<cookie[h], status[h], late[h], revoked>>,
         stage'[h] # "cookie",
         stage'[h] = "admit" => Admissible(h)',
         stage'[h] \in {"deny", "denied"} => Deniable(h)'
  PROVE  RequestInv(h)'
BY Unanswered, Zenon DEF RequestInv

\* A step that answers the request, and says what it has to say of the answer.
LEMMA AnswerStep ==
  ASSUME NEW h \in Handlers, RequestInv(h),
         UNCHANGED <<cookie[h], late[h], revoked>>, stage'[h] = "idle",
         status'[h] = "served" => Admissible(h)',
         status'[h] = "401" => Deniable(h)'
  PROVE  RequestInv(h)'
BY Zenon DEF RequestInv

\* The step that begins to look the cookie up.
LEMMA CookieStep ==
  ASSUME NEW h \in Handlers, RequestInv(h), stage[h] # "idle",
         UNCHANGED <<cookie[h], status[h], late[h], revoked>>, stage'[h] = "cookie",
         ~HasBearer(h)', ByCookie(h)', storePc'[h] = "validate", late'[h] => expires'[h] = None
  PROVE  RequestInv(h)'
BY Unanswered DEF RequestInv

\* A handler's own step keeps what is known of its request.
LEMMA OwnStep ==
  ASSUME RequestTypeOK, RequestTypeOK', SessionIInv, NEW h \in Handlers, RequestInv(h), HandlerStep(h)
  PROVE  RequestInv(h)'
<1>0. StoreTypeOK
  BY DEF SessionIInv, StoreInv
<1>1. ASSUME NEW s, Proceed(h, s)
      PROVE  /\ stage'[h] = s
             /\ UNCHANGED <<req[h], cookie[h], status[h], late[h]>>
  BY <1>1 DEF Proceed, RequestTypeOK
<1>2. ASSUME NEW s, Respond(h, s)
      PROVE  /\ stage'[h] = "idle" /\ status'[h] = s
             /\ UNCHANGED <<req[h], cookie[h], late[h]>>
  BY <1>2 DEF Respond, RequestTypeOK
<1>3. ASSUME NEW r \in Requests, NEW c \in Ids \cup {None}, Arrive(h, r, c) PROVE RequestInv(h)'
  <2>1. /\ stage'[h] \in {"origin", "limit"} /\ status'[h] = "none"
        /\ cookie'[h] = c /\ late'[h] = (c \in revoked) /\ revoked' = revoked
    BY <1>3, Zenon DEF Arrive, RequestTypeOK, Alone, storeOnly
  <2> QED BY <2>1, Zenon DEF RequestInv
<1>4. CASE csrfOriginCheck(h)
  <2>1. revoked' = revoked /\ stage[h] # "idle"
    BY <1>4 DEF csrfOriginCheck, Alone, storeOnly, At
  <2>2. CASE \E s \in {"limit", "logout"} : Proceed(h, s)
    <3>1. stage'[h] \in {"limit", "logout"} /\ UNCHANGED <<cookie[h], status[h], late[h]>>
      BY <1>1, <2>2
    <3>2. status[h] \notin {"served", "401"}
      BY <2>1, Unanswered
    <3> QED BY <2>1, <3>1, <3>2, PlainStep
  <2>3. CASE Respond(h, "403")
    <3>1. stage'[h] = "idle" /\ status'[h] = "403" /\ UNCHANGED <<cookie[h], late[h]>>
      BY <1>2, <2>3
    <3> QED BY <2>1, <3>1, PlainStep
  <2> QED BY <1>4, <2>2, <2>3, Zenon DEF csrfOriginCheck
<1>5. CASE logoutHandler(h)
  <2>1. revoked \subseteq revoked' /\ Respond(h, "303")
    BY <1>5, Zenon DEF logoutHandler, storeOnly, Revoke
  <2> QED BY <1>2, <2>1, PlainStep
<1>6. CASE \/ TooManyRequests(h) \/ BadForm(h) \/ CreateFails(h) \/ SetCookie(h)
  <2>1. revoked' = revoked /\ \E s \in {"429", "400", "500", "303"} : Respond(h, s)
    BY <1>6, Zenon DEF TooManyRequests, BadForm, CreateFails, SetCookie, InLimiter, storeOnly
  <2> QED BY <1>2, <2>1, PlainStep, Zenon
<1>7. CASE AskLimiter(h)
  <2>1. /\ revoked' = revoked /\ UNCHANGED <<stage, cookie, status, late>>
        /\ stage[h] = "limit"
    BY <1>7 DEF AskLimiter, InLimiter, storeOnly, request, At
  <2> QED BY <2>1, PlainStep, Unanswered, Zenon
<1>8. CASE RateLimited(h)
  <2>1. /\ revoked' = revoked /\ UNCHANGED <<cookie, status, late>>
        /\ stage[h] = "limited" /\ stage'[h] = "refusing"
    BY <1>8 DEF RateLimited, InLimiter, storeOnly, At, RequestTypeOK
  <2> QED BY <2>1, PlainStep, Unanswered
<1>9. CASE CheckLimit(h) \/ StoreSession(h) \/ \E i \in Ids : CreateSession(h, i)
  <2>1. revoked' = revoked /\ \E s \in {"authenticate", "limited", "login", "create"} : Proceed(h, s)
    BY <1>9, Zenon DEF CheckLimit, StoreSession, CreateSession, InLimiter, storeOnly, CreateStore,
                       CreateCompute, shared
  <2>2. stage[h] # "idle"
    BY <1>9, Zenon DEF CheckLimit, StoreSession, CreateSession, At
  <2> QED BY <1>1, <2>1, <2>2, PlainStep, Unanswered
<1>10. CASE CheckCredential(h)
  <2>1. stage[h] = "authenticate"
    BY <1>10 DEF CheckCredential, At
  <2>2. CASE ~HasBearer(h) /\ cookieAuth(req[h]) /\ cookie[h] # None
    <3>1. ValidateLookup(h, cookie[h]) /\ Proceed(h, "cookie")
      BY <1>10, <2>2, Zenon DEF CheckCredential
    <3>2. storePc'[h] = "validate" /\ expires'[h] = sessions[cookie[h]] /\ revoked' = revoked
      BY <1>0, <3>1 DEF ValidateLookup, StoreTypeOK, shared
    <3>3. late[h] => expires'[h] = None
      BY <3>2, Zenon DEF RequestInv, SessionIInv, RevokedGone
    <3>4. ByCookie(h)
      BY <2>2 DEF ByCookie, cookieAuth
    <3>5. stage'[h] = "cookie" /\ UNCHANGED <<req[h], cookie[h], status[h], late[h]>>
      BY <1>1, <3>1
    <3>6. ~HasBearer(h)' /\ ByCookie(h)'
      BY <2>2, <3>4, <3>5, SameRequest, Zenon
    <3> QED BY <2>1, <3>2, <3>3, <3>5, <3>6, CookieStep
  <2>3. CASE ~(~HasBearer(h) /\ cookieAuth(req[h]) /\ cookie[h] # None)
    <3>1. Proceed(h, IF HasBearer(h) THEN "admit" ELSE "deny") /\ revoked' = revoked
      BY <1>10, <2>3 DEF CheckCredential, Alone, storeOnly
    <3>2. HasBearer(h) \/ ~ByCookie(h)
      BY <2>3 DEF ByCookie, cookieAuth
    <3>3. CASE HasBearer(h)
      <4>1. stage'[h] = "admit" /\ UNCHANGED <<req[h], cookie[h], status[h], late[h]>>
        BY <1>1, <3>1, <3>3, Zenon
      <4>2. Admissible(h)'
        BY <3>3, <4>1, SameRequest, Zenon DEF Admissible
      <4> QED BY <2>1, <3>1, <4>1, <4>2, StageStep
    <3>4. CASE ~HasBearer(h)
      <4>1. stage'[h] = "deny" /\ UNCHANGED <<req[h], cookie[h], status[h], late[h]>>
        BY <1>1, <3>1, <3>4, Zenon
      <4>2. Deniable(h)'
        BY <3>2, <3>4, <4>1, SameRequest DEF Deniable
      <4> QED BY <2>1, <3>1, <4>1, <4>2, StageStep, Zenon
    <3> QED BY <3>3, <3>4
  <2> QED BY <2>2, <2>3, Zenon
<1>11. CASE CheckCookie(h)
  <2>1. /\ stage[h] = "cookie" /\ ValidateDecide(h)
        /\ Proceed(h, IF answer'[h] = "yes" THEN "admit" ELSE "deny")
    BY <1>11 DEF CheckCookie, At
  <2>2. /\ ~HasBearer(h) /\ ByCookie(h) /\ storePc[h] = "validate"
        /\ late[h] => expires[h] = None
    BY <2>1 DEF RequestInv
  <2>3. IF Unexpired(expires[h], clock) THEN wasGood[h] ELSE wasBad[h]
    BY <2>2, Zenon DEF SessionIInv, CallInv
  <2>4. /\ answer'[h] = (IF Unexpired(expires[h], clock) THEN "yes" ELSE "no")
        /\ UNCHANGED <<wasGood, wasBad, revoked>>
    BY <1>0, <2>1 DEF ValidateDecide, StoreTypeOK, shared
  <2>5. CASE Unexpired(expires[h], clock)
    <3>1. wasGood[h] /\ ~late[h] /\ Proceed(h, "admit")
      BY <2>1, <2>2, <2>3, <2>4, <2>5, Zenon DEF Unexpired
    <3>2. stage'[h] = "admit" /\ UNCHANGED <<req[h], cookie[h], status[h], late[h]>>
      BY <1>1, <3>1, Zenon
    <3>3. Admissible(h)'
      BY <2>2, <2>4, <3>1, <3>2, SameRequest DEF Admissible
    <3> QED BY <2>1, <2>4, <3>2, <3>3, StageStep
  <2>6. CASE ~Unexpired(expires[h], clock)
    <3>1. wasBad[h] /\ Proceed(h, "deny")
      BY <2>1, <2>3, <2>4, <2>6, Zenon
    <3>2. stage'[h] = "deny" /\ UNCHANGED <<req[h], cookie[h], status[h], late[h]>>
      BY <1>1, <3>1, Zenon
    <3>3. Deniable(h)'
      BY <2>2, <2>4, <3>1, <3>2, SameRequest, Zenon DEF Deniable
    <3> QED BY <2>1, <2>4, <3>2, <3>3, StageStep, Zenon
  <2> QED BY <2>5, <2>6
<1>12. CASE Serve(h)
  <2>1. stage[h] = "admit" /\ Respond(h, "served") /\ UNCHANGED <<revoked, wasGood, wasBad>>
    BY <1>12 DEF Serve, At, InLimiter, storeOnly
  <2>2. Admissible(h)
    BY <2>1 DEF RequestInv
  <2>3. stage'[h] = "idle" /\ status'[h] = "served" /\ UNCHANGED <<req[h], cookie[h], late[h]>>
    BY <1>2, <2>1
  <2>4. Admissible(h)'
    BY <2>1, <2>2, <2>3, SameRequest, Zenon DEF Admissible
  <2> QED BY <2>1, <2>3, <2>4, AnswerStep, Zenon
<1>13. CASE WrongToken(h)
  <2>1. stage[h] = "authenticate" /\ Proceed(h, "deny") /\ revoked' = revoked
    BY <1>13, Zenon DEF WrongToken, At, Alone, storeOnly
  <2>2. ~HasBearer(h) /\ ~ByCookie(h)
    BY <1>13, Zenon DEF WrongToken, HasBearer, ByCookie
  <2>3. stage'[h] = "deny" /\ UNCHANGED <<req[h], cookie[h], status[h], late[h]>>
    BY <1>1, <2>1
  <2>4. Deniable(h)'
    BY <2>2, <2>3, SameRequest, Zenon DEF Deniable
  <2> QED BY <2>1, <2>3, <2>4, StageStep, Zenon
<1>14. CASE Deny(h)
  <2>1. UNCHANGED <<stage, req, cookie, status, late, revoked, wasGood, wasBad>> /\ stage[h] = "deny"
    BY <1>14 DEF Deny, request, InLimiter, storeOnly, At
  <2>2. Deniable(h)'
    BY <2>1, SameRequest DEF RequestInv, Deniable
  <2> QED BY <2>1, <2>2, StageStep
<1>15. CASE ChargeFailure(h)
  <2>1. stage[h] = "deny" /\ Proceed(h, "denied") /\ UNCHANGED <<revoked, wasGood, wasBad>>
    BY <1>15 DEF ChargeFailure, At, InLimiter, storeOnly
  <2>2. Deniable(h)
    BY <2>1 DEF RequestInv
  <2>3. stage'[h] = "denied" /\ UNCHANGED <<req[h], cookie[h], status[h], late[h]>>
    BY <1>1, <2>1
  <2>4. Deniable(h)'
    BY <2>1, <2>2, <2>3, SameRequest, Zenon DEF Deniable
  <2> QED BY <2>1, <2>3, <2>4, StageStep
<1>16. CASE denyRequest(h)
  <2>1. stage[h] = "denied" /\ Respond(h, "401") /\ UNCHANGED <<revoked, wasGood, wasBad>>
    BY <1>16 DEF denyRequest, At, Alone, storeOnly
  <2>2. Deniable(h)
    BY <2>1 DEF RequestInv
  <2>3. stage'[h] = "idle" /\ status'[h] = "401" /\ UNCHANGED <<req[h], cookie[h], late[h]>>
    BY <1>2, <2>1, Zenon
  <2>4. Deniable(h)'
    BY <2>1, <2>2, <2>3, SameRequest DEF Deniable
  <2> QED BY <2>1, <2>3, <2>4, AnswerStep
<1> QED BY <1>3, <1>4, <1>5, <1>6, <1>7, <1>8, <1>9, <1>10, <1>11, <1>12, <1>13, <1>14, <1>15, <1>16
        DEF HandlerStep

\* Every step keeps what is known of every request.
LEMMA RequestStep ==
  ASSUME RequestTypeOK, SessionIInv, [AccessNext]_accessVars,
         \A h \in Handlers : RequestInv(h), NEW g \in Handlers
  PROVE  RequestInv(g)'
<1>0. StoreTypeOK /\ RequestTypeOK'
  BY RequestTypeStep DEF SessionIInv, StoreInv
<1>1. ASSUME NEW h \in Handlers, HandlerStep(h) PROVE RequestInv(g)'
  <2>1. CASE g = h
    BY <1>0, <1>1, <2>1, OwnStep
  <2>2. CASE g # h
    BY <1>0, <1>1, <2>2, OthersUndisturbed, UndisturbedKeeps
  <2> QED BY <2>1, <2>2
<1>2. CASE AccessTick \/ Sweepers \/ UNCHANGED accessVars
  <2>1. UNCHANGED request
    BY <1>2 DEF AccessTick, Sweepers, accessVars
  <2>2. UNCHANGED storeOnly \/ StoreTick \/ StoreSweepClock \/ SweepDelete
    BY <1>2 DEF AccessTick, Sweepers, InLimiter, accessVars
  <2>3. /\ storePc'[g] = storePc[g] /\ expires'[g] = expires[g]
        /\ wasGood[g] => wasGood'[g]
        /\ wasBad[g] => wasBad'[g]
        /\ revoked \subseteq revoked'
    BY <1>0, <2>2, StoreDisturbsNobody
  <2>4. Undisturbed(g)
    BY <2>1, <2>3 DEF Undisturbed, request
  <2> QED BY <2>4, UndisturbedKeeps
<1> QED BY <1>1, <1>2 DEF AccessNext

\* RequestInv holds of every request, always.
LEMMA RequestsSound == AccessSpec => [](\A h \in Handlers : RequestInv(h))
<1>1. AccessInit => \A h \in Handlers : RequestInv(h)
  BY Zenon DEF AccessInit, RequestInv
<1>2. RequestTypeOK /\ SessionIInv /\ [AccessNext]_accessVars /\ (\A h \in Handlers : RequestInv(h))
        => (\A h \in Handlers : RequestInv(h))'
  BY RequestStep
<1>3. AccessSpec => []SessionIInv
  BY HandlersKeepProtocols, SessionInductive, PTL DEF ProtocolsKept
<1> QED BY <1>1, <1>2, <1>3, RequestTypeCorrect, PTL DEF AccessSpec

\* Whoever is served had the token or a session that was valid during the request,
\* and whoever is refused as unauthenticated had neither throughout.
THEOREM AnswersAreJustified == AccessSpec => []AnswersMatchCredential
<1>1. (\A h \in Handlers : RequestInv(h)) => AnswersMatchCredential
  BY Zenon DEF RequestInv, Admissible, Deniable, ByCookie, AnswersMatchCredential
<1> QED BY <1>1, RequestsSound, PTL

\* No request that arrives after the logout of its session is served for it.
THEOREM LogoutIsFinal == AccessSpec => []LogoutFinal
<1>1. (\A h \in Handlers : RequestInv(h)) => LogoutFinal
  BY DEF RequestInv, Admissible, LogoutFinal
<1> QED BY <1>1, RequestsSound, PTL

-----------------------------------------------------------------------------
\* The handlers that have counted a failure and not yet charged it.
Denied == {h \in Handlers : At(h, "denied")}

\* The counters of rejected requests are natural numbers.
FailuresTyped == failures \in [{"invalid_token", "rate_limited", "csrf_blocked"} -> Nat]

\* A step of a request that neither charges a failure nor counts one.
Uncharged(h) ==
  /\ fails' = fails /\ failures'["invalid_token"] = failures["invalid_token"]
  /\ stage[h] # "denied" /\ stage'[h] # "denied"
  /\ \A g \in Handlers : g # h => stage'[g] = stage[g]

\* All steps of a request but the two of a rejection are of this kind.
LEMMA UnchargedSteps ==
  ASSUME RequestTypeOK, FailuresTyped, NEW h \in Handlers, HandlerStep(h),
         ~ChargeFailure(h), ~denyRequest(h)
  PROVE  Uncharged(h)
<1>1. ASSUME NEW s, Proceed(h, s), s # "denied", stage[h] # "denied", fails' = fails
      PROVE  Uncharged(h)
  BY <1>1 DEF Proceed, Uncharged, RequestTypeOK
<1>2. ASSUME NEW s, Respond(h, s), stage[h] # "denied", fails' = fails,
             failures'["invalid_token"] = failures["invalid_token"]
      PROVE  Uncharged(h)
  BY <1>2 DEF Respond, Uncharged, RequestTypeOK
<1>3. ASSUME NEW from, NEW to, ReadClock(h, from, to) \/ Allowed(h) \/ Refuse(h) \/ NoFailure(h)
      PROVE  fails' = fails
  BY <1>3, Zenon DEF ReadClock, Allowed, Refuse, NoFailure
<1>4. ASSUME NEW r \in Requests, NEW c \in Ids \cup {None}, Arrive(h, r, c) PROVE Uncharged(h)
  BY <1>4 DEF Arrive, At, Alone, limiterOnly, Uncharged, RequestTypeOK
<1>5. CASE csrfOriginCheck(h)
  <2>1. fails' = fails /\ stage[h] # "denied"
    BY <1>5, Zenon DEF csrfOriginCheck, At, Alone, limiterOnly
  <2>2. CASE \E s \in {"limit", "logout"} : Proceed(h, s)
    BY <1>1, <2>1, <2>2
  <2>3. CASE Record("csrf_blocked") /\ Respond(h, "403")
    <3>1. failures'["invalid_token"] = failures["invalid_token"]
      BY <2>3 DEF Record, FailuresTyped
    <3> QED BY <1>2, <2>1, <2>3, <3>1
  <2> QED BY <1>5, <2>2, <2>3, Zenon DEF csrfOriginCheck
<1>6. CASE logoutHandler(h)
  <2>1. Respond(h, "303") /\ failures' = failures /\ stage[h] # "denied" /\ fails' = fails
    BY <1>6 DEF logoutHandler, At, InStore, limiterOnly
  <2> QED BY <1>2, <2>1
<1>7. CASE AskLimiter(h) \/ Deny(h)
  <2>1. UNCHANGED <<stage, failures>> /\ stage[h] # "denied"
    BY <1>7 DEF AskLimiter, Deny, request, At
  <2>2. fails' = fails
    BY <1>3, <1>7 DEF AskLimiter, Deny
  <2> QED BY <2>1, <2>2 DEF Uncharged
<1>8. CASE CheckLimit(h)
  <2>1. /\ stage[h] # "denied" /\ Allowed(h)
        /\ \E s \in {"authenticate", "limited"} : Proceed(h, s)
    BY <1>8 DEF CheckLimit, At
  <2> QED BY <1>1, <1>3, <2>1
<1>9. CASE RateLimited(h)
  <2>1. fails' = fails
    BY <1>3, <1>9 DEF RateLimited
  <2>2. failures'["invalid_token"] = failures["invalid_token"]
    BY <1>9 DEF RateLimited, Record, FailuresTyped
  <2> QED BY <1>9, <2>1, <2>2 DEF RateLimited, At, Uncharged, RequestTypeOK
<1>10. CASE TooManyRequests(h) \/ Serve(h) \/ BadForm(h) \/ CreateFails(h) \/ SetCookie(h)
  <2>1. /\ stage[h] # "denied" /\ failures' = failures
        /\ \E s \in {"429", "served", "400", "500", "303"} : Respond(h, s)
    BY <1>10, Zenon DEF TooManyRequests, Serve, BadForm, CreateFails, SetCookie, At
  <2>2. fails' = fails
    BY <1>3, <1>10, Zenon DEF TooManyRequests, Serve, BadForm, CreateFails, SetCookie
  <2> QED BY <1>2, <2>1, <2>2
<1>11. CASE CheckCredential(h) \/ CheckCookie(h) \/ WrongToken(h) \/ StoreSession(h)
            \/ \E i \in Ids : CreateSession(h, i)
  <2>1. /\ stage[h] # "denied"
        /\ \E s \in {"cookie", "admit", "deny", "login", "create"} : Proceed(h, s)
    BY <1>11, Zenon DEF CheckCredential, CheckCookie, WrongToken, StoreSession, CreateSession, At
  <2>2. fails' = fails
    BY <1>11, Zenon DEF CheckCredential, CheckCookie, WrongToken, StoreSession, CreateSession, Alone, InStore,
                 limiterOnly
  <2> QED BY <1>1, <2>1, <2>2
<1> QED BY <1>4, <1>5, <1>6, <1>7, <1>8, <1>9, <1>10, <1>11 DEF HandlerStep

\* Every step keeps the type of the counters.
LEMMA FailuresTypedStep ==
  ASSUME FailuresTyped, [AccessNext]_accessVars PROVE FailuresTyped'
<1>1. ASSUME NEW r \in {"invalid_token", "rate_limited", "csrf_blocked"}, Record(r) PROVE FailuresTyped'
  BY <1>1 DEF Record, FailuresTyped
<1>2. ASSUME UNCHANGED failures PROVE FailuresTyped'
  BY <1>2 DEF FailuresTyped
<1>3. ASSUME NEW h \in Handlers, csrfOriginCheck(h) \/ RateLimited(h) \/ denyRequest(h)
      PROVE  FailuresTyped'
  BY <1>1, <1>2, <1>3, Zenon DEF csrfOriginCheck, RateLimited, denyRequest, Proceed
<1>5. ASSUME NEW h \in Handlers, NEW r \in Requests, NEW c \in Ids \cup {None}, Arrive(h, r, c)
      PROVE  FailuresTyped'
  BY <1>2, <1>5, Zenon DEF Arrive
<1>6. ASSUME NEW h \in Handlers,
             \/ logoutHandler(h) \/ TooManyRequests(h) \/ Serve(h) \/ BadForm(h) \/ CreateFails(h)
             \/ SetCookie(h)
      PROVE  FailuresTyped'
  BY <1>2, <1>6, Zenon DEF logoutHandler, TooManyRequests, Serve, BadForm, CreateFails, SetCookie
<1>7. ASSUME NEW h \in Handlers,
             \/ CheckLimit(h) \/ CheckCredential(h) \/ CheckCookie(h) \/ WrongToken(h)
             \/ StoreSession(h) \/ ChargeFailure(h) \/ \E i \in Ids : CreateSession(h, i)
      PROVE  FailuresTyped'
  <2>1. \E s \in Stages : Proceed(h, s)
    BY <1>7, Zenon DEF CheckLimit, CheckCredential, CheckCookie, WrongToken, StoreSession, ChargeFailure,
                CreateSession, Stages
  <2> QED BY <1>2, <2>1 DEF Proceed
<1>8. ASSUME NEW h \in Handlers, AskLimiter(h) \/ Deny(h) PROVE FailuresTyped'
  BY <1>2, <1>8 DEF AskLimiter, Deny, request
<1>4. CASE AccessTick \/ Sweepers \/ UNCHANGED accessVars
  BY <1>2, <1>4 DEF AccessTick, Sweepers, accessVars, request
<1> QED BY <1>3, <1>4, <1>5, <1>6, <1>7, <1>8 DEF AccessNext, HandlerStep

\* Exactly the failed authentications are charged, and each is counted.
THEOREM ChargesAreCounted == AccessSpec => []ChargedIsCounted
<1> DEFINE Count == Total(fails, IPs) = failures["invalid_token"] + Cardinality(Denied)
<1>1. Count <=> ChargedIsCounted
  BY DEF ChargedIsCounted, Total, Denied
<1>2. AccessInit => Count /\ FailuresTyped
  <2> SUFFICES ASSUME AccessInit PROVE Count /\ FailuresTyped
    OBVIOUS
  <2>1. Denied = {} /\ failures["invalid_token"] = 0 /\ FailuresTyped /\ fails = [i \in IPs |-> 0]
    BY DEF AccessInit, LimiterInit, Denied, At, FailuresTyped
  <2>2. Total(fails, IPs) = 0
    BY <2>1, TotalOfZeros, LimiterAssumption DEF LimiterAssumption
  <2> QED BY <2>1, <2>2, FS_EmptySet
<1>3. RequestTypeOK /\ LimiterTypeOK /\ FailuresTyped /\ Count /\ [AccessNext]_accessVars
        => Count' /\ FailuresTyped'
  <2> SUFFICES ASSUME RequestTypeOK, LimiterTypeOK, FailuresTyped, Count, [AccessNext]_accessVars
               PROVE  Count'
    BY FailuresTypedStep
  <2> USE DEF Count
  <2>0. /\ IsFiniteSet(Denied) /\ Cardinality(Denied) \in Nat /\ failures["invalid_token"] \in Nat
        /\ IsFiniteSet(Handlers) /\ IsFiniteSet(IPs)
    <3>1. IsFiniteSet(Handlers) /\ IsFiniteSet(IPs)
      BY LimiterAssumption DEF LimiterAssumption
    <3>2. IsFiniteSet(Denied)
      BY <3>1, FS_Subset DEF Denied
    <3> QED BY <3>1, <3>2, FS_CardinalityType DEF FailuresTyped
  <2>1. ASSUME fails' = fails, failures'["invalid_token"] = failures["invalid_token"], Denied' = Denied
        PROVE  Count'
    BY <2>1
  <2>2. ASSUME NEW h \in Handlers, ChargeFailure(h) PROVE Count'
    <3>1. /\ stage[h] = "deny" /\ stage' = [stage EXCEPT ![h] = "denied"] /\ failures' = failures
          /\ fails' = [fails EXCEPT ![ip[h]] = @ + 1] /\ ip[h] \in IPs
      BY <2>2, Zenon DEF ChargeFailure, At, Proceed, RegisterFailure, LimiterTypeOK
    <3>2. h \notin Denied /\ Denied' = Denied \cup {h}
      BY <3>1 DEF Denied, At, RequestTypeOK
    <3>3. Cardinality(Denied') = Cardinality(Denied) + 1
      BY <2>0, <3>2, FS_AddElement, Zenon
    <3>4. fails \in [IPs -> Nat] /\ fails' \in [IPs -> Nat]
      BY <3>1 DEF LimiterTypeOK
    <3>5. Total(fails, IPs) \in Nat /\ Total(fails', IPs) = Total(fails, IPs) + 1
      BY <2>0, <3>1, <3>4, TotalBumps, Zenon
    <3>6. Total(fails, IPs)' = Total(fails', IPs)
      OBVIOUS
    <3> QED BY <2>0, <3>1, <3>3, <3>5, <3>6
  <2>3. ASSUME NEW h \in Handlers, denyRequest(h) PROVE Count'
    <3>1. /\ stage[h] = "denied" /\ stage' = [stage EXCEPT ![h] = "idle"] /\ fails' = fails
          /\ failures'["invalid_token"] = failures["invalid_token"] + 1
      BY <2>3 DEF denyRequest, At, Respond, Record, Alone, limiterOnly, FailuresTyped
    <3>2. h \in Denied /\ Denied' = Denied \ {h}
      BY <3>1 DEF Denied, At, RequestTypeOK
    <3>3. Cardinality(Denied') = Cardinality(Denied) - 1
      BY <2>0, <3>2, FS_RemoveElement, Zenon
    <3>4. Total(fails, IPs)' = Total(fails, IPs)
      BY <3>1
    <3> QED BY <2>0, <3>1, <3>3, <3>4
  <2>4. ASSUME NEW h \in Handlers, HandlerStep(h), ~ChargeFailure(h), ~denyRequest(h) PROVE Count'
    <3>1. Uncharged(h)
      BY <2>4, UnchargedSteps
    <3>2. Denied' = Denied
      BY <3>1 DEF Uncharged, Denied, At
    <3> QED BY <2>1, <3>1, <3>2 DEF Uncharged
  <2>5. CASE AccessTick \/ Sweepers \/ UNCHANGED accessVars
    <3>1. UNCHANGED request
      BY <2>5 DEF AccessTick, Sweepers, accessVars
    <3>2. UNCHANGED fails
      BY <2>5 DEF AccessTick, Sweepers, InStore, limiterOnly, accessVars, LimiterSweepClock, sweep
    <3>3. Denied' = Denied /\ failures' = failures
      BY <3>1 DEF Denied, At, request
    <3> QED BY <2>1, <3>2, <3>3
  <2> QED BY <2>2, <2>3, <2>4, <2>5 DEF AccessNext
<1>4. AccessSpec => []LimiterTypeOK
  BY HandlersKeepProtocols, LimiterTypeCorrect, PTL DEF ProtocolsKept
<1>5. AccessSpec => []Count
  <2> HIDE DEF Count
  <2> QED BY <1>2, <1>3, <1>4, RequestTypeCorrect, PTL DEF AccessSpec
<1> QED BY <1>1, <1>5, PTL

\* Both together: the answers match the credentials, and so do the charges.
THEOREM OutcomesAreJustified == AccessSpec => []OutcomesJustified
  BY AnswersAreJustified, ChargesAreCounted, PTL DEF OutcomesJustified
==============================================================================
