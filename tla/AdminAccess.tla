----------------------------- MODULE AdminAccess -----------------------------
(***************************************************************************)
(* Requests to the admin port on their way through the origin check, the   *)
(* limiter and the credential check: Middleware, loginPostHandler and      *)
(* logoutHandler.  They drive the session store and the limiter, each with *)
(* the steps of its own module, by one clock.  Handlers interleave between *)
(* all of these steps.                                                     *)
(***************************************************************************)
EXTENDS SessionStore, AuthLimiter, FiniteSetsExt

CONSTANTS
  Requests,      \* what requests may carry apart from a cookie
  AdminToken,    \* admin.token, "" when it is not configured
  MaxRequests    \* bound on the requests

ASSUME RequestAssumption == Requests # {}

VARIABLES
  stage,    \* how far each handler is with its request
  req,      \* the request
  cookie,   \* the session its cookie names, or None
  status,   \* the answer, "none" before there is one
  late,     \* history: the session had been revoked when the request arrived
  failures, \* the limiter's counters, by reason
  arrivals  \* how many requests there have been

storeOnly == <<sessions, storePc, id, expires, storeSweep, restarts, expiry, revoked,
               wasGood, wasBad, answer>>
limiterOnly == <<perIP, global, limiterPc, ip, now, limiterSweep, promise, fails, lag>>
request == <<stage, req, cookie, status, late, failures, arrivals>>
accessVars == <<clock, storeOnly, limiterOnly, request>>

AccessInit ==
  /\ StoreInit
  /\ LimiterInit
  /\ stage = [h \in Handlers |-> "idle"]
  /\ req = [h \in Handlers |-> CHOOSE r \in Requests : TRUE]
  /\ cookie = [h \in Handlers |-> None]
  /\ status = [h \in Handlers |-> "none"]
  /\ late = [h \in Handlers |-> FALSE]
  /\ failures = [r \in {"invalid_token", "rate_limited", "csrf_blocked"} |-> 0]
  /\ arrivals = 0

-----------------------------------------------------------------------------
originMatchesHost(origin) == origin = "host"

\* The origin of a request is "" (no header), "host", "null" or "other".
isSameOrigin(r) ==
  CASE r.site \in {"same-origin", "none"} -> TRUE
    [] r.site = "same-site" -> originMatchesHost(r.origin)
    [] r.site = "" -> r.origin = "" \/ originMatchesHost(r.origin)
    [] OTHER -> FALSE

checkBearer(presented) == AdminToken # "" /\ presented = AdminToken

\* WithCookieAuth(false) on POST /events.
cookieAuth(r) == r.route = "page"

Guarded(r) == r.route \in {"login", "logout"}

\* A step of the handler that involves neither store nor limiter.
Alone == UNCHANGED <<clock, storeOnly, limiterOnly>>
\* One that is also a step of the store or of the limiter.
InStore == UNCHANGED limiterOnly
InLimiter == UNCHANGED storeOnly

At(h, s) == stage[h] = s

Proceed(h, s) ==
  /\ stage' = [stage EXCEPT ![h] = s]
  /\ UNCHANGED <<req, cookie, status, late, failures, arrivals>>

Respond(h, code) ==
  /\ stage' = [stage EXCEPT ![h] = "idle"]
  /\ status' = [status EXCEPT ![h] = code]
  /\ UNCHANGED <<req, cookie, late, arrivals>>

Record(reason) == failures' = [failures EXCEPT ![reason] = @ + 1]

-----------------------------------------------------------------------------
\* A request arrives, with the cookie of a session that Create has returned or with
\* none.
Arrive(h, r, c) ==
  /\ At(h, "idle")
  /\ arrivals < MaxRequests
  /\ arrivals' = arrivals + 1
  /\ c # None => expiry[c] # None
  /\ stage' = [stage EXCEPT ![h] = IF Guarded(r) THEN "origin" ELSE "limit"]
  /\ req' = [req EXCEPT ![h] = r]
  /\ cookie' = [cookie EXCEPT ![h] = c]
  /\ late' = [late EXCEPT ![h] = c \in revoked]
  /\ status' = [status EXCEPT ![h] = "none"]
  /\ Alone /\ UNCHANGED failures

csrfOriginCheck(h) ==
  /\ At(h, "origin")
  /\ Alone
  /\ IF isSameOrigin(req[h])
       THEN Proceed(h, IF req[h].route = "login" THEN "limit" ELSE "logout")
       ELSE Record("csrf_blocked") /\ Respond(h, "403")

\* Mutants: logout only clears the cookie; logout empties the store.
logoutHandler_CookieOnly(h) ==
  /\ At(h, "logout")
  /\ IF cookie[h] = None THEN UNCHANGED <<clock, storeOnly>>
     ELSE revoked' = revoked \cup {cookie[h]} /\ UNCHANGED <<clock, sessions, storePc, id,
            expires, storeSweep, restarts, expiry, wasGood, wasBad, answer>>
  /\ InStore /\ Respond(h, "303") /\ UNCHANGED failures

logoutHandler(h) ==
  /\ At(h, "logout")
  /\ IF cookie[h] = None THEN UNCHANGED <<clock, storeOnly>> ELSE Revoke(h, cookie[h])
  /\ InStore
  /\ Respond(h, "303") /\ UNCHANGED failures

\* The limiter comes first, for a login and for every route behind Middleware.
AskLimiter(h) ==
  /\ At(h, "limit") /\ limiterPc[h] = "idle"
  /\ ReadClock(h, "idle", "allowed?")
  /\ InLimiter /\ UNCHANGED request

CheckLimit(h) ==
  /\ At(h, "limit")
  /\ Allowed(h)
  /\ InLimiter
  /\ Proceed(h, IF limiterPc'[h] = "authenticate" THEN "authenticate" ELSE "limited")

\* RecordRateLimited, and RetryAfter reads the clock.
RateLimited(h) ==
  /\ At(h, "limited")
  /\ ReadClock(h, "refused", "refusing")
  /\ InLimiter
  /\ stage' = [stage EXCEPT ![h] = "refusing"]
  /\ Record("rate_limited")
  /\ UNCHANGED <<req, cookie, status, late, arrivals>>

TooManyRequests(h) ==
  /\ At(h, "refusing")
  /\ Refuse(h)
  /\ InLimiter
  /\ Respond(h, "429") /\ UNCHANGED failures

-----------------------------------------------------------------------------
(* authenticate *)

HasBearer(h) == req[h].bearer # "" /\ checkBearer(req[h].bearer)

\* The bearer token, and then the cookie where the route takes one.
CheckCredential(h) ==
  /\ At(h, "authenticate") /\ req[h].route \in {"page", "events"}
  /\ IF ~HasBearer(h) /\ cookieAuth(req[h]) /\ cookie[h] # None
       THEN ValidateLookup(h, cookie[h]) /\ InStore /\ Proceed(h, "cookie")
       ELSE Alone /\ Proceed(h, IF HasBearer(h) THEN "admit" ELSE "deny")

CheckCookie(h) ==
  /\ At(h, "cookie")
  /\ ValidateDecide(h)
  /\ InStore
  /\ Proceed(h, IF answer'[h] = "yes" THEN "admit" ELSE "deny")

\* next.ServeHTTP.
Serve(h) ==
  /\ At(h, "admit")
  /\ NoFailure(h)
  /\ InLimiter
  /\ Respond(h, "served") /\ UNCHANGED failures

-----------------------------------------------------------------------------
(* loginPostHandler, after the limiter *)

\* The form does not parse or has no token.
BadForm(h) ==
  /\ At(h, "authenticate") /\ req[h].route = "login" /\ req[h].bearer = ""
  /\ NoFailure(h)
  /\ InLimiter
  /\ Respond(h, "400") /\ UNCHANGED failures

WrongToken(h) ==
  /\ At(h, "authenticate") /\ req[h].route = "login"
  /\ req[h].bearer # "" /\ ~checkBearer(req[h].bearer)
  /\ Alone /\ Proceed(h, "deny")

\* crypto/rand fails.
CreateFails(h) ==
  /\ At(h, "authenticate") /\ req[h].route = "login" /\ checkBearer(req[h].bearer)
  /\ NoFailure(h)
  /\ InLimiter
  /\ Respond(h, "500") /\ UNCHANGED failures

CreateSession(h, i) ==
  /\ At(h, "authenticate") /\ req[h].route = "login" /\ checkBearer(req[h].bearer)
  /\ CreateCompute(h, i)
  /\ InStore
  /\ Proceed(h, "create")

StoreSession(h) ==
  /\ At(h, "create")
  /\ CreateStore(h)
  /\ InStore
  /\ Proceed(h, "login")

SetCookie(h) ==
  /\ At(h, "login")
  /\ NoFailure(h)
  /\ InLimiter
  /\ Respond(h, "303") /\ UNCHANGED failures

-----------------------------------------------------------------------------
(* A failed authentication, of either handler *)

\* Mutant: the failure of a request is registered when it is refused, too.
Deny_Limited(h) ==
  \/ /\ At(h, "deny") /\ InLimiter /\ UNCHANGED request
     /\ ReadClock(h, "authenticate", "failing")
  \/ /\ At(h, "limited") /\ InLimiter /\ Proceed(h, "deny")
     /\ ReadClock(h, "refused", "failing")

\* RegisterFailure reads the clock.
Deny(h) ==
  /\ At(h, "deny")
  /\ ReadClock(h, "authenticate", "failing")
  /\ InLimiter /\ UNCHANGED request

ChargeFailure(h) ==
  /\ At(h, "deny")
  /\ RegisterFailure(h)
  /\ InLimiter
  /\ Proceed(h, "denied")

\* Mutant: the login form does not count its failures.
denyRequest_MiddlewareOnly(h) ==
  /\ At(h, "denied")
  /\ Alone
  /\ IF req[h].route = "login" THEN UNCHANGED failures ELSE Record("invalid_token")
  /\ Respond(h, "401")

\* RecordInvalidToken, then denyRequest or the login page with its error.
denyRequest(h) ==
  /\ At(h, "denied")
  /\ Alone
  /\ Record("invalid_token") /\ Respond(h, "401")

HandlerStep(h) ==
  \/ \E r \in Requests, c \in Ids \cup {None} : Arrive(h, r, c)
  \/ csrfOriginCheck(h) \/ logoutHandler(h)
  \/ AskLimiter(h) \/ CheckLimit(h) \/ RateLimited(h) \/ TooManyRequests(h)
  \/ CheckCredential(h) \/ CheckCookie(h) \/ Serve(h)
  \/ BadForm(h) \/ WrongToken(h) \/ CreateFails(h) \/ StoreSession(h) \/ SetCookie(h)
  \/ \E i \in Ids : CreateSession(h, i)
  \/ Deny(h) \/ ChargeFailure(h) \/ denyRequest(h)

\* Both have the clock in their step.
AccessTick ==
  /\ StoreTick
  /\ UNCHANGED <<limiterOnly, request>>

\* The two sweepers.
Sweepers ==
  \/ (StoreSweepClock \/ SweepDelete) /\ InStore /\ UNCHANGED request
  \/ (LimiterSweepClock \/ sweep) /\ InLimiter /\ UNCHANGED request

AccessNext == (\E h \in Handlers : HandlerStep(h)) \/ AccessTick \/ Sweepers

AccessSpec == AccessInit /\ [][AccessNext]_accessVars

-----------------------------------------------------------------------------
\* A request reaches the handler behind Middleware only with the admin token or,
\* where cookies count, with a session that was valid at some moment of it; it is
\* refused as unauthenticated only without the token and without a session that
\* was valid throughout, so sweeps, logouts of other sessions and a wrong token
\* beside a good cookie do not cost a session its access.
AnswersMatchCredential ==
  \A h \in Handlers :
    LET byCookie == req[h].route = "page" /\ cookie[h] # None IN
    /\ status[h] = "served" => HasBearer(h) \/ (byCookie /\ wasGood[h])
    /\ status[h] = "401" => ~HasBearer(h) /\ (byCookie => wasBad[h])

\* A request that arrives after the logout of its session is not served for it.
LogoutFinal ==
  \A h \in Handlers : status[h] = "served" /\ late[h] => HasBearer(h)

\* Every failure that the limiter charges to an address is counted as an invalid
\* token, and nothing else is charged: not a request that was refused for its
\* origin, its form or the rate, however the handlers interleave.
ChargedIsCounted ==
  MapThenSumSet(LAMBDA i : fails[i], IPs)
    = failures["invalid_token"] + Cardinality({h \in Handlers : At(h, "denied")})

\* Who is served had a credential, who is refused had none, and exactly the
\* refusals for a wrong credential are charged and counted.
OutcomesJustified == AnswersMatchCredential /\ ChargedIsCounted

\* The handlers use the session store in no other way than SessionStore lets a
\* caller, and the limiter as AuthLimiter assumes: each attempt is allowed before
\* it is checked, and its failure is registered once, or not at all.  What is
\* proved of the two holds of the admin port.
ProtocolsKept == StoreSpec /\ LimiterSpec

=============================================================================
