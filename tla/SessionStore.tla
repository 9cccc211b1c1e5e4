----------------------------- MODULE SessionStore -----------------------------
(***************************************************************************)
(* SessionStore: the sessions of the admin port, in memory.  Request       *)
(* handlers create, validate and revoke sessions while a sweeper deletes   *)
(* the expired ones.  Every method reads the clock outside its critical    *)
(* section, so that each is two steps with anything in between.            *)
(***************************************************************************)
EXTENDS AdminPort

CONSTANTS
  Ids,         \* session ids; rand.Read never repeats one
  TTL,         \* admin.session_ttl, validated to be positive
  MaxRestarts

ASSUME SessionAssumption ==
  /\ None \notin Ids
  /\ TTL \in Nat \ {0}
  /\ MaxTime \in Nat /\ MaxRestarts \in Nat

VARIABLES
  sessions,   \* ExpiresAt of each session in the map, or None
  storePc,         \* what each handler is in the middle of
  id,         \* the session id each handler works on
  expires,    \* the handler's local ExpiresAt
  storeSweep,   \* the clock as Sweep read it, or None outside Sweep
  restarts,
  expiry,     \* history: ExpiresAt of every id whose Create has returned
  revoked,    \* history: ids whose Revoke has returned, or that a restart lost
  wasGood,    \* history: the session was valid at some point of the handler's call
  wasBad,     \* history: it was not at some point of the handler's call
  answer      \* history: the last result of Validate

shared == <<clock, sessions, storeSweep, restarts, expiry, revoked>>
storeVars == <<clock, sessions, storePc, id, expires, storeSweep, restarts, expiry, revoked,
          wasGood, wasBad, answer>>

StoreInit ==
  /\ clock = 0
  /\ sessions = [i \in Ids |-> None]
  /\ storePc = [h \in Handlers |-> "idle"]
  /\ id = [h \in Handlers |-> None]
  /\ expires = [h \in Handlers |-> None]
  /\ storeSweep = None
  /\ restarts = 0
  /\ expiry = [i \in Ids |-> None]
  /\ revoked = {}
  /\ wasGood = [h \in Handlers |-> FALSE]
  /\ wasBad = [h \in Handlers |-> FALSE]
  /\ answer = [h \in Handlers |-> "none"]

-----------------------------------------------------------------------------
\* ExpiresAt.After(now), for a session found in the map.
Unexpired(e, now) == e # None /\ e > now

ValidNow(i) == Unexpired(sessions[i], clock)

\* Every step shows the validity of its session to the calls under way.
Observe(s, now) ==
  /\ wasGood' = [h \in Handlers |->
                  wasGood[h] \/ (storePc[h] = "validate" /\ Unexpired(s[id[h]], now))]
  /\ wasBad' = [h \in Handlers |->
                 wasBad[h] \/ (storePc[h] = "validate" /\ ~Unexpired(s[id[h]], now))]

StoreTick ==
  /\ clock < MaxTime
  /\ clock' = clock + 1
  /\ Observe(sessions, clock')
  /\ UNCHANGED <<sessions, storePc, id, expires, storeSweep, restarts, expiry, revoked, answer>>

\* Create: the id is drawn and ExpiresAt computed before the lock is taken.  When
\* rand.Read fails nothing happens.
CreateCompute(h, i) ==
  /\ storePc[h] = "idle"
  /\ expiry[i] = None /\ \A g \in Handlers : storePc[g] = "create" => id[g] # i
  /\ storePc' = [storePc EXCEPT ![h] = "create"]
  /\ id' = [id EXCEPT ![h] = i]
  /\ expires' = [expires EXCEPT ![h] = clock + TTL]
  /\ UNCHANGED <<shared, wasGood, wasBad, answer>>

CreateStore(h) ==
  /\ storePc[h] = "create"
  /\ sessions' = [sessions EXCEPT ![id[h]] = expires[h]]
  /\ expiry' = [expiry EXCEPT ![id[h]] = expires[h]]
  /\ storePc' = [storePc EXCEPT ![h] = "idle"]
  /\ expires' = [expires EXCEPT ![h] = None]
  /\ id' = [id EXCEPT ![h] = None]
  /\ Observe(sessions', clock)
  /\ UNCHANGED <<clock, storeSweep, restarts, revoked, answer>>

\* Validate: the map is read under RLock, the clock after RUnlock.  The id comes
\* from a cookie, so it is one that Create has returned.
ValidateLookup(h, i) ==
  /\ storePc[h] = "idle" /\ expiry[i] # None
  /\ storePc' = [storePc EXCEPT ![h] = "validate"]
  /\ id' = [id EXCEPT ![h] = i]
  /\ expires' = [expires EXCEPT ![h] = sessions[i]]
  /\ wasGood' = [wasGood EXCEPT ![h] = ValidNow(i)]
  /\ wasBad' = [wasBad EXCEPT ![h] = ~ValidNow(i)]
  /\ answer' = [answer EXCEPT ![h] = "none"]
  /\ UNCHANGED shared

\* Mutant: the lookup of an expired session is not refused.
ValidateDecide_NoExpiry(h) ==
  /\ storePc[h] = "validate"
  /\ answer' = [answer EXCEPT ![h] = IF expires[h] # None THEN "yes" ELSE "no"]
  /\ storePc' = [storePc EXCEPT ![h] = "idle"]
  /\ id' = [id EXCEPT ![h] = None]
  /\ expires' = [expires EXCEPT ![h] = None]
  /\ UNCHANGED <<shared, wasGood, wasBad>>

ValidateDecide(h) ==
  /\ storePc[h] = "validate"
  /\ answer' = [answer EXCEPT ![h] = IF Unexpired(expires[h], clock) THEN "yes" ELSE "no"]
  /\ storePc' = [storePc EXCEPT ![h] = "idle"]
  /\ id' = [id EXCEPT ![h] = None]
  /\ expires' = [expires EXCEPT ![h] = None]
  /\ UNCHANGED <<shared, wasGood, wasBad>>

\* Revoke, as logoutHandler calls it for the cookie it was sent.
Revoke(h, i) ==
  /\ storePc[h] = "idle" /\ expiry[i] # None
  /\ sessions' = [sessions EXCEPT ![i] = None]
  /\ revoked' = revoked \cup {i}
  /\ answer' = [answer EXCEPT ![h] = "none"]
  /\ Observe(sessions', clock)
  /\ UNCHANGED <<clock, storePc, id, expires, storeSweep, restarts, expiry>>

-----------------------------------------------------------------------------
\* Sweep: the clock, then the lock.
StoreSweepClock ==
  /\ storeSweep = None
  /\ storeSweep' = clock
  /\ UNCHANGED <<clock, sessions, storePc, id, expires, restarts, expiry, revoked,
                 wasGood, wasBad, answer>>

\* Mutant: the sweep takes sessions that are about to expire.
Stale_Early(i) == sessions[i] # None /\ sessions[i] <= storeSweep + 1

Stale(i) == sessions[i] # None /\ sessions[i] < storeSweep

SweepDelete ==
  /\ storeSweep # None
  /\ sessions' = [i \in Ids |-> IF Stale(i) THEN None ELSE sessions[i]]
  /\ storeSweep' = None
  /\ Observe(sessions', clock)
  /\ UNCHANGED <<clock, storePc, id, expires, restarts, expiry, revoked, answer>>

\* Sessions are lost on process restart by design.
Restart ==
  /\ restarts < MaxRestarts
  /\ restarts' = restarts + 1
  /\ sessions' = [i \in Ids |-> None]
  /\ storePc' = [h \in Handlers |-> "idle"]
  /\ id' = [h \in Handlers |-> None]
  /\ expires' = [h \in Handlers |-> None]
  /\ storeSweep' = None
  /\ revoked' = revoked \cup {i \in Ids : expiry[i] # None}
  /\ wasGood' = [h \in Handlers |-> FALSE]
  /\ wasBad' = [h \in Handlers |-> FALSE]
  /\ answer' = [h \in Handlers |-> "none"]
  /\ UNCHANGED <<clock, expiry>>

StoreNext ==
  \/ StoreTick
  \/ \E h \in Handlers :
       \/ \E i \in Ids : CreateCompute(h, i) \/ ValidateLookup(h, i) \/ Revoke(h, i)
       \/ CreateStore(h) \/ ValidateDecide(h)
  \/ StoreSweepClock \/ SweepDelete
  \/ Restart

StoreSpec == StoreInit /\ [][StoreNext]_storeVars

-----------------------------------------------------------------------------
StoreTypeOK ==
  /\ clock \in 0..MaxTime
  /\ sessions \in [Ids -> Nat \cup {None}]
  /\ storePc \in [Handlers -> {"idle", "create", "validate"}]
  /\ id \in [Handlers -> Ids \cup {None}]
  /\ expires \in [Handlers -> Nat \cup {None}]
  /\ storeSweep \in 0..MaxTime \cup {None}
  /\ restarts \in 0..MaxRestarts
  /\ expiry \in [Ids -> Nat \cup {None}]
  /\ revoked \subseteq Ids
  /\ wasGood \in [Handlers -> BOOLEAN] /\ wasBad \in [Handlers -> BOOLEAN]
  /\ answer \in [Handlers -> {"none", "yes", "no"}]

\* A user stays logged in: a session that was handed out, not revoked and not
\* yet expired is in the map, however late the sweep runs with the clock it read.
LiveKept ==
  \A i \in Ids : i \notin revoked /\ expiry[i] # None /\ expiry[i] >= clock =>
                   sessions[i] = expiry[i]

\* Revoke and restart are final: such a session never comes back to the map.
RevokedGone == \A i \in revoked : sessions[i] = None

\* A session is in the map from its creation until it expires or is revoked, and
\* never after it was revoked: LiveKept and RevokedGone.
SessionsExact == LiveKept /\ RevokedGone

\* The answer of Validate is the truth at some moment of the call, although it
\* puts together a map entry and a clock read at different times, with a sweep, a
\* logout or a new session in between.
ValidateTruthful ==
  \A h \in Handlers : /\ answer[h] = "yes" => wasGood[h]
                      /\ answer[h] = "no" => wasBad[h]
==============================================================================
