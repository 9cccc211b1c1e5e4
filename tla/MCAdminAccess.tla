---------------------------- MODULE MCAdminAccess ----------------------------
(* The session store and the limiter by themselves, with callers that do all
   that their modules allow, and the handlers that drive both.  The scenario says
   which of the three a behaviour is about.  The handlers have smaller bounds:
   one session, requests from one address, and less time. *)
EXTENDS AdminAccess, TLC

CONSTANTS
  AccessTime,   \* bound on the clock with the handlers
  MaxLag        \* bound on how late the failures of an address are, altogether

VARIABLE scenario

Request(route, bearer, site, origin) ==
  [route |-> route, bearer |-> bearer, site |-> site, origin |-> origin]

\* To Middleware a wrong token is the same as none: pages come with one, so that
\* it stands beside their cookie, and events come without.
MCRequests ==
  {Request("page", "bad", "", "")}
  \cup {Request("events", b, "", "") : b \in {"", "good"}}
  \cup {Request("login", b, "same-origin", "host") : b \in {"", "bad", "good"}}
  \cup {Request("logout", "", s, "") : s \in {"none", "cross-site"}}

Used == {i \in Ids : expiry[i] # None} \cup {id[h] : h \in {g \in Handlers : storePc[g] = "create"}}

Small == clock <= AccessTime /\ Cardinality(Used) <= 1

MCInit ==
  /\ scenario \in {"store", "limiter", "access"}
  /\ AccessInit
  /\ scenario # "limiter" => \A g, h \in Handlers : ip[g] = ip[h]

\* The limiter by itself has no handlers that count: the failures it registers
\* count at once.
Counted ==
  failures' = [failures EXCEPT !["invalid_token"] = MapThenSumSet(LAMBDA i : fails'[i], IPs)]

MCNext ==
  /\ UNCHANGED scenario
  /\ \/ scenario = "store" /\ StoreNext /\ UNCHANGED <<limiterOnly, request>>
     \/ /\ scenario = "limiter" /\ LimiterNext /\ Counted /\ \A i \in IPs : lag'[i] <= MaxLag
        /\ UNCHANGED <<storeOnly, stage, req, cookie, status, late, arrivals>>
     \/ scenario = "access" /\ AccessNext /\ Small'

MCSpec == MCInit /\ [][MCNext]_<<accessVars, scenario>>

Symmetry == Permutations(Handlers) \cup Permutations(Ids) \cup Permutations(IPs)
==============================================================================
