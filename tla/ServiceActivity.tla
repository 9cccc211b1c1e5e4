--------------------------- MODULE ServiceActivity ---------------------------
(***************************************************************************)
(* The services page and the service list of the explorer: ServicesSeen    *)
(* and ServiceStats of the reader that serviceAggregateReader picks, while *)
(* records are written and swept.  Over SQLite ServiceStats is two         *)
(* queries, the requests and then the response events, and the store may   *)
(* change in between.                                                      *)
(***************************************************************************)
EXTENDS Integers, FiniteSets, FiniteSetsExt, Functions

CONSTANTS
  Records,   \* [id, kind, ts, service, status]
  Services,
  Enabled,   \* the sinks that can be read: a subset of {"memory", "sqlite"}
  Sinces     \* the times the window may begin

VARIABLES
  db,        \* the records in the store of the reader
  pc,        \* of the handler: "idle", "events" between the queries, "done"
  since,     \* the beginning of the window asked for
  stats,     \* the ServiceStat of each service reported
  seen,      \* the answer of ServicesSeen at the time of the first query
  kept, met  \* history: the records that were there throughout, and at any time

vars == <<db, pc, since, stats, seen, kept, met>>

\* SQLite is preferred: the ring is bounded, and empty after a restart.
serviceAggregateReader == IF "sqlite" \in Enabled THEN "sqlite" ELSE "memory"

Init ==
  /\ db = {}
  /\ pc = "idle"
  /\ since = 0
  /\ stats = <<>>
  /\ seen = {}
  /\ kept = {}
  /\ met = {}

\* Mutant: a record of the very time the window begins is left out.
InWindow_Open(from, r) == r.ts > from

InWindow(from, r) == r.ts >= from

OfKind(set, kind) == {r \in set : r.kind = kind}

Of(set, s) == {r \in set : r.service = s}

Window(from) == {r \in db : InWindow(from, r)}

\* Memory looks at records of every kind, SQLite at captured_requests only.
ServicesSeen(from) ==
  {r.service : r \in IF serviceAggregateReader = "sqlite"
                     THEN OfKind(Window(from), "request") ELSE Window(from)}

Classes == {0, 2, 3, 4, 5}

addStatusClass(code) == IF code >= 200 /\ code < 600 THEN code \div 100 ELSE 0

Mix(responses) ==
  [c \in Classes |-> Cardinality({r \in responses : addStatusClass(r.status) = c})]

LastSeen(set) == Max({0} \cup {r.ts : r \in set})

\* The stat of a service from the requests and responses counted so far, and
\* the records whose timestamps LastSeen considers.
Stat(requests, responses, stamped) ==
  [requests |-> Cardinality(requests), mix |-> Mix(responses), last |-> LastSeen(stamped)]

Begin(from) ==
  /\ pc = "idle"
  /\ since' = from
  /\ seen' = ServicesSeen(from)
  /\ kept' = db
  /\ met' = db
  /\ UNCHANGED db

MemoryServiceStats(from) ==
  /\ serviceAggregateReader = "memory"
  /\ Begin(from)
  /\ pc' = "done"
  /\ stats' = [s \in {r.service : r \in Window(from)} |->
                 LET mine == Of(Window(from), s) IN
                 Stat(OfKind(mine, "request"), OfKind(mine, "response"), mine)]

SQLiteRequests(from) ==
  /\ serviceAggregateReader = "sqlite"
  /\ Begin(from)
  /\ pc' = "events"
  /\ stats' = [s \in {r.service : r \in OfKind(Window(from), "request")} |->
                 LET mine == OfKind(Of(Window(from), s), "request") IN
                 Stat(mine, {}, mine)]

Blank == [requests |-> 0, mix |-> [c \in Classes |-> 0], last |-> 0]

SQLiteEvents ==
  /\ pc = "events"
  /\ pc' = "done"
  /\ stats' =
       LET responses == OfKind(Window(since), "response")
           before(s) == IF s \in DOMAIN stats THEN stats[s] ELSE Blank IN
       [s \in DOMAIN stats \cup {r.service : r \in responses} |->
          [before(s) EXCEPT !.mix = Mix(Of(responses, s)),
                            !.last = Max({@, LastSeen(Of(responses, s))})]]
  /\ UNCHANGED <<db, since, seen, kept, met>>

\* buildServiceCard: the segments of the bar, one for each class that occurs.
Segments(st) == {c \in Classes : st.mix[c] > 0}

Responses(st) == MapThenSumSet(LAMBDA c : st.mix[c], Classes)

\* The page is rendered and the handler is done.
Render ==
  /\ pc = "done"
  /\ pc' = "idle"
  /\ since' = 0
  /\ stats' = <<>>
  /\ seen' = {}
  /\ kept' = {}
  /\ met' = {}
  /\ UNCHANGED db

Write(r) ==
  /\ r \notin db
  /\ pc # "done"
  /\ db' = db \cup {r}
  /\ met' = IF pc = "events" THEN met \cup {r} ELSE met
  /\ UNCHANGED <<pc, since, stats, seen, kept>>

Sweep(cutoff) ==
  /\ pc # "done"
  /\ db' = {r \in db : r.ts >= cutoff}
  /\ db' # db
  /\ kept' = kept \cap db'
  /\ UNCHANGED <<pc, since, stats, seen, met>>

Next ==
  \/ \E r \in Records : Write(r)
  \/ \E from \in Sinces : \/ MemoryServiceStats(from) \/ SQLiteRequests(from)
                          \/ Sweep(from)
  \/ SQLiteEvents
  \/ Render

Spec == Init /\ [][Next]_vars

-----------------------------------------------------------------------------
Counts(set, kind, s) == Cardinality({r \in OfKind(Of(set, s), kind) : r.ts >= since})

Reported(s) == IF s \in DOMAIN stats THEN stats[s] ELSE Blank

\* A card counts at least the requests and responses of the window that were
\* stored throughout the two queries and at most those stored at some time
\* during them, and its bar adds up to its responses.
StatsBounded ==
  pc = "done" =>
    \A s \in Services :
      /\ Counts(kept, "request", s) <= Reported(s).requests
      /\ Reported(s).requests <= Counts(met, "request", s)
      /\ Counts(kept, "response", s) <= Responses(Reported(s))
      /\ Responses(Reported(s)) <= Counts(met, "response", s)
      /\ Responses(Reported(s)) =
           MapThenSumSet(LAMBDA c : Reported(s).mix[c], Segments(Reported(s)))

\* A service offered in the list of the explorer has a card, and so has every
\* service with a request or a response that stayed in the window.
SeenHaveCards ==
  pc = "done" =>
    /\ seen \subseteq DOMAIN stats
    /\ {r.service : r \in {x \in kept : x.ts >= since /\ x.kind # "outbound"}}
         \subseteq DOMAIN stats

Quiet == kept = met

-----------------------------------------------------------------------------
\* What the comment of Reader.ServiceStats says: "The set of services matches
\* ServicesSeen over the same window."
ServicesMatchSeen == pc = "done" /\ Quiet => DOMAIN stats = seen

\* What the comment of ServiceStat says: "LastSeen is the most recent record of
\* any kind carrying the service."
LastSeenAnyKind ==
  pc = "done" /\ Quiet =>
    \A s \in DOMAIN stats : stats[s].last = LastSeen({r \in Of(db, s) : r.ts >= since})

=============================================================================
