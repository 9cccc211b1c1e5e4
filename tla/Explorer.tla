------------------------------ MODULE Explorer ------------------------------
(***************************************************************************)
(* The request list as a client walks it: the query parameters of          *)
(* GET /requests and GET /ui/requests, the default window of the page, the *)
(* rule for leading wildcards, the link to the next page with its cursor,  *)
(* and the total of GET /requests/aggregate.  Time passes and records      *)
(* arrive between the requests.  One reader, which forgets nothing,        *)
(* answers them: how two readers share a page is InspectRoots' subject.    *)
(*                                                                         *)
(* A time is a number of nanoseconds; UnixNano keeps it in a signed        *)
(* integer, which here holds -Half..Half-1.                                *)
(***************************************************************************)
EXTENDS Integers, Sequences, FiniteSets, SequencesExt

CONSTANTS
  Ids,         \* the ids of the records, as numbers: ids are compared
  EventTime,   \* the timestamp an event was posted with; Null: it is stamped now
  Reader,      \* the enabled reader, "memory" or "sqlite"
  Queries,     \* parsed values of q: sets of terms
  Matching,    \* the records that match each of them
  Sinces, Untils, Limits,   \* values of the parameters, Null and Bad among them
  Window,      \* defaultExplorerWindow
  Half,        \* half the range of an integer
  MaxTime,     \* bound on the clock
  Null,        \* an absent parameter, the nil cursor, a record not yet there
  Bad          \* a value that does not parse or is out of range

VARIABLES
  clock,
  stored,   \* the timestamp of each stored record
  vals,     \* the parameters of the last request, after the defaults
  page,     \* its answer: code, rows and the parameters of the next request
  first,    \* history: the parameters of the walk's first request
  shown,    \* history: the rows of the walk so far, as the clients got them
  total,    \* what aggregate answered for the walk
  quiet     \* history: nothing was written since the walk began

vars == <<clock, stored, vals, page, first, shown, total, quiet>>

NoPage == [code |-> 0, rows |-> <<>>, next |-> Null]

Init ==
  /\ clock = 0
  /\ stored = [r \in Ids |-> Null]
  /\ vals = Null
  /\ page = NoPage
  /\ first = Null
  /\ shown = <<>>
  /\ total = Null
  /\ quiet = TRUE

-----------------------------------------------------------------------------
(* Records and their order *)

UnixNano(t) == ((t + Half) % (2 * Half)) - Half

\* The timestamp of a record as its reader has it: a column of nanoseconds, or
\* the record's own time.
Stamp(r) == IF Reader = "sqlite" THEN UnixNano(stored[r]) ELSE stored[r]
Bound(t) == IF Reader = "sqlite" THEN UnixNano(t) ELSE t

InWindow(r, v) ==
  /\ v.since # Null => Stamp(r) >= Bound(v.since)
  /\ v.until # Null => Stamp(r) < Bound(v.until)

\* The cursor that names a record: Encode writes its UnixNano, DecodeCursor
\* makes a time of it again.
Cursor(r) == [ts |-> UnixNano(Stamp(r)), id |-> r]

BelowCursor(r, c) == c = Null \/ Stamp(r) < c.ts \/ (Stamp(r) = c.ts /\ r < c.id)

Newer(r, s) == Stamp(r) > Stamp(s) \/ (Stamp(r) = Stamp(s) /\ r > s)

Selected(v) == {r \in Matching[v.q] : stored[r] # Null /\ InWindow(r, v)}

\* A query with terms is not for the memory reader.
Eligible(v) == IF Reader = "memory" /\ v.q # {} THEN {} ELSE Selected(v)

ReadRoots(v) ==
  LET rows == SetToSortSeq({r \in Eligible(v) : BelowCursor(r, v.cursor)}, Newer) IN
  IF Len(rows) > v.limit
    THEN [rows |-> SubSeq(rows, 1, v.limit), cursor |-> Cursor(rows[v.limit])]
    ELSE [rows |-> rows, cursor |-> Null]

-----------------------------------------------------------------------------
(* Parameters *)

parseInspectQuery(v) == ~ (v.junk \/ v.since = Bad \/ v.until = Bad \/ v.limit = Bad)

IndexedFields == {"host", "path", "service"}

IsUnindexedScan(q) ==
  \E t \in q : t.wildcard = "substring" /\ t.field \in IndexedFields \cup {"freeform"}

requiresNarrowing(v) ==
  \/ v.since # Null \/ v.until # Null
  \/ \E t \in v.q : t.field = "service" /\ t.wildcard = "none" /\ ~t.negated

Refused(v) == IsUnindexedScan(v.q) /\ ~requiresNarrowing(v)

\* The page shows the last day when it is asked for no window and no cursor.
Defaulted(v) ==
  IF v.path = "ui" /\ v.since = Null /\ v.until = Null /\ v.cursor = Null
    THEN [v EXCEPT !.since = clock - Window, !.until = clock]
    ELSE v

\* Mutant: the link keeps the parameters of the request, not the defaults.
NextURL_Request(v, c) ==
  IF v.path = "ui" /\ v.until = clock
    THEN [v EXCEPT !.cursor = c, !.since = Null, !.until = Null]
    ELSE [v EXCEPT !.cursor = c]

\* overrideQueryParam; a client of the API does the same with next_cursor.
NextURL(v, c) == [v EXCEPT !.cursor = c]

-----------------------------------------------------------------------------
(* Handlers *)

\* requestsHandler and requestListHandler.  The page answers a parameter that
\* does not parse with 200 and the error.
Answer(v) ==
  CASE ~parseInspectQuery(v) -> [NoPage EXCEPT !.code = IF v.path = "ui" THEN 200 ELSE 400]
    [] parseInspectQuery(v) /\ Refused(v) -> [NoPage EXCEPT !.code = 400]
    [] OTHER -> LET got == ReadRoots(v) IN
                [code |-> 200, rows |-> got.rows,
                 next |-> IF got.cursor = Null THEN Null ELSE NextURL(v, got.cursor)]

Request(v) ==
  LET w == Defaulted(v) IN
  /\ vals' = w
  /\ page' = Answer(w)

Visit ==
  /\ vals = Null
  /\ \E path \in {"ui", "api"}, junk \in BOOLEAN, s \in Sinces, u \in Untils,
        n \in Limits, q \in Queries :
       Request([path |-> path, junk |-> junk, since |-> s, until |-> u,
                limit |-> n, q |-> q, cursor |-> Null])
  /\ first' = vals'
  /\ shown' = page'.rows
  /\ quiet' = TRUE
  /\ total' = Null
  /\ UNCHANGED <<clock, stored>>

Follow ==
  /\ page.next # Null
  /\ Request(page.next)
  /\ shown' = shown \o page'.rows
  /\ UNCHANGED <<clock, stored, first, total, quiet>>

\* requestsAggregateHandler, asked with the parameters of the page on show: it
\* drops their cursor and limit.
Aggregate ==
  /\ vals # Null /\ total = Null
  /\ parseInspectQuery(vals) /\ ~Refused(vals)
  /\ total' = Cardinality(Selected(vals))
  /\ UNCHANGED <<clock, stored, vals, page, first, shown, quiet>>

Leave ==
  /\ vals # Null
  /\ vals' = Null
  /\ page' = NoPage
  /\ first' = Null
  /\ shown' = <<>>
  /\ total' = Null
  /\ quiet' = TRUE
  /\ UNCHANGED <<clock, stored>>

Write(r) ==
  /\ stored[r] = Null
  /\ stored' = [stored EXCEPT ![r] = IF EventTime[r] = Null THEN clock ELSE EventTime[r]]
  /\ quiet' = (vals = Null)
  /\ UNCHANGED <<clock, vals, page, first, shown, total>>

Tick ==
  /\ clock < MaxTime
  /\ clock' = clock + 1
  /\ UNCHANGED <<stored, vals, page, first, shown, total, quiet>>

Next == Visit \/ Follow \/ Aggregate \/ Leave \/ Tick \/ \E r \in Ids : Write(r)

Spec == Init /\ [][Next]_vars

-----------------------------------------------------------------------------
Ended == vals # Null /\ page.code = 200 /\ page.next = Null

\* "pagination must preserve the original query": a page reached by links asks
\* for the window, the filter and the page size of the first one, however much
\* later the link is followed; and a link the server made is never refused.
WalkKeepsQuery ==
  vals # Null =>
    /\ [vals EXCEPT !.cursor = Null] = first
    /\ vals.cursor # Null => page.code = 200

\* A walk that is over has shown every row it was asked for once, when nothing
\* was written meanwhile: as many as the histogram beside it counts.
TotalCountsWalk ==
  Ended /\ quiet /\ total # Null /\ parseInspectQuery(vals) => total = Len(shown)

\* "Time-range and exact-service narrowing are enforced for unindexed scans":
\* the rows of a leading-wildcard query come out of a window, or all belong to
\* the services its terms name.
ScansAreNarrow ==
  vals # Null /\ page.rows # <<>> /\ IsUnindexedScan(vals.q) =>
    \/ \A r \in ToSet(page.rows) :
         \/ vals.since # Null /\ Stamp(r) >= Bound(vals.since)
         \/ vals.until # Null /\ Stamp(r) < Bound(vals.until)
    \/ \E t \in vals.q : /\ t.field = "service" /\ t.wildcard = "none"
                         /\ ToSet(page.rows) \subseteq Matching[{t}]
                         /\ ~t.negated

\* "Cursor encodes a stable pagination position as (timestamp DESC, id DESC)":
\* no page repeats a row of an earlier one.
NoRowTwice == \A i, j \in DOMAIN shown : shown[i] = shown[j] => i = j
==============================================================================
