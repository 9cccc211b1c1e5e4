---------------------------- MODULE InspectRoots ----------------------------
(***************************************************************************)
(* GET /requests: a client walks the list of root rows page by page, each   *)
(* page put together by gatherRoots from the memory ring and from SQLite,  *)
(* while workers write rows, the ring evicts and the retention sweeper     *)
(* deletes.                                                                *)
(*                                                                         *)
(* A row is its sort key, timestamp and id.  That an event stops being a   *)
(* root once its request arrives is a row that disappears.                 *)
(***************************************************************************)
EXTENDS Naturals, Sequences, FiniteSets, Functions

CONSTANTS
  Rows,         \* the root rows there may be: records with fields ts and id
  Matching,     \* the rows that match the walk's non-temporal filter
  Readers,      \* the enabled readers
  Capacity,     \* memory_capacity
  Limit,        \* q.Limit
  MaxFailures,  \* bound: SQLite queries that fail during the walk
  NoCursor      \* the nil cursor

\* The parser takes a limit from 1 on, and NewMemorySink raises its capacity to 1.
\* An id stands for its place in the order of the strings.
RootsAssumption ==
  /\ IsFiniteSet(Rows) /\ Rows \subseteq [ts : Int, id : Nat]
  /\ NoCursor \notin Rows
  /\ Limit \in Nat \ {0} /\ Capacity \in Nat \ {0}

VARIABLES
  ring,      \* the rows in the memory sink, last written first
  sql,       \* the rows in SQLite
  arrived,   \* the rows a worker has begun to write
  toSQL,     \* the rows whose worker is between the memory and the SQLite sink
  at,        \* where the walk is
  filtered,  \* the walk has a non-temporal filter
  cursor,    \* the cursor of the next request
  len,       \* what MemorySink.Len returned to the current request
  memRows,   \* what the memory reader returned to the current request
  shown,     \* every row the walk has been given, in order
  failures,  \* failed SQLite queries so far
  kept       \* history: the rows that were there from the first request on

stores == <<ring, sql, arrived, toSQL>>
walk   == <<at, filtered, cursor, len, memRows, shown, failures>>
vars   == <<stores, walk, kept>>

Init ==
  /\ ring = <<>>
  /\ sql \in IF "sqlite" \in Readers THEN SUBSET Rows ELSE {{}}
  /\ arrived = sql
  /\ toSQL = {}
  /\ at = "start"
  /\ filtered = FALSE
  /\ cursor = NoCursor
  /\ len = 0
  /\ memRows = <<>>
  /\ shown = <<>>
  /\ failures = 0
  /\ kept = {}

-----------------------------------------------------------------------------
(* ReadRoots, which both readers implement alike. *)

\* Newest first: the order of ORDER BY timestamp DESC, id DESC and of the sorts.
Newer(r, s) == r.ts > s.ts \/ (r.ts = s.ts /\ r.id > s.id)

\* The rows of S in that order: each comes after those newer than it.
InOrder(S) ==
  [i \in 1..Cardinality(S) |-> CHOOSE r \in S : Cardinality({s \in S : Newer(s, r)}) = i - 1]

\* The rows strictly after the cursor.
Below(S, cur) == IF cur = NoCursor THEN S ELSE {r \in S : Newer(cur, r)}

\* Mutants: the cursor is the first row after the page; the last page has a
\* cursor too, and an empty page the one it was asked with.
Trim_SkipsOne(rows) ==
  IF Len(rows) > Limit
    THEN [rows |-> SubSeq(rows, 1, Limit), next |-> rows[Limit + 1]]
    ELSE [rows |-> rows, next |-> NoCursor]

Trim_AlwaysCursor(rows) ==
  LET page == IF Len(rows) > Limit THEN SubSeq(rows, 1, Limit) ELSE rows IN
  [rows |-> page, next |-> IF page = <<>> THEN cursor ELSE page[Len(page)]]

\* A sorted list cut to a page, with a cursor when something was cut off.
Trim(rows) ==
  IF Len(rows) > Limit
    THEN [rows |-> SubSeq(rows, 1, Limit), next |-> rows[Limit]]
    ELSE [rows |-> rows, next |-> NoCursor]

ReadRoots(S) == Trim(InOrder(Below(S, cursor)))

-----------------------------------------------------------------------------
(* gatherRoots *)

Stored(f) == IF f THEN sql \cap Matching ELSE Range(ring) \cup sql

\* The response: its records, and its next_cursor for the client to come back
\* with.  A null next_cursor ends the walk.
Deliver(page) ==
  /\ shown' = shown \o page.rows
  /\ cursor' = page.next
  /\ at' = IF page.next = NoCursor THEN "ended" ELSE "between"

Begin(f) ==
  /\ at = "start"
  /\ at' = "between"
  /\ filtered' = f
  /\ kept' = Stored(f)
  /\ UNCHANGED <<stores, cursor, len, memRows, shown, failures>>

\* A filtered query, or one without a memory reader, is SQLite's alone.
AskSQLite ==
  /\ at = "between"
  /\ filtered \/ "memory" \notin Readers
  /\ IF "sqlite" \in Readers
       THEN Deliver(ReadRoots(IF filtered THEN sql \cap Matching ELSE sql))
       ELSE Deliver([rows |-> <<>>, next |-> NoCursor])
  /\ UNCHANGED <<stores, filtered, len, memRows, failures, kept>>

\* MemorySink.ReadRoots takes its snapshot with Recent(Len()), two calls.
AskMemory ==
  /\ at = "between"
  /\ ~filtered
  /\ "memory" \in Readers
  /\ len' = Len(ring)
  /\ at' = "recent"
  /\ UNCHANGED <<stores, filtered, cursor, memRows, shown, failures, kept>>

Snapshot == {ring[i] : i \in 1..len}

\* A full page from memory, or the only reader there is, is the answer.
MemoryAnswers ==
  /\ at = "recent"
  /\ LET page == ReadRoots(Snapshot) IN
     IF Len(page.rows) >= Limit \/ "sqlite" \notin Readers
       THEN Deliver(page) /\ UNCHANGED memRows
       ELSE /\ memRows' = page.rows
            /\ at' = "fallthrough"
            /\ UNCHANGED <<cursor, shown>>
  /\ UNCHANGED <<stores, filtered, len, failures, kept>>

\* Mutant: the rows of the two readers are put together without a sort.
Merge_Unsorted(a, b) == a \o SelectSeq(b, LAMBDA r : r \notin Range(a))

\* Both readers' rows without the duplicates, sorted again.
Merge(a, b) == InOrder(Range(a) \cup Range(b))

\* The page is filled up from SQLite, whose own next cursor is not looked at.
FallThrough ==
  /\ at = "fallthrough"
  /\ Deliver(Trim(Merge(memRows, ReadRoots(sql).rows)))
  /\ UNCHANGED <<stores, filtered, len, memRows, failures, kept>>

\* A failed query answers with an error; the client repeats the request.
QueryFails ==
  /\ at = "fallthrough" \/ (at = "between" /\ (filtered \/ "memory" \notin Readers))
  /\ "sqlite" \in Readers
  /\ failures < MaxFailures
  /\ failures' = failures + 1
  /\ at' = "between"
  /\ UNCHANGED <<stores, filtered, cursor, len, memRows, shown, kept>>

-----------------------------------------------------------------------------
(* What happens to the stores meanwhile. *)

Lose(gone) == kept' = kept \ gone

Lesser(m, n) == IF m < n THEN m ELSE n

\* What the ring gives up for the next row: nothing unless it is full.
Evicted == {ring[i] : i \in Capacity..Len(ring)}

\* A worker writes a row to the ring, which evicts the oldest when it is full ...
Arrive(r) ==
  /\ r \notin arrived
  /\ arrived' = arrived \cup {r}
  /\ IF "memory" \in Readers
       THEN /\ ring' = SubSeq(<<r>> \o ring, 1, Lesser(Len(ring) + 1, Capacity))
            /\ Lose(Evicted \ sql)
       ELSE UNCHANGED <<ring, kept>>
  /\ toSQL' = IF "sqlite" \in Readers THEN toSQL \cup {r} ELSE toSQL
  /\ UNCHANGED <<sql, walk>>

\* ... and later to SQLite, unless the insert fails.
Insert(r) ==
  /\ r \in toSQL
  /\ toSQL' = toSQL \ {r}
  /\ sql' \in {sql, sql \cup {r}}
  /\ UNCHANGED <<ring, arrived, walk, kept>>

\* The retention sweeper deletes by age or by count, an oldest row first; a
\* sweep that deletes several rows is several of these steps.
Sweep(r) ==
  /\ r \in sql
  /\ \A s \in sql : s.ts >= r.ts
  /\ sql' = sql \ {r}
  /\ Lose(IF filtered THEN {r} ELSE {r} \ Range(ring))
  /\ UNCHANGED <<ring, arrived, toSQL, walk>>

Request ==
  AskSQLite \/ AskMemory \/ MemoryAnswers \/ FallThrough \/ QueryFails

Next ==
  \/ \E f \in BOOLEAN : Begin(f)
  \/ Request
  \/ \E r \in Rows : Arrive(r) \/ Insert(r) \/ Sweep(r)

Spec == Init /\ [][Next]_vars

\* The client keeps asking and the server answers.
Fairness == WF_vars(Request)

-----------------------------------------------------------------------------
\* Over all its pages a walk shows rows in strictly descending order, so none
\* twice, whatever is written, evicted or swept between and during the requests
\* and whichever reader each page came from.
PagesDescend ==
  \A i, j \in 1..Len(shown) : i < j => Newer(shown[i], shown[j])

\* A walk that SQLite serves alone misses nothing: when the next cursor is nil,
\* every matching row that was stored since the first request has been shown.
SQLiteWalkComplete ==
  (at = "ended" /\ (filtered \/ "memory" \notin Readers)) => kept \subseteq Range(shown)

\* A nil next cursor means there are no further pages: every row that was
\* stored since the first request has been shown.
NilMeansNoMore == at = "ended" => kept \subseteq Range(shown)

\* A walk comes to an end: each request moves the cursor down, although rows
\* keep arriving.
PagingEnds == at # "start" ~> at = "ended"

=============================================================================
