---------------------------- MODULE InspectDetail ----------------------------
(***************************************************************************)
(* GET /requests/{id}: gatherDetail looks a record up in memory, then in   *)
(* SQLite, and puts the records with the same correlation id together from *)
(* both.  Memory is read with Len and Recent, SQLite with up to four       *)
(* queries; between any two of these workers write records, memory first   *)
(* and SQLite after it, the ring evicts and the retention sweeper deletes. *)
(*                                                                         *)
(* A row read from SQLite is not the record that memory holds: columns are *)
(* missing.  So an element of an answer is a record with its store.        *)
(***************************************************************************)
EXTENDS Naturals, Sequences

CONSTANTS
  Records,      \* record ids
  Requests,     \* the captured requests among them; the others are events
  Corr,         \* correlation id of each record
  Readers,      \* the enabled readers
  Capacity,     \* memory_capacity
  MaxFailures,  \* bound: SQLite statements that fail
  NoRecord

ASSUME DetailAssumption ==
  /\ Requests \subseteq Records
  /\ Readers \subseteq {"memory", "sqlite"}
  /\ Capacity \in Nat \ {0}
  /\ NoRecord \notin Records

VARIABLES
  ring,      \* the records in memory, last written first
  sql,       \* the rows of both tables
  arrived,   \* the records a worker has begun to write
  toSQL,     \* the records whose worker is between the two sinks
  at,        \* where the handler is
  target,    \* the id it was asked for
  len,       \* what Len returned
  detail,    \* the root and events found so far, with the store of the root
  rows,      \* the events of the SQLite read under way
  answer,    \* what the client got
  failures,
  inSQL      \* history: records in SQLite since the handler began

stores  == <<ring, sql, arrived, toSQL>>
handler == <<at, target, len, detail, rows, answer>>
vars    == <<stores, handler, failures, inSQL>>

Lesser(m, n) == IF m < n THEN m ELSE n

Nothing == [root |-> NoRecord, from |-> "none", events |-> {}]
Siblings(r) == {s \in Records : Corr[s] = Corr[r] /\ s # r}

Init ==
  /\ ring = <<>>
  /\ sql \in IF "sqlite" \in Readers THEN SUBSET Records ELSE {{}}
  /\ arrived = sql
  /\ toSQL = {}
  /\ at = "idle"
  /\ target = NoRecord
  /\ len = 0
  /\ detail = Nothing
  /\ rows = {}
  /\ answer = "none"
  /\ failures = 0
  /\ inSQL = {}

-----------------------------------------------------------------------------
(* The stores. *)

WriteMemory(r) ==
  /\ r \notin arrived
  /\ arrived' = arrived \cup {r}
  /\ ring' = IF "memory" \in Readers THEN SubSeq(<<r>> \o ring, 1, Lesser(Len(ring) + 1, Capacity))
                                     ELSE ring
  /\ toSQL' = IF "sqlite" \in Readers THEN toSQL \cup {r} ELSE toSQL
  /\ UNCHANGED <<sql, handler, failures, inSQL>>

\* The INSERT succeeds, or fails and is counted.
WriteSQLite(r) ==
  /\ r \in toSQL
  /\ toSQL' = toSQL \ {r}
  /\ sql' \in {sql, sql \cup {r}}
  /\ UNCHANGED <<ring, arrived, handler, failures, inSQL>>

\* The retention sweeper deletes rows of one or of both tables.
Sweep ==
  /\ \E gone \in SUBSET sql \ {{}} : sql' = sql \ gone
  /\ inSQL' = inSQL \cap sql'
  /\ UNCHANGED <<ring, arrived, toSQL, handler, failures>>

-----------------------------------------------------------------------------
(* The handler. *)

Begin(r) ==
  /\ at = "idle"
  /\ target' = r
  /\ detail' = Nothing
  /\ answer' = "none"
  /\ inSQL' = sql
  /\ at' = IF "memory" \in Readers THEN "len"
           ELSE IF "sqlite" \in Readers THEN "request" ELSE "not found"
  /\ UNCHANGED <<stores, len, rows, failures>>

CallLen ==
  /\ at = "len"
  /\ len' = Len(ring)
  /\ at' = "recent"
  /\ UNCHANGED <<stores, target, detail, rows, answer, failures, inSQL>>

Snapshot == {ring[i] : i \in 1..Lesser(len, Len(ring))}

\* Mutant: what both stores have is listed twice.
Merge_Append(d, found) == [d EXCEPT !.events = @ \cup found]

\* mergeDetailSiblings: the primary's root and events stay, and of the secondary's
\* events those with a new id are added.
Merge(d, found) ==
  [d EXCEPT !.events =
     @ \cup {e \in found : e[1] # d.root /\ \A f \in d.events : f[1] # e[1]}]

\* The memory reader's ReadDetail: the root by its id, the siblings by its
\* correlation id.
FromMemory == {<<s, "memory">> : s \in Siblings(target) \cap Snapshot}

\* Memory comes first, and again when SQLite had the root.
CallRecent ==
  /\ at = "recent"
  /\ IF target \in Snapshot
       THEN IF detail = Nothing
              THEN /\ detail' = [root |-> target, from |-> "memory", events |-> FromMemory]
                   /\ at' = IF "sqlite" \in Readers THEN "request" ELSE "found"
              ELSE detail' = Merge(detail, FromMemory) /\ at' = "found"
       ELSE /\ UNCHANGED detail
            /\ at' = IF detail # Nothing THEN "found"
                     ELSE IF "sqlite" \in Readers THEN "request" ELSE "not found"
  /\ len' = 0
  /\ UNCHANGED <<stores, target, rows, answer, failures, inSQL>>

\* Mutant: a root that has become an event is not looked for.
FindRoot_RequestsOnly(from, table, missing) ==
  /\ at = from
  /\ at' = IF target \in table \cap sql THEN "sibling requests"
           ELSE IF detail # Nothing THEN "found" ELSE "not found"
  /\ UNCHANGED <<stores, target, len, detail, rows, answer, failures, inSQL>>

\* sqliteFindRoot: captured_requests first, then events.
FindRoot(from, table, missing) ==
  /\ at = from
  /\ at' = IF target \in table \cap sql THEN "sibling requests" ELSE missing
  /\ UNCHANGED <<stores, target, len, detail, rows, answer, failures, inSQL>>

LoadRequest == FindRoot("request", Requests, "event")

\* A miss in SQLite leaves what memory had.
LoadEvent ==
  FindRoot("event", Records \ Requests, IF detail # Nothing THEN "found" ELSE "not found")

FetchSiblingRequests ==
  /\ at = "sibling requests"
  /\ rows' = {<<s, "sqlite">> : s \in Siblings(target) \cap Requests \cap sql}
  /\ at' = "sibling events"
  /\ UNCHANGED <<stores, target, len, detail, answer, failures, inSQL>>

\* The events, and then the end of a merge or the second look into memory.
FetchSiblingEvents ==
  /\ at = "sibling events"
  /\ LET found == rows \cup {<<s, "sqlite">> : s \in (Siblings(target) \ Requests) \cap sql} IN
     IF detail = Nothing
       THEN /\ detail' = [root |-> target, from |-> "sqlite", events |-> found]
            /\ at' = IF "memory" \in Readers THEN "len" ELSE "found"
       ELSE detail' = Merge(detail, found) /\ at' = "found"
  /\ rows' = {}
  /\ UNCHANGED <<stores, target, len, answer, failures, inSQL>>

\* A statement fails or times out.  That is the answer when SQLite is asked for
\* the root, and ignored when it is asked for more siblings.
QueryFails ==
  /\ at \in {"request", "event", "sibling requests", "sibling events"}
  /\ failures < MaxFailures
  /\ failures' = failures + 1
  /\ at' = IF detail # Nothing THEN "found" ELSE "error"
  /\ rows' = {}
  /\ UNCHANGED <<stores, target, len, detail, answer, inSQL>>

Answer(from, status) ==
  /\ at = from
  /\ at' = "idle"
  /\ answer' = status
  /\ UNCHANGED <<stores, target, len, detail, rows, failures, inSQL>>

Handler ==
  \/ \E r \in Records : Begin(r)
  \/ CallLen \/ CallRecent
  \/ LoadRequest \/ LoadEvent \/ FetchSiblingRequests \/ FetchSiblingEvents
  \/ QueryFails
  \/ Answer("found", "200") \/ Answer("not found", "404") \/ Answer("error", "500")

Next ==
  \/ \E r \in Records : WriteMemory(r) \/ WriteSQLite(r)
  \/ Sweep
  \/ Handler

Spec == Init /\ [][Next]_vars

-----------------------------------------------------------------------------
Answered == at = "idle" /\ answer # "none"

\* What was in SQLite all the time of the request is found, whatever the ring
\* evicts and whichever reader is asked first.
DurableFound == Answered /\ answer = "404" => target \notin inSQL

\* When every statement succeeds, a root that was in SQLite all the time is shown
\* with all the related records that were there all the time as well.
SiblingsComplete ==
  Answered /\ answer = "200" /\ failures = 0 /\ target \in inSQL =>
    Siblings(target) \cap inSQL \subseteq {e[1] : e \in detail.events}

\* No record is listed twice, although memory and SQLite both have it and it may
\* move from one to the other while they are read; nothing unrelated is listed.
OneCopy ==
  /\ \A e, f \in detail.events : e[1] = f[1] => e = f
  /\ detail # Nothing => \A e \in detail.events : e[1] \in Siblings(target)

\* The detail page shows the related records that are durable, all of them and
\* each once: SiblingsComplete and OneCopy.
SiblingsExact == SiblingsComplete /\ OneCopy
==============================================================================
