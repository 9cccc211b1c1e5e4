------------------------------ MODULE MCInspect ------------------------------
(* The inspection handlers, in three parts: one record with its siblings, the
   pages put together from both readers, and the request list with its parameters,
   links and total.  The scenario says which of them a behaviour is about; the
   first two use the same variables for the stores, and what a part does not use
   rests in its initial state. *)
EXTENDS InspectDetail

CONSTANTS q1, q2, e1, x1, ka, kb, NoCursor, Null, Bad

VARIABLES
  scenario,
  filtered, cursor, memRows, shown, kept,             \* of InspectRoots
  clock, stored, vals, page, first, total, quiet      \* of Explorer

-----------------------------------------------------------------------------
(* Two requests and an event with one correlation id, and an unrelated event. *)

AllRecords == {q1, q2, e1, x1}
MCRequests == {q1, q2}
MCCorr == [r \in Records |-> IF r = x1 THEN kb ELSE ka]
Both == {"memory", "sqlite"}

-----------------------------------------------------------------------------
(* Two rows share a timestamp, and ids do not follow the timestamps. *)

Row(t, i) == [ts |-> t, id |-> i]
FourRows == {Row(1, 4), Row(2, 1), Row(2, 3), Row(3, 2)}

Roots == INSTANCE InspectRoots WITH
  Rows <- FourRows, Matching <- {r \in FourRows : r.id # 2}, Limit <- 2

ASSUME Roots!RootsAssumption

-----------------------------------------------------------------------------
(* Records 1 and 2 are of the service that the terms name.  Record 1 is stamped
   on arrival, record 2 posted with a time of its own, and record 3 with a time
   that an integer does not hold. *)

Term(f, w, n) == [field |-> f, wildcard |-> w, negated |-> n]
Scan == Term("path", "substring", FALSE)
Mine == Term("service", "none", FALSE)
NotMine == Term("service", "none", TRUE)

Range == 8
MCIds == 1..3
MCQueries == {{}, {Scan}, {Scan, Mine}, {Scan, NotMine}}
MCMatching == [q \in MCQueries \cup {{Mine}, {NotMine}} |->
                 {r \in MCIds : (Mine \in q => r <= 2) /\ (NotMine \in q => r > 2)}]
MCEventTime == [r \in MCIds |-> CASE r = 1 -> Null [] r = 2 -> 1 [] r = 3 -> Range + 1]

List == INSTANCE Explorer WITH
  Ids <- MCIds, EventTime <- MCEventTime, Reader <- "sqlite", Queries <- MCQueries,
  Matching <- MCMatching, Sinces <- {Null, Bad, 1}, Untils <- {Null, 2},
  Limits <- {1, 2, Bad}, Window <- 1, Half <- Range, MaxTime <- 3

-----------------------------------------------------------------------------
detailOnly == <<target, detail, rows, answer, inSQL>>
pagesOnly == <<filtered, cursor, memRows, kept>>
listOnly == <<clock, stored, vals, page, first, total, quiet>>

\* The pages and the list both keep what they have shown in shown.
MCInit ==
  /\ List!Init
  /\ filtered = FALSE /\ cursor = NoCursor /\ memRows = <<>> /\ kept = {}
  /\ \/ scenario = "detail" /\ Init
     \/ scenario = "list" /\ Init /\ sql = {}
     \/ /\ scenario = "pages" /\ Roots!Init
        /\ target = NoRecord /\ detail = Nothing /\ rows = {} /\ answer = "none"
        /\ inSQL = {}

MCNext ==
  /\ UNCHANGED scenario
  /\ \/ scenario = "detail" /\ Next /\ UNCHANGED <<pagesOnly, shown, listOnly>>
     \/ scenario = "pages" /\ Roots!Next /\ UNCHANGED <<detailOnly, listOnly>>
     \/ scenario = "list" /\ List!Next /\ UNCHANGED <<vars, pagesOnly>>

MCSpec == MCInit /\ [][MCNext]_<<scenario, vars, pagesOnly, shown, listOnly>>

-----------------------------------------------------------------------------
\* Over all its pages a walk shows rows in strictly descending order, whatever is
\* written, evicted or swept meanwhile and whichever reader each page came from.
PagesDescend == scenario = "pages" => Roots!PagesDescend

\* A walk that SQLite serves alone misses no row that stayed.
SQLiteWalkComplete == scenario = "pages" => Roots!SQLiteWalkComplete

\* Through the links of the list: every page asks for what the first one asked
\* for, no row comes twice, a finished walk has shown as many rows as the histogram
\* beside it counts, and a leading-wildcard query stays in its window or services.
ListWalkSound ==
  /\ List!WalkKeepsQuery /\ List!NoRowTwice
  /\ List!TotalCountsWalk /\ List!ScansAreNarrow
==============================================================================
