----------------------------- MODULE MCProgress -----------------------------
(* What must happen in the end, in two parts that share no state: the rows of
   SQLite and their sweeper, and a client that walks the pages of GET /requests.
   The scenario says which of them a behaviour is about; the other rests in its
   initial state. *)
EXTENDS Retention

CONSTANTS q1, q2, NoCursor

VARIABLES
  scenario,
  ring, sql, arrived, toSQL, at, filtered, cursor, len, memRows, shown,
  failures, kept                         \* of InspectRoots

MCRows == {q1, q2}
MCPolicies == {[age |-> 1, count |-> 0], [age |-> 0, count |-> 1]}

\* Two rows share a timestamp, and ids do not follow the timestamps.
Row(t, i) == [ts |-> t, id |-> i]
ThreeRows == {Row(1, 3), Row(2, 1), Row(2, 2)}

Roots == INSTANCE InspectRoots WITH
  Rows <- ThreeRows, Matching <- {r \in ThreeRows : r.id # 1},
  Readers <- {"memory", "sqlite"}, Capacity <- 2, Limit <- 1, MaxFailures <- 1

rootsOnly == <<ring, sql, arrived, toSQL, at, filtered, cursor, len, memRows, shown,
               failures, kept>>

MCInit ==
  /\ scenario \in {"rows", "pages"}
  /\ RetentionInit /\ Roots!Init
  /\ scenario # "rows" => policy = CHOOSE p \in Policies : TRUE
  /\ scenario # "pages" => sql = {}

MCNext ==
  /\ UNCHANGED scenario
  /\ \/ scenario = "rows" /\ RetentionNext /\ UNCHANGED rootsOnly
     \/ scenario = "pages" /\ Roots!Next /\ UNCHANGED retentionVars

MCSpec == MCInit /\ [][MCNext]_<<scenario, retentionVars, rootsOnly>>

-----------------------------------------------------------------------------
\* Under the fairness of Retention, however many sweeps fail: every record a worker
\* wants to write is written or fails, a row that outlived MaxAge goes unless the
\* sink is shut down, and once writes stop both tables settle at MaxCount rows.
RetentionProgresses == Fairness => WritesProceed /\ OldRowsGo /\ CountSettles

\* Under the fairness of InspectRoots: a walk comes to an end.
WalksEnd == Roots!Fairness => Roots!PagingEnds
==============================================================================
