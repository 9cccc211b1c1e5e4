------------------------------ MODULE Retention ------------------------------
(***************************************************************************)
(* The retention sweeper of the SQLite sink.  A sweep deletes from the two *)
(* tables inside one transaction, by age or by count, while workers insert *)
(* rows through the same single connection.  A statement can fail, the     *)
(* context can be cancelled, the database can be closed under the sweeper  *)
(* and the process can die at any step; what was committed stays.          *)
(***************************************************************************)
EXTENDS Integers, FiniteSets

CONSTANTS
  Rows,        \* the records that may be stored; ids are unique
  Requests,    \* those that go to captured_requests; the others go to events
  Policies,    \* what SweeperPolicy may be: [age, count], 0 where unset
  MaxTime,     \* bound on the clock
  MaxCrashes   \* bound on the number of restarts

Events == Rows \ Requests
Tables == {Requests, Events}
Never == -1

\* Serve starts the sweeper only with a policy, and Validate refuses both.
ASSUME RetentionAssumption ==
  /\ IsFiniteSet(Rows)
  /\ Requests \subseteq Rows
  /\ Policies \subseteq [age : Nat, count : Nat]
  /\ \A p \in Policies : (p.age = 0) # (p.count = 0)
  /\ MaxTime \in Nat /\ MaxCrashes \in Nat

VARIABLES
  policy,     \* the policy of this configuration
  clock,      \* time.Now
  stamp,      \* the timestamp each record got when it was captured, or Never
  queued,     \* records captured and not yet written
  db,         \* committed rows
  conn,       \* the pool's one connection: "free" or held by the sweep's "tx"
  sweep,      \* where the sweeper goroutine is
  tx,         \* the rows as the open transaction sees them
  cutoff,     \* the cutoff of the sweep under way
  cancelled,  \* sinkCtx is done
  closed,     \* SQLite.Close has run
  crashes

retentionVars ==
  <<policy, clock, stamp, queued, db, conn, sweep, tx, cutoff, cancelled, closed, crashes>>

MaxAge == policy.age
MaxCount == policy.count

RetentionInit ==
  /\ policy \in Policies
  /\ clock = 0
  /\ stamp = [r \in Rows |-> Never]
  /\ queued = {}
  /\ db = {}
  /\ conn = "free"
  /\ sweep = "idle"
  /\ tx = {}
  /\ cutoff = 0
  /\ cancelled = FALSE
  /\ closed = FALSE
  /\ crashes = 0

-----------------------------------------------------------------------------
Tick ==
  /\ clock < MaxTime
  /\ clock' = clock + 1
  /\ UNCHANGED <<policy, stamp, queued, db, conn, sweep, tx, cutoff, cancelled, closed, crashes>>

Capture(r) ==
  /\ stamp[r] = Never
  /\ stamp' = [stamp EXCEPT ![r] = clock]
  /\ queued' = queued \cup {r}
  /\ UNCHANGED <<policy, clock, db, conn, sweep, tx, cutoff, cancelled, closed, crashes>>

\* One INSERT in its own transaction.  It waits for the connection, and fails
\* without one once the context is done or the database closed.
Insert(r) ==
  /\ r \in queued
  /\ queued' = queued \ {r}
  /\ \/ conn = "free" /\ ~cancelled /\ ~closed /\ db' = db \cup {r}
     \/ conn = "free" /\ UNCHANGED db
     \/ cancelled /\ UNCHANGED db
     \/ closed /\ UNCHANGED db
  /\ UNCHANGED <<policy, clock, stamp, conn, sweep, tx, cutoff, cancelled, closed, crashes>>

-----------------------------------------------------------------------------
BeginTx ==
  /\ sweep = "idle" /\ conn = "free" /\ ~cancelled /\ ~closed
  /\ sweep' = "begun"
  /\ conn' = "tx"
  /\ tx' = db
  /\ UNCHANGED <<policy, clock, stamp, queued, db, cutoff, cancelled, closed, crashes>>

\* SELECT id ... ORDER BY timestamp DESC LIMIT MaxCount: the order of rows with
\* the same timestamp is SQLite's choice.
Newest(rows) ==
  {k \in SUBSET rows :
     /\ \/ Cardinality(k) = MaxCount
        \/ k = rows /\ Cardinality(rows) < MaxCount
     /\ \A r \in k : \A s \in rows \ k : stamp[s] <= stamp[r]}

\* Mutant: the condition of the DELETE keeps one row too many.
Survivors_OffByOne(rows, c) ==
  IF MaxAge > 0 THEN {{r \in rows : stamp[r] > c}}
                ELSE Newest(rows)

\* The rows of a table a DELETE may leave.
Survivors(rows, c) ==
  IF MaxAge > 0 THEN {{r \in rows : stamp[r] >= c}}
                ELSE Newest(rows)

\* Mutant: the statement runs on the database, not on the transaction.
DeleteRequests_Autocommit ==
  /\ sweep = "begun" /\ ~cancelled
  /\ cutoff' = clock - MaxAge
  /\ \E k \in Survivors(tx \cap Requests, cutoff') :
       tx' = (tx \cap Events) \cup k /\ db' = tx'
  /\ sweep' = "requests"
  /\ UNCHANGED <<policy, clock, stamp, queued, conn, cancelled, closed, crashes>>

DeleteRequests ==
  /\ sweep = "begun" /\ ~cancelled
  /\ cutoff' = clock - MaxAge
  /\ \E k \in Survivors(tx \cap Requests, cutoff') : tx' = (tx \cap Events) \cup k
  /\ sweep' = "requests"
  /\ UNCHANGED <<policy, clock, stamp, queued, db, conn, cancelled, closed, crashes>>

DeleteEvents ==
  /\ sweep = "requests" /\ ~cancelled
  /\ \E k \in Survivors(tx \cap Events, cutoff) : tx' = (tx \cap Requests) \cup k
  /\ sweep' = "events"
  /\ UNCHANGED <<policy, clock, stamp, queued, db, conn, cutoff, cancelled, closed, crashes>>

\* The connection goes back to the pool, and Sweep's locals with the frame.
EndTx ==
  /\ conn' = "free"
  /\ tx' = {}
  /\ cutoff' = 0

Commit ==
  /\ sweep = "events" /\ ~cancelled
  /\ db' = tx
  /\ sweep' = "checkpoint"
  /\ EndTx
  /\ UNCHANGED <<policy, clock, stamp, queued, cancelled, closed, crashes>>

\* Mutant: the goroutine ends at the first failed sweep.
Abort_EndsLoop ==
  /\ sweep \in {"begun", "requests", "events"}
  /\ sweep' = "stopped"
  /\ EndTx
  /\ UNCHANGED <<policy, clock, stamp, queued, db, cancelled, closed, crashes>>

\* A DELETE or the COMMIT fails: Rollback, a warning, and the loop goes on.
Abort ==
  /\ sweep \in {"begun", "requests", "events"}
  /\ sweep' = "idle"
  /\ EndTx
  /\ UNCHANGED <<policy, clock, stamp, queued, db, cancelled, closed, crashes>>

\* PRAGMA wal_checkpoint; its error is ignored.
Checkpoint ==
  /\ sweep = "checkpoint"
  /\ sweep' = "idle"
  /\ UNCHANGED <<policy, clock, stamp, queued, db, conn, tx, cutoff, cancelled, closed, crashes>>

\* The select of StartSweeper picks ctx.Done.
Stop ==
  /\ sweep = "idle" /\ cancelled
  /\ sweep' = "stopped"
  /\ UNCHANGED <<policy, clock, stamp, queued, db, conn, tx, cutoff, cancelled, closed, crashes>>

-----------------------------------------------------------------------------
\* cancelSinks: after a drain that timed out, or when Serve returns.
Cancel ==
  /\ ~cancelled
  /\ cancelled' = TRUE
  /\ UNCHANGED <<policy, clock, stamp, queued, db, conn, sweep, tx, cutoff, closed, crashes>>

\* SQLite.Close does not wait for the transaction of a sweep.
Close ==
  /\ ~closed
  /\ closed' = TRUE
  /\ UNCHANGED <<policy, clock, stamp, queued, db, conn, sweep, tx, cutoff, cancelled, crashes>>

\* The process dies or exits, and starts again on the same file.
Restart ==
  /\ crashes < MaxCrashes
  /\ crashes' = crashes + 1
  /\ queued' = {}
  /\ sweep' = "idle"
  /\ EndTx
  /\ cancelled' = FALSE
  /\ closed' = FALSE
  /\ UNCHANGED <<policy, clock, stamp, db>>

RetentionNext ==
  \/ Tick
  \/ \E r \in Rows : Capture(r) \/ Insert(r)
  \/ BeginTx \/ DeleteRequests \/ DeleteEvents \/ Commit \/ Abort \/ Checkpoint \/ Stop
  \/ Cancel \/ Close \/ Restart

RetentionSpec == RetentionInit /\ [][RetentionNext]_retentionVars

-----------------------------------------------------------------------------
\* Goroutines that wait for a connection get it in turn.  The ticker fires
\* again and again, and SQLite does not fail every sweep: a statement that is
\* tried again and again succeeds at some point.
Fairness ==
  /\ \A r \in Rows : SF_retentionVars(Insert(r))
  /\ SF_retentionVars(BeginTx)
  /\ SF_retentionVars(DeleteRequests) /\ SF_retentionVars(DeleteEvents) /\ SF_retentionVars(Commit)
  /\ WF_retentionVars(Abort) /\ WF_retentionVars(Checkpoint) /\ WF_retentionVars(Stop)

-----------------------------------------------------------------------------
RetentionTypeOK ==
  /\ policy \in Policies
  /\ clock \in 0..MaxTime
  /\ stamp \in [Rows -> 0..MaxTime \cup {Never}]
  /\ queued \subseteq Rows
  /\ db \subseteq Rows /\ tx \subseteq Rows
  /\ conn \in {"free", "tx"}
  /\ sweep \in {"idle", "begun", "requests", "events", "checkpoint", "stopped"}
  /\ cutoff \in -MaxAge..MaxTime
  /\ cancelled \in BOOLEAN /\ closed \in BOOLEAN
  /\ crashes \in 0..MaxCrashes

\* What a DELETE may leave of table t: every row not older than the cutoff c,
\* which lies at least MaxAge back, or the newest MaxCount rows.
Trimmed(t, before, after, c) ==
  /\ after \cap t \subseteq before \cap t
  /\ MaxAge > 0 =>
       /\ c <= clock - MaxAge
       /\ \A r \in before \cap t : r \in after <=> stamp[r] >= c
  /\ MaxCount > 0 =>
       /\ Cardinality(after \cap t) <= MaxCount
       /\ after \cap t # before \cap t => Cardinality(after \cap t) = MaxCount
       /\ \A r \in after \cap t : \A s \in (before \ after) \cap t : stamp[s] <= stamp[r]

\* The sweep holds the connection exactly while its transaction is open, and
\* the transaction differs from the committed rows by the DELETEs it has run,
\* whatever was captured, written or cancelled meanwhile.
TxAgrees ==
  /\ RetentionTypeOK
  /\ \A r \in db \cup tx \cup queued : stamp[r] \in 0..clock
  /\ conn = "tx" <=> sweep \in {"begun", "requests", "events"}
  /\ sweep = "begun" => tx = db
  /\ sweep = "requests" => /\ Trimmed(Requests, db, tx, cutoff)
                           /\ tx \cap Events = db \cap Events
  /\ sweep = "events" => \A t \in Tables : Trimmed(t, db, tx, cutoff)

\* The rows that go, before <- db, after <- db', are what the policy says of
\* both tables at once, with one cutoff for the two.
WholeTrim(before, after) ==
  \E c \in -MaxAge..MaxTime : \A t \in Tables : Trimmed(t, before, after, c)

\* "Both tables are trimmed inside a single transaction so a mid-sweep
\* cancellation cannot leave the two tables inconsistent."  Whatever fails, is
\* cancelled, closed or killed in the middle of a sweep, and whichever writes
\* come in between: rows disappear by whole sweeps only.
TrimIsWhole == [][db \ db' # {} => WholeTrim(db, db')]_retentionVars

\* The sweeper never keeps the connection: every record a worker wants to write
\* is written or fails.
WritesProceed == \A r \in Rows : r \in queued ~> r \notin queued

\* A row that outlived MaxAge goes, however often sweeps fail or the process
\* restarts, as long as the sink is not shut down.
OldRowsGo ==
  \A r \in Rows : (MaxAge > 0 /\ r \in db /\ stamp[r] < clock - MaxAge) ~>
                  (r \notin db \/ cancelled \/ closed)

\* Once writes stop both tables settle at MaxCount rows or fewer.
CountSettles ==
  <>[](cancelled \/ closed \/ MaxCount = 0 \/
       \A t \in Tables : Cardinality(db \cap t) <= MaxCount)
==============================================================================
