-------------------------- MODULE CapturePipeline --------------------------
(***************************************************************************)
(* The capture pipeline of httpcatch, from the two HTTP handlers that       *)
(* produce records to the sinks that keep them, and the shutdown that      *)
(* stops it:                                                               *)
(*                                                                         *)
(*   capture handlers --\                     /-- worker --> sink 1, 2 ..   *)
(*                       >-- bounded queue --<                             *)
(*   events handlers  --/                     \-- worker --> sink 1, 2 ..   *)
(*                                                                         *)
(* Every goroutine is a process: one per HTTP request, one per worker, and  *)
(* the goroutine that runs App.Serve.  A step is what a goroutine does     *)
(* between two points at which another one can see or change shared state. *)
(* Record contents are abstracted to an identity and to whether the record *)
(* is still raw or has been through Redact.                                *)
(***************************************************************************)
EXTENDS Naturals, Sequences, FiniteSets

CONSTANTS
  Captures,       \* requests that may reach the capture port
  Posts,          \* POST /events requests that may reach the admin port
  Batches,        \* bodies a POST may carry: sequences of "ok" and "bad" items
  Unlabelled,     \* the captures whose ServiceSource is "unknown"
  Synthesized,    \* the captures whose CorrelationSource is "synthesized"
  Workers,        \* the goroutines of the worker pool
  SinkOrder,      \* the enabled sinks, in the order App.Build lists them
  QueueSize       \* queue_size after NewQueue raised it to at least 1

Sinks == {"stdout", "memory", "sqlite"}

ASSUME PipelineAssumption ==
  /\ Captures \cap Posts = {}
  /\ Batches \subseteq Seq({"ok", "bad"})
  /\ Unlabelled \subseteq Captures
  /\ Synthesized \subseteq Captures
  /\ SinkOrder \in Seq(Sinks)
  /\ \A i, j \in 1..Len(SinkOrder) : SinkOrder[i] = SinkOrder[j] => i = j
  /\ QueueSize \in Nat \ {0}
  /\ Workers # {}

Handlers == Captures \cup Posts

\* A record is named by the request that produced it and its place in the
\* batch; a capture and a single-object POST produce record number 1.
Records == Handlers \X (Nat \ {0})

VARIABLES
  phase,            \* how far App.Serve has come
  adminOpen,        \* the admin port accepts connections
  captureTimedOut,  \* captureServer.Shutdown gave up waiting for handlers
  drainTimedOut,    \* shutdown gave up waiting for the workers
  queue,            \* the channel of Queue
  hpc,              \* where each handler is
  batch,            \* the parsed body of each POST
  nextItem,         \* the item each POST enqueues next
  answer,           \* the status code each handler has written
  worker,           \* what each worker is doing
  store,            \* what each sink holds
  count,            \* capture.Counters, EventsCounters, dropped_total, panics
  sinkErrors,       \* SinkErrorCounters
  accepted,         \* history: the records Enqueue returned true for
  finished          \* history: the records process has returned for

control == <<phase, adminOpen, captureTimedOut, drainTimedOut>>
handler == <<hpc, batch, nextItem, answer>>
vars    == <<control, queue, handler, worker, store, count, sinkErrors,
             accepted, finished>>

Counters == {"captured", "withoutService", "withoutCorrelation",
             "bodyReadErrors", "dropped", "ingested", "eventsDropped",
             "rejected", "panics"}

Phases == {"starting", "serving", "stopping", "closequeue", "draining",
           "closing", "returned", "exited"}

Idle   == [pc |-> "idle"]
Exited == [pc |-> "exited"]
\* A worker inside process: the record it holds, whether Redact has run, the
\* index of the sink it is at, and whether it is inside SQLiteSink.Write.
Busy(r, redacted, at, inWrite) ==
  [pc |-> "busy", rec |-> r, redacted |-> redacted, at |-> at,
   inWrite |-> inWrite]

IsBusy(w)   == worker[w].pc = "busy"
Holding(w)  == IF IsBusy(w) THEN {worker[w].rec} ELSE {}
Queued      == {queue[i] : i \in 1..Len(queue)}
InProcess   == UNION {Holding(w) : w \in Workers}

QueueClosed == phase \in {"draining", "closing", "returned", "exited"}
SQLiteClosed == phase \in {"returned", "exited"}
\* sinkCtx: cancelled when the drain times out, and by Serve's deferred call.
SinksCancelled == drainTimedOut \/ phase \in {"returned", "exited"}
ActiveCaptures == {h \in Captures : hpc[h] \notin {"new", "done", "aborted"}}

Init ==
  /\ phase = "starting"
  /\ adminOpen = FALSE
  /\ captureTimedOut = FALSE
  /\ drainTimedOut = FALSE
  /\ queue = <<>>
  /\ hpc = [h \in Handlers |-> "new"]
  /\ batch = [p \in Posts |-> <<>>]
  /\ nextItem = [p \in Posts |-> 1]
  /\ answer = [h \in Handlers |-> "none"]
  /\ worker = [w \in Workers |-> Idle]
  /\ store = [s \in Sinks |-> {}]
  /\ count = [c \in Counters |-> 0]
  /\ sinkErrors = [s \in Sinks |-> 0]
  /\ accepted = {}
  /\ finished = {}

-----------------------------------------------------------------------------
\* Atomic additions of one to a set of counters.
Bump(names) ==
  count' = [c \in Counters |-> IF c \in names THEN count[c] + 1 ELSE count[c]]

Goto(h, pc) == hpc' = [hpc EXCEPT ![h] = pc]

Answer(h, code) ==
  /\ Goto(h, "done")
  /\ answer' = [answer EXCEPT ![h] = code]

(* Queue.Enqueue: a send in a select with a default branch.  It never       *)
(* blocks: a full queue is a counted drop.  On a closed channel it panics,  *)
(* and net/http ends the connection of the handler without an answer.      *)

Sent(r) ==
  /\ ~QueueClosed
  /\ Len(queue) < QueueSize
  /\ queue' = Append(queue, r)
  /\ accepted' = accepted \cup {r}

\* Mutant: no default branch, a full queue blocks the handler.
Full_Blocks == FALSE

Full ==
  /\ ~QueueClosed
  /\ Len(queue) >= QueueSize
  /\ UNCHANGED <<queue, accepted>>

SendPanics(h) ==
  /\ QueueClosed
  /\ Goto(h, "aborted")
  /\ UNCHANGED <<queue, accepted, count>>

-----------------------------------------------------------------------------
(* captureHandler *)

\* A request arrives on the capture port; "reading" covers its header and the
\* body that CapBody reads.  Until Shutdown has closed the idle connections a
\* request on one of them still starts.
CaptureArrives(h) ==
  /\ phase \in {"serving", "stopping"}
  /\ hpc[h] = "new"
  /\ Goto(h, "reading")
  /\ UNCHANGED <<control, queue, batch, nextItem, answer, worker, store,
                 count, sinkErrors, accepted, finished>>

\* CapBody failed: the record is given up, counted, and still acknowledged.
BodyReadFails(h) ==
  /\ hpc[h] = "reading"
  /\ Bump({"bodyReadErrors"})
  /\ Answer(h, "202")
  /\ UNCHANGED <<control, queue, batch, nextItem, worker, store, sinkErrors,
                 accepted, finished>>

\* Mutants: a drop is not counted; a drop goes on to the captured family.
CaptureDropped_Silent(h) == Full /\ UNCHANGED count /\ Answer(h, "202")

CaptureDropped(h) == Full /\ Bump({"dropped"}) /\ Answer(h, "202")

CaptureEnqueue(h) ==
  /\ hpc[h] = "reading"
  /\ \/ Sent(<<h, 1>>) /\ Goto(h, "count") /\ UNCHANGED <<answer, count>>
     \/ CaptureDropped(h)
     \/ SendPanics(h) /\ UNCHANGED answer
  /\ UNCHANGED <<control, batch, nextItem, worker, store, sinkErrors, finished>>

\* The three counters of an accepted request are separate atomic additions;
\* a worker or a metrics scrape can run between any two of them.
CountCaptured(h) ==
  /\ hpc[h] = "count"
  /\ Bump({"captured"})
  /\ Goto(h, "countService")
  /\ UNCHANGED <<control, queue, batch, nextItem, answer, worker, store,
                 sinkErrors, accepted, finished>>

CountService(h) ==
  /\ hpc[h] = "countService"
  /\ Bump(IF h \in Unlabelled THEN {"withoutService"} ELSE {})
  /\ Goto(h, "countCorrelation")
  /\ UNCHANGED <<control, queue, batch, nextItem, answer, worker, store,
                 sinkErrors, accepted, finished>>

CountCorrelation(h) ==
  /\ hpc[h] = "countCorrelation"
  /\ Bump(IF h \in Synthesized THEN {"withoutCorrelation"} ELSE {})
  /\ Answer(h, "202")
  /\ UNCHANGED <<control, queue, batch, nextItem, worker, store, sinkErrors,
                 accepted, finished>>

CaptureStep(h) ==
  /\ phase # "exited"
  /\ \/ BodyReadFails(h) \/ CaptureEnqueue(h)
     \/ CountCaptured(h) \/ CountService(h) \/ CountCorrelation(h)

-----------------------------------------------------------------------------
(* eventsHandler.  A single-object body is a batch of one; <<>> stands for   *)
(* every body refused as a whole (unreadable, oversize, not JSON, an empty  *)
(* or an over-long array).                                                 *)

PostArrives(p) ==
  /\ adminOpen
  /\ phase # "exited"
  /\ hpc[p] = "new"
  /\ \E b \in Batches : batch' = [batch EXCEPT ![p] = b]
  /\ Goto(p, "reading")
  /\ UNCHANGED <<control, queue, nextItem, answer, worker, store, count,
                 sinkErrors, accepted, finished>>

\* Mutant: only the first item is validated before the enqueue loop starts.
Valid_FirstItem(b) == b # <<>> /\ b[1] = "ok"

Valid(b) == b # <<>> /\ \A i \in 1..Len(b) : b[i] = "ok"

\* parseAndBuild runs over every item before the first one is enqueued; the
\* first bad item counts one rejection and answers 4xx.
PostRejects(p) ==
  /\ hpc[p] = "reading"
  /\ ~Valid(batch[p])
  /\ Bump({"rejected"})
  /\ Answer(p, "4xx")
  /\ UNCHANGED <<control, queue, batch, nextItem, worker, store, sinkErrors,
                 accepted, finished>>

PostValidates(p) ==
  /\ hpc[p] = "reading"
  /\ Valid(batch[p])
  /\ Goto(p, "enqueue")
  /\ UNCHANGED <<control, queue, batch, nextItem, answer, worker, store,
                 count, sinkErrors, accepted, finished>>

\* One turn of the enqueue loop is the attempt to send and the counter that
\* belongs to its outcome.  Other handlers and workers run in between.
PostEnqueue(p) ==
  /\ hpc[p] = "enqueue"
  /\ nextItem[p] <= Len(batch[p])
  /\ \/ /\ \/ Sent(<<p, nextItem[p]>>) /\ Goto(p, "ingested") /\ UNCHANGED count
           \/ Full /\ Goto(p, "dropped") /\ Bump({"dropped"})
        /\ nextItem' = [nextItem EXCEPT ![p] = @ + 1]
     \/ SendPanics(p) /\ UNCHANGED nextItem
  /\ UNCHANGED <<control, batch, answer, worker, store, sinkErrors, finished>>

PostCounts(p) ==
  /\ \/ hpc[p] = "ingested" /\ Bump({"ingested"})
     \/ hpc[p] = "dropped" /\ Bump({"eventsDropped"})
  /\ Goto(p, "enqueue")
  /\ UNCHANGED <<control, queue, batch, nextItem, answer, worker, store,
                 sinkErrors, accepted, finished>>

\* accepted and dropped are locals of the handler; the history variable
\* accepted restricted to this POST's items has the same content.
ItemsAccepted(p) == {i \in 1..Len(batch[p]) : <<p, i>> \in accepted}

PostCode(p) ==
  CASE ItemsAccepted(p) = 1..Len(batch[p]) -> "202"
    [] ItemsAccepted(p) = {} -> "503"
    [] OTHER -> "207"

PostAnswers(p) ==
  /\ hpc[p] = "enqueue"
  /\ nextItem[p] > Len(batch[p])
  /\ Answer(p, PostCode(p))
  /\ UNCHANGED <<control, queue, batch, nextItem, worker, store, count,
                 sinkErrors, accepted, finished>>

PostStep(p) ==
  /\ phase # "exited"
  /\ \/ PostRejects(p) \/ PostValidates(p)
     \/ PostEnqueue(p) \/ PostCounts(p) \/ PostAnswers(p)

-----------------------------------------------------------------------------
(* WorkerPool.run and WorkerPool.process *)

\* Mutant: the record stays in the channel.
Take_Peeks(w) ==
  /\ worker' = [worker EXCEPT ![w] = Busy(Head(queue), FALSE, 0, FALSE)]
  /\ UNCHANGED queue

Take(w) ==
  /\ worker' = [worker EXCEPT ![w] = Busy(Head(queue), FALSE, 0, FALSE)]
  /\ queue' = Tail(queue)

WorkerReceives(w) ==
  /\ worker[w] = Idle
  /\ queue # <<>>
  /\ Take(w)
  /\ UNCHANGED <<control, handler, store, count, sinkErrors, accepted, finished>>

\* The range loop over the channel ends when it is closed and drained.
WorkerExits(w) ==
  /\ worker[w] = Idle
  /\ queue = <<>>
  /\ QueueClosed
  /\ worker' = [worker EXCEPT ![w] = Exited]
  /\ UNCHANGED <<control, queue, handler, store, count, sinkErrors, accepted,
                 finished>>

\* process returns: the worker is ready for the next record.
Returns(w) ==
  /\ worker' = [worker EXCEPT ![w] = Idle]
  /\ finished' = finished \cup {worker[w].rec}

\* Mutant: the sinks are handed the record Redact was given.
HandOver_Raw(w, i) ==
  worker' = [worker EXCEPT
              ![w] = Busy(worker[w].rec, worker[w].redacted, i, FALSE)]

HandOver(w, i) ==
  worker' = [worker EXCEPT ![w] = Busy(worker[w].rec, TRUE, i, FALSE)]

\* After Redact (i = 0) or sink number i: the next sink, or the end of process.
Advance(w, i) ==
  \/ i < Len(SinkOrder) /\ HandOver(w, i + 1) /\ UNCHANGED finished
  \/ i = Len(SinkOrder) /\ Returns(w)

WorkerRedacts(w) ==
  /\ IsBusy(w)
  /\ worker[w].at = 0
  /\ Advance(w, 0)
  /\ UNCHANGED <<control, queue, handler, store, count, sinkErrors, accepted>>

AtSink(w, s) ==
  IsBusy(w) /\ worker[w].at > 0 /\ SinkOrder[worker[w].at] = s

\* Mutants: the recovered worker runs the fan-out again; nothing recovers and
\* the worker is gone.
Recovers_Retries(w) ==
  Bump({"panics"}) /\ HandOver(w, 1) /\ UNCHANGED finished

Recovers_Dies(w) ==
  /\ Bump({"panics"})
  /\ worker' = [worker EXCEPT ![w] = Exited]
  /\ finished' = finished \cup {worker[w].rec}

Recovers(w) == Bump({"panics"}) /\ Returns(w)

\* A panic in Redact or in a sink is recovered: the sinks that have not been
\* called yet never see the record.  MemorySink.Write has nothing that panics.
WorkerPanics(w) ==
  /\ IsBusy(w)
  /\ ~AtSink(w, "memory")
  /\ Recovers(w)
  /\ UNCHANGED <<control, queue, handler, store, sinkErrors, accepted>>

Keep(w, s) ==
  /\ store' = [store EXCEPT ![s] = @ \cup {[rec |-> worker[w].rec,
                                            redacted |-> worker[w].redacted]}]
  /\ UNCHANGED sinkErrors

\* Mutant: a failed write is only logged.
CountError_Silent(s) == UNCHANGED <<sinkErrors, store>>

CountError(s) ==
  /\ sinkErrors' = [sinkErrors EXCEPT ![s] = @ + 1]
  /\ UNCHANGED store

\* StdoutSink.Write and MemorySink.Write: one critical section each, blind to
\* the context; only stdout can fail.
SinkWrites(w) ==
  /\ \/ AtSink(w, "memory") /\ Keep(w, "memory")
     \/ AtSink(w, "stdout") /\ (Keep(w, "stdout") \/ CountError("stdout"))
  /\ Advance(w, worker[w].at)
  /\ UNCHANGED <<control, queue, handler, count, accepted>>

\* SQLiteSink.Write: ExecContext refuses to start once the context is
\* cancelled or the database closed ...
SQLiteRefuses(w) ==
  /\ AtSink(w, "sqlite")
  /\ ~worker[w].inWrite
  /\ SinksCancelled \/ SQLiteClosed
  /\ CountError("sqlite")
  /\ Advance(w, worker[w].at)
  /\ UNCHANGED <<control, queue, handler, count, accepted>>

SQLiteBegins(w) ==
  /\ AtSink(w, "sqlite")
  /\ ~worker[w].inWrite
  /\ ~SinksCancelled
  /\ ~SQLiteClosed
  /\ worker' = [worker EXCEPT ![w] = Busy(worker[w].rec, worker[w].redacted,
                                          worker[w].at, TRUE)]
  /\ UNCHANGED <<control, queue, handler, store, count, sinkErrors, accepted,
                 finished>>

\* ... and a statement that has started inserts its row or fails as a whole,
\* whatever happened to the context meanwhile.
SQLiteEnds(w) ==
  /\ AtSink(w, "sqlite")
  /\ worker[w].inWrite
  /\ Keep(w, "sqlite") \/ CountError("sqlite")
  /\ Advance(w, worker[w].at)
  /\ UNCHANGED <<control, queue, handler, count, accepted>>

WorkerStep(w) ==
  /\ phase # "exited"
  /\ \/ WorkerReceives(w) \/ WorkerExits(w)
     \/ WorkerRedacts(w) \/ WorkerPanics(w)
     \/ SinkWrites(w) \/ SQLiteRefuses(w) \/ SQLiteBegins(w) \/ SQLiteEnds(w)

-----------------------------------------------------------------------------
(* App.Serve and App.shutdown *)

\* Everything but the listed control variables stays as it is in a step of
\* the goroutine that runs Serve.
data == <<queue, handler, worker, store, count, sinkErrors, accepted, finished>>

\* net.Listen on the capture port succeeds, and both servers are started.
Listen ==
  /\ phase = "starting"
  /\ phase' = "serving"
  /\ adminOpen' = TRUE
  /\ UNCHANGED <<captureTimedOut, drainTimedOut, data>>

ListenFails ==
  /\ phase = "starting"
  /\ phase' = "closequeue"
  /\ UNCHANGED <<adminOpen, captureTimedOut, drainTimedOut, data>>

\* The three arms of Serve's select.  captureServer.Shutdown closes the capture
\* listener first in each of them.  The admin listener is only gone at once
\* when it is the admin server that failed.
Interrupted ==   \* ctx cancelled, or the capture server failed
  /\ phase = "serving"
  /\ phase' = "stopping"
  /\ UNCHANGED <<adminOpen, captureTimedOut, drainTimedOut, data>>

AdminFails ==
  /\ phase = "serving"
  /\ phase' = "stopping"
  /\ adminOpen' = FALSE
  /\ UNCHANGED <<captureTimedOut, drainTimedOut, data>>

\* The admin server's own goroutine sees serveCtx cancelled and closes its
\* listener.  Serve does not wait for it, nor for the POSTs in flight.
AdminStops ==
  /\ adminOpen
  /\ phase \notin {"starting", "serving", "exited"}
  /\ adminOpen' = FALSE
  /\ UNCHANGED <<phase, captureTimedOut, drainTimedOut, data>>

\* captureServer.Shutdown returns: no capture handler is running ...
CaptureStopped ==
  /\ phase = "stopping"
  /\ ActiveCaptures = {}
  /\ phase' = "closequeue"
  /\ UNCHANGED <<adminOpen, captureTimedOut, drainTimedOut, data>>

\* ... or shutdownDrainTimeout has elapsed.
CaptureStopTimesOut ==
  /\ phase = "stopping"
  /\ ActiveCaptures # {}
  /\ phase' = "closequeue"
  /\ captureTimedOut' = TRUE
  /\ UNCHANGED <<adminOpen, drainTimedOut, data>>

CloseQueue ==
  /\ phase = "closequeue"
  /\ phase' = "draining"
  /\ UNCHANGED <<adminOpen, captureTimedOut, drainTimedOut, data>>

\* Mutant: the drain is over when the channel is empty.
PoolDone_EmptyChannel == queue = <<>>

\* WorkerPool.Wait has returned.
PoolDone == \A w \in Workers : worker[w] = Exited

Drained ==
  /\ phase = "draining"
  /\ PoolDone
  /\ phase' = "closing"
  /\ UNCHANGED <<adminOpen, captureTimedOut, drainTimedOut, data>>

\* Mutant: the sinks' context is not cancelled.
GiveUpDrain_NoCancel == UNCHANGED drainTimedOut

\* The timeout branch calls cancelSinks.
GiveUpDrain == drainTimedOut' = TRUE

DrainTimesOut ==
  /\ phase = "draining"
  /\ phase' = "closing"
  /\ GiveUpDrain
  /\ UNCHANGED <<adminOpen, captureTimedOut, data>>

\* SQLiteSink.Close closes its statements, which waits for an execution that
\* is under way, and then the database; Serve returns after it.
CloseSQLite ==
  /\ phase = "closing"
  /\ \A w \in Workers : IsBusy(w) => ~worker[w].inWrite
  /\ phase' = "returned"
  /\ UNCHANGED <<adminOpen, captureTimedOut, drainTimedOut, data>>

\* main returns: every goroutine that is left ends with the process.
ProcessExits ==
  /\ phase = "returned"
  /\ phase' = "exited"
  /\ UNCHANGED <<adminOpen, captureTimedOut, drainTimedOut, data>>

StartStep == Listen \/ ListenFails \/ Interrupted \/ AdminFails

ShutdownStep ==
  \/ CaptureStopped \/ CaptureStopTimesOut \/ CloseQueue
  \/ Drained \/ DrainTimesOut \/ CloseSQLite \/ ProcessExits

Terminated == phase = "exited" /\ UNCHANGED vars

Next ==
  \/ \E h \in Captures : CaptureArrives(h) \/ CaptureStep(h)
  \/ \E p \in Posts : PostArrives(p) \/ PostStep(p)
  \/ \E w \in Workers : WorkerStep(w)
  \/ StartStep \/ ShutdownStep \/ AdminStops
  \/ Terminated

Spec == Init /\ [][Next]_vars

\* A handler runs on: its body arrives or the server's ReadTimeout ends the
\* read, and none of its other steps waits for anyone.
HandlerFairness ==
  /\ \A h \in Captures : WF_vars(CaptureStep(h))
  /\ \A p \in Posts : WF_vars(PostStep(p))

\* Serve runs on: each of its waits has a timeout.  The SQLite driver gives an
\* execution up once its context is cancelled.
ShutdownFairness ==
  /\ WF_vars(ShutdownStep)
  /\ \A w \in Workers :
       WF_vars(phase # "exited" /\ SinksCancelled /\ SQLiteEnds(w))

\* No assumption about workers: a sink may hang for ever.
HangingSinkSpec == Spec /\ HandlerFairness /\ ShutdownFairness

\* Every sink write returns, and workers run on.
WorkerFairness == \A w \in Workers : WF_vars(WorkerStep(w))

-----------------------------------------------------------------------------
WorkerState ==
  {Idle, Exited} \cup
  [pc : {"busy"}, rec : Records, redacted : BOOLEAN,
   at : 0..Len(SinkOrder), inWrite : BOOLEAN]

\* The state has the shape the code gives it; in particular the channel never
\* holds more than QueueSize records.
TypeOK ==
  /\ phase \in Phases
  /\ adminOpen \in BOOLEAN
  /\ captureTimedOut \in BOOLEAN
  /\ drainTimedOut \in BOOLEAN
  /\ queue \in Seq(Records) /\ Len(queue) <= QueueSize
  /\ hpc \in [Handlers -> {"new", "reading", "count", "countService",
                           "countCorrelation", "enqueue", "ingested", "dropped",
                           "done", "aborted"}]
  /\ batch \in [Posts -> Seq({"ok", "bad"})]
  /\ nextItem \in [Posts -> Nat \ {0}]
  /\ answer \in [Handlers -> {"none", "202", "207", "503", "4xx"}]
  /\ worker \in [Workers -> WorkerState]
  /\ store \in [Sinks -> SUBSET [rec : Records, redacted : BOOLEAN]]
  /\ count \in [Counters -> Nat]
  /\ sinkErrors \in [Sinks -> Nat]
  /\ accepted \subseteq Records
  /\ finished \subseteq Records

Kept(s) == {e.rec : e \in store[s]}

\* A record Enqueue accepted is at any moment in exactly one place: once in the
\* channel, in the hands of one worker, or processed to the end.  None is lost
\* and none is handed out twice.
Conservation ==
  /\ accepted = Queued \cup InProcess \cup finished
  /\ \A i, j \in 1..Len(queue) : queue[i] = queue[j] => i = j
  /\ \A v, w \in Workers : v # w => Holding(v) \cap Holding(w) = {}
  /\ Queued \cap InProcess = {}
  /\ finished \cap (Queued \cup InProcess) = {}

\* process gives a record to each sink at most once: a sink the record has
\* still to reach does not hold it yet.
NotYetWritten ==
  /\ \A s \in Sinks : Queued \cap Kept(s) = {}
  /\ \A w \in Workers : IsBusy(w) =>
       \A k \in 1..Len(SinkOrder) :
         k >= worker[w].at => worker[w].rec \notin Kept(SinkOrder[k])

\* Redact runs before the fan-out: no sink ever holds a raw record.
OnlyRedacted == \A s \in Sinks : \A e \in store[s] : e.redacted

\* A record that process has returned for and that is missing from an enabled
\* sink is accounted for by a counter: that sink's write errors or the panics.
LossCounted ==
  \A k \in 1..Len(SinkOrder) :
    Cardinality(finished \ Kept(SinkOrder[k]))
      <= sinkErrors[SinkOrder[k]] + count["panics"]

\* When the drain does not time out, shutdown reaches SQLite.Close only after
\* every accepted record has been processed and every worker has returned.
CleanDrain ==
  (phase \in {"closing", "returned", "exited"} /\ ~drainTimedOut) =>
    /\ accepted = finished
    /\ \A w \in Workers : worker[w] = Exited

\* Each capture that got past Enqueue or failed to be read is counted exactly
\* once, as captured, dropped or a body-read error, and each refused item of a
\* POST once more by dropped_total and once by the events counter.  The counters
\* of the captured family share one population: neither of the without_*
\* counters is ever ahead of captured_total.
EveryCaptureCounted ==
  /\ Cardinality({h \in Captures :
                    hpc[h] \in {"countService", "countCorrelation", "done"}})
       + Cardinality({p \in Posts : hpc[p] = "dropped"}) + count["eventsDropped"]
     = count["captured"] + count["bodyReadErrors"] + count["dropped"]
  /\ count["withoutService"] <= count["captured"]
  /\ count["withoutCorrelation"] <= count["captured"]

\* The events API is all-or-nothing on validation, and its status code tells
\* what became of the items: 202 all were accepted, 503 none was, 207 a part.
\* A capture loses its answer to the closed queue only after
\* captureServer.Shutdown has given up waiting for it.
AnswersTruthful ==
  /\ \A p \in Posts :
       LET taken == ItemsAccepted(p) all == 1..Len(batch[p]) IN
       /\ taken # {} => \A i \in all : batch[p][i] = "ok"
       /\ answer[p] = "202" => taken = all /\ all # {}
       /\ answer[p] = "207" => taken # {} /\ taken # all
       /\ answer[p] \in {"503", "4xx"} => taken = {}
  /\ (\E h \in Captures : hpc[h] = "aborted") => captureTimedOut

\* The capture port answers 202 whatever happens to the record, as the comment
\* on NewCaptureHandler says.
AlwaysAccepted ==
  \A h \in Captures : hpc[h] \in {"done", "aborted"} => answer[h] = "202"

\* Handlers never wait for workers or sinks: a request that arrived is
\* answered, or ends with the process, even when every sink hangs.
HandlersFinish ==
  \A h \in Handlers :
    hpc[h] \notin {"new", "done", "aborted"} ~>
      (hpc[h] \in {"done", "aborted"} \/ phase = "exited")

\* Once Serve has left its select the process exits, hanging sinks or not.
ShutdownTerminates ==
  phase \notin {"starting", "serving"} ~> phase = "exited"

Pending(h) == {r \in accepted \ finished : r[1] = h}

\* When sink writes return, every accepted record is processed, or the process
\* has exited; panics in Redact or a sink do not wear the pool down.
RecordsFinish ==
  WorkerFairness => \A h \in Handlers :
    Pending(h) # {} ~> (Pending(h) = {} \/ phase = "exited")

=============================================================================
