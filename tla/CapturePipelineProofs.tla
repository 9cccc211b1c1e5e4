----------------------- MODULE CapturePipelineProofs -----------------------
(***************************************************************************)
(* Proofs about CapturePipeline, for any number of requests, workers and   *)
(* sinks and any queue size.                                               *)
(***************************************************************************)
EXTENDS CapturePipeline, TLAPS

\* The record a handler is about to enqueue has not been accepted before.
Fresh ==
  /\ \A h \in Captures : hpc[h] \in {"new", "reading"} => <<h, 1>> \notin accepted
  /\ \A p \in Posts : \A i \in Nat \ {0} :
       <<p, i>> \in accepted => i < nextItem[p]

\* A worker only leaves its loop when the channel is closed and empty, and a
\* closed channel stays empty.
ExitedAfterDrain ==
  (\E w \in Workers : worker[w] = Exited) => QueueClosed /\ queue = <<>>

\* Serve gets past the drain by waiting for the pool or by the timeout.
PastDrain ==
  (phase \in {"closing", "returned", "exited"} /\ ~drainTimedOut) => PoolDone

\* A record that is with a sink has been through Redact.
RedactedInFlight ==
  \A w \in Workers : IsBusy(w) /\ worker[w].at > 0 => worker[w].redacted

-----------------------------------------------------------------------------
(* Facts about the operators the actions are built from. *)

\* Every request and item number names a record.
LEMMA RecordName ==
  ASSUME NEW h \in Handlers, NEW i \in Nat \ {0}
  PROVE  <<h, i>> \in Records
BY DEF Records

\* Adding to counters leaves them natural numbers.
LEMMA BumpType ==
  ASSUME NEW names, count \in [Counters -> Nat], Bump(names)
  PROVE  count' \in [Counters -> Nat]
BY DEF Bump

\* A worker inside process is in a legal state.
LEMMA BusyType ==
  ASSUME NEW r \in Records, NEW b \in BOOLEAN, NEW i \in 0..Len(SinkOrder),
         NEW c \in BOOLEAN
  PROVE  Busy(r, b, i, c) \in WorkerState
BY DEF Busy, WorkerState

\* A busy worker holds a record and is at Redact or at one of the sinks.
LEMMA BusyFields ==
  ASSUME NEW w \in Workers, worker \in [Workers -> WorkerState], IsBusy(w)
  PROVE  /\ worker[w].rec \in Records
         /\ worker[w].redacted \in BOOLEAN
         /\ worker[w].at \in 0..Len(SinkOrder)
         /\ worker[w].inWrite \in BOOLEAN
BY DEF IsBusy, WorkerState, Idle, Exited

\* SinkOrder is a finite list.
LEMMA SinkOrderLen == Len(SinkOrder) \in Nat
BY PipelineAssumption DEF PipelineAssumption

\* Every entry of SinkOrder is a sink.
LEMMA SinkOrderRange == \A k \in 1..Len(SinkOrder) : SinkOrder[k] \in Sinks
<1>1. SinkOrder \in Seq(Sinks) BY PipelineAssumption, Zenon DEF PipelineAssumption
<1>2. QED BY <1>1

\* App.Build lists no sink twice.
LEMMA SinksDistinct ==
  \A i, j \in 1..Len(SinkOrder) : SinkOrder[i] = SinkOrder[j] => i = j
BY PipelineAssumption, Zenon DEF PipelineAssumption

\* Returning from process keeps the types.
LEMMA ReturnsType ==
  ASSUME NEW w \in Workers, worker \in [Workers -> WorkerState],
         finished \subseteq Records, IsBusy(w), Returns(w)
  PROVE  worker' \in [Workers -> WorkerState] /\ finished' \subseteq Records
<1>1. Idle \in WorkerState BY DEF WorkerState
<1>2. QED BY <1>1, BusyFields DEF Returns

\* So does going from sink i to what follows it.
LEMMA AdvanceType ==
  ASSUME NEW w \in Workers, worker \in [Workers -> WorkerState],
         finished \subseteq Records, IsBusy(w),
         NEW i \in 0..Len(SinkOrder), Advance(w, i)
  PROVE  worker' \in [Workers -> WorkerState] /\ finished' \subseteq Records
<1>1. CASE i < Len(SinkOrder) /\ HandOver(w, i + 1) /\ UNCHANGED finished
  <2>1. i + 1 \in 0..Len(SinkOrder) BY <1>1, SinkOrderLen
  <2>2. Busy(worker[w].rec, TRUE, i + 1, FALSE) \in WorkerState
    BY <2>1, BusyType, BusyFields
  <2>3. QED BY <1>1, <2>2 DEF HandOver
<1>2. CASE i = Len(SinkOrder) /\ Returns(w)
  BY <1>2, ReturnsType
<1>3. QED BY <1>1, <1>2 DEF Advance

\* A sink keeps typed entries and its error counter stays a number.
LEMMA SinkType ==
  ASSUME NEW w \in Workers, NEW s \in Sinks, TypeOK, IsBusy(w),
         Keep(w, s) \/ CountError(s)
  PROVE  /\ store' \in [Sinks -> SUBSET [rec : Records, redacted : BOOLEAN]]
         /\ sinkErrors' \in [Sinks -> Nat]
<1>1. [rec |-> worker[w].rec, redacted |-> worker[w].redacted]
        \in [rec : Records, redacted : BOOLEAN]
  BY BusyFields DEF TypeOK
<1>2. CASE Keep(w, s) BY <1>1, <1>2 DEF Keep, TypeOK
<1>3. CASE CountError(s) BY <1>3 DEF CountError, TypeOK
<1>4. QED BY <1>2, <1>3

\* A send appends one record, within the capacity.
LEMMA SentType ==
  ASSUME NEW r \in Records, queue \in Seq(Records), accepted \subseteq Records,
         Sent(r)
  PROVE  /\ queue' \in Seq(Records) /\ Len(queue') <= QueueSize
         /\ accepted' \subseteq Records
BY PipelineAssumption DEF PipelineAssumption, Sent

\* A receive hands out a record and shortens the channel.
LEMMA HeadTailType ==
  ASSUME queue \in Seq(Records), queue # <<>>
  PROVE  /\ Head(queue) \in Records
         /\ Tail(queue) \in Seq(Records)
         /\ Len(Tail(queue)) = Len(queue) - 1
         /\ Len(queue) \in Nat \ {0}
OBVIOUS

-----------------------------------------------------------------------------
\* Type correctness, with the bound on the channel: TypeOK is inductive.
THEOREM TypeCorrect == Spec => []TypeOK
<1> USE PipelineAssumption
    DEF PipelineAssumption, Handlers, TypeOK, control, handler, data
<1>1. Init => TypeOK
  <2> SUFFICES ASSUME Init PROVE TypeOK
    OBVIOUS
  <2>1. Idle \in WorkerState BY DEF WorkerState
  <2>2. queue \in Seq(Records) /\ Len(queue) <= QueueSize BY DEF Init
  <2>3. batch \in [Posts -> Seq({"ok", "bad"})] BY DEF Init
  <2>4. store \in [Sinks -> SUBSET [rec : Records, redacted : BOOLEAN]]
    BY DEF Init
  <2>5. worker \in [Workers -> WorkerState] BY <2>1 DEF Init
  <2>6. count \in [Counters -> Nat] /\ sinkErrors \in [Sinks -> Nat]
    BY DEF Init
  <2>7. nextItem \in [Posts -> Nat \ {0}] BY DEF Init
  <2>8. QED BY <2>2, <2>3, <2>4, <2>5, <2>6, <2>7 DEF Init, Phases
<1>2. TypeOK /\ [Next]_vars => TypeOK'
  <2> SUFFICES ASSUME TypeOK, [Next]_vars PROVE TypeOK'
    OBVIOUS
  <2>1. ASSUME NEW h \in Captures, CaptureArrives(h) PROVE TypeOK'
    BY <2>1 DEF CaptureArrives, Goto
  <2>2. ASSUME NEW h \in Captures, BodyReadFails(h) PROVE TypeOK'
    BY <2>2, BumpType DEF BodyReadFails, Goto, Answer
  <2>3. ASSUME NEW h \in Captures, CaptureEnqueue(h) PROVE TypeOK'
    <3>1. CASE Sent(<<h, 1>>) /\ Goto(h, "count") /\ UNCHANGED <<answer, count>>
      <4>1. <<h, 1>> \in Records BY RecordName
      <4>2. QED BY <2>3, <3>1, <4>1, SentType DEF CaptureEnqueue, Goto
    <3>2. CASE CaptureDropped(h)
      BY <2>3, <3>2, BumpType DEF CaptureEnqueue, CaptureDropped, Full, Goto, Answer
    <3>3. CASE SendPanics(h) /\ UNCHANGED answer
      BY <2>3, <3>3 DEF CaptureEnqueue, SendPanics, Goto
    <3>4. QED BY <2>3, <3>1, <3>2, <3>3 DEF CaptureEnqueue
  <2>4. ASSUME NEW h \in Captures, CountCaptured(h) PROVE TypeOK'
    BY <2>4, BumpType DEF CountCaptured, Goto
  <2>5. ASSUME NEW h \in Captures, CountService(h) PROVE TypeOK'
    BY <2>5, BumpType DEF CountService, Goto
  <2>6. ASSUME NEW h \in Captures, CountCorrelation(h) PROVE TypeOK'
    BY <2>6, BumpType DEF CountCorrelation, Goto, Answer
  <2>7. ASSUME NEW p \in Posts, PostArrives(p) PROVE TypeOK'
    BY <2>7 DEF PostArrives, Goto
  <2>8. ASSUME NEW p \in Posts, PostRejects(p) PROVE TypeOK'
    BY <2>8, BumpType DEF PostRejects, Goto, Answer
  <2>9. ASSUME NEW p \in Posts, PostValidates(p) PROVE TypeOK'
    BY <2>9 DEF PostValidates, Goto
  <2>10. ASSUME NEW p \in Posts, PostEnqueue(p) PROVE TypeOK'
    <3>1. CASE Sent(<<p, nextItem[p]>>) /\ Goto(p, "ingested") /\ UNCHANGED count
      <4>1. <<p, nextItem[p]>> \in Records BY RecordName
      <4>2. ~QueueClosed BY <3>1 DEF Sent
      <4>3. QED
        <5>1. /\ queue' \in Seq(Records) /\ Len(queue') <= QueueSize
              /\ accepted' \subseteq Records
          BY <3>1, <4>1, SentType
        <5>2. nextItem' = [nextItem EXCEPT ![p] = @ + 1]
          BY <2>10, <4>2 DEF PostEnqueue, SendPanics
        <5>3. QED BY <2>10, <3>1, <5>1, <5>2 DEF PostEnqueue, Goto
    <3>2. CASE Full /\ Goto(p, "dropped") /\ Bump({"dropped"})
      BY <2>10, <3>2, BumpType DEF PostEnqueue, Full, SendPanics, Goto
    <3>3. CASE SendPanics(p)
      BY <2>10, <3>3 DEF PostEnqueue, SendPanics, Sent, Full, Goto
    <3>4. QED BY <2>10, <3>1, <3>2, <3>3 DEF PostEnqueue
  <2>11. ASSUME NEW p \in Posts, PostCounts(p) \/ PostAnswers(p) PROVE TypeOK'
    <3>1. CASE PostCounts(p) BY <3>1, BumpType DEF PostCounts, Goto
    <3>2. CASE PostAnswers(p) BY <3>2 DEF PostAnswers, Goto, Answer, PostCode
    <3>3. QED BY <2>11, <3>1, <3>2
  <2>12. ASSUME NEW w \in Workers, WorkerReceives(w) PROVE TypeOK'
    <3>1. Busy(Head(queue), FALSE, 0, FALSE) \in WorkerState
      <4>1. Head(queue) \in Records BY <2>12, HeadTailType DEF WorkerReceives
      <4>2. 0 \in 0..Len(SinkOrder) BY SinkOrderLen
      <4>3. QED BY <4>1, <4>2, BusyType
    <3>2. queue' \in Seq(Records) /\ Len(queue') <= QueueSize
      BY <2>12, HeadTailType DEF WorkerReceives, Take
    <3>3. QED BY <2>12, <3>1, <3>2 DEF WorkerReceives, Take
  <2>13. ASSUME NEW w \in Workers, WorkerExits(w) PROVE TypeOK'
    BY <2>13 DEF WorkerExits, Exited, WorkerState
  <2>14. ASSUME NEW w \in Workers, WorkerRedacts(w) PROVE TypeOK'
    <3>1. 0 \in 0..Len(SinkOrder) BY SinkOrderLen
    <3>2. QED BY <2>14, <3>1, AdvanceType DEF WorkerRedacts
  <2>15. ASSUME NEW w \in Workers, WorkerPanics(w) PROVE TypeOK'
    BY <2>15, BumpType, ReturnsType DEF WorkerPanics, Recovers
  <2>16. ASSUME NEW w \in Workers, SinkWrites(w) PROVE TypeOK'
    BY <2>16, AdvanceType, SinkType, BusyFields DEF SinkWrites, AtSink, Sinks
  <2>17. ASSUME NEW w \in Workers, SQLiteRefuses(w) PROVE TypeOK'
    BY <2>17, AdvanceType, SinkType, BusyFields DEF SQLiteRefuses, AtSink, Sinks
  <2>18. ASSUME NEW w \in Workers, SQLiteBegins(w) PROVE TypeOK'
    <3>1. Busy(worker[w].rec, worker[w].redacted, worker[w].at, TRUE)
            \in WorkerState
      BY <2>18, BusyType, BusyFields DEF SQLiteBegins, AtSink
    <3>2. QED BY <2>18, <3>1 DEF SQLiteBegins
  <2>19. ASSUME NEW w \in Workers, SQLiteEnds(w) PROVE TypeOK'
    BY <2>19, AdvanceType, SinkType, BusyFields DEF SQLiteEnds, AtSink, Sinks
  <2>20. CASE StartStep \/ ShutdownStep \/ AdminStops
    BY <2>20 DEF StartStep, ShutdownStep, Listen, ListenFails, Interrupted, AdminFails,
         CaptureStopped, CaptureStopTimesOut, CloseQueue, Drained,
         DrainTimesOut, CloseSQLite, ProcessExits, AdminStops,
         GiveUpDrain, Phases
  <2>21. CASE UNCHANGED vars
    BY <2>21 DEF vars
  <2>22. QED
    BY <2>1, <2>2, <2>3, <2>4, <2>5, <2>6, <2>7, <2>8, <2>9, <2>10,
       <2>11, <2>12, <2>13, <2>14, <2>15, <2>16, <2>17, <2>18, <2>19, <2>20, <2>21
      DEF Next, CaptureStep, PostStep, WorkerStep, Terminated
<1>3. QED BY <1>1, <1>2, PTL DEF Spec

-----------------------------------------------------------------------------
(* Conservation.  Four kinds of steps matter to it: a send, a receive, the   *)
(* return from process, and those that leave every record where it is.     *)

\* Queued after a send, and after a receive.
LEMMA QueuedSent ==
  ASSUME NEW r, queue \in Seq(Records), queue' = Append(queue, r),
         r \in Records
  PROVE  Queued' = Queued \cup {r}
<1>1. Len(queue') = Len(queue) + 1 /\ Len(queue) \in Nat OBVIOUS
<1>2. \A i \in 1..Len(queue) : queue'[i] = queue[i] OBVIOUS
<1>3. queue'[Len(queue) + 1] = r OBVIOUS
<1>4. QED BY <1>1, <1>2, <1>3 DEF Queued

\* ... and after a receive, which removes the head.
LEMMA QueuedTaken ==
  ASSUME queue \in Seq(Records), queue # <<>>, queue' = Tail(queue)
  PROVE  Queued = Queued' \cup {Head(queue)}
<1>1. Len(queue') = Len(queue) - 1 /\ Len(queue) \in Nat \ {0}
  BY HeadTailType
<1>2. \A i \in 1..Len(queue') : queue'[i] = queue[i + 1] OBVIOUS
<1>3. Head(queue) = queue[1] OBVIOUS
<1>4. \A i \in 1..Len(queue) : i = 1 \/ i - 1 \in 1..Len(queue') BY <1>1
<1>5. \A i \in 1..Len(queue) : i # 1 => queue[i] = queue'[i - 1]
  BY <1>1, <1>2, <1>4
<1>6. ASSUME NEW r \in Queued PROVE r \in Queued' \cup {Head(queue)}
  <2>1. PICK i \in 1..Len(queue) : r = queue[i] BY DEF Queued
  <2>2. CASE i = 1 BY <2>1, <2>2, <1>3
  <2>3. CASE i # 1 BY <2>1, <2>3, <1>4, <1>5 DEF Queued
  <2>4. QED BY <2>2, <2>3
<1>7. ASSUME NEW r \in Queued' PROVE r \in Queued
  <2>1. PICK i \in 1..Len(queue') : r = queue'[i] BY DEF Queued
  <2>2. i + 1 \in 1..Len(queue) BY <2>1, <1>1
  <2>3. QED BY <2>1, <2>2, <1>2 DEF Queued
<1>8. Head(queue) \in Queued BY <1>1, <1>3 DEF Queued
<1>9. QED BY <1>6, <1>7, <1>8

\* A send of a record that was never accepted conserves the records.
LEMMA ConservationSent ==
  ASSUME TypeOK, Conservation, NEW r \in Records, r \notin accepted, Sent(r),
         UNCHANGED <<worker, finished>>
  PROVE  Conservation'
<1>1. Queued' = Queued \cup {r} BY QueuedSent DEF Sent, TypeOK
<1>2. InProcess' = InProcess /\ \A w \in Workers : Holding(w)' = Holding(w)
  BY DEF InProcess, Holding, IsBusy
<1>3. \A i, j \in 1..Len(queue') : queue'[i] = queue'[j] => i = j
  <2>1. Len(queue') = Len(queue) + 1 /\ Len(queue) \in Nat
    BY DEF Sent, TypeOK
  <2>2. \A i \in 1..Len(queue) : queue'[i] = queue[i] /\ queue[i] \in accepted
    BY DEF Sent, TypeOK, Conservation, Queued
  <2>3. queue'[Len(queue) + 1] = r BY DEF Sent, TypeOK
  <2>4. QED BY <2>1, <2>2, <2>3 DEF Conservation
<1>4. QED BY <1>1, <1>2, <1>3 DEF Conservation, Sent

\* So does a receive: the head moves from the channel to the idle worker.
LEMMA ConservationTaken ==
  ASSUME TypeOK, Conservation, NEW w \in Workers, worker[w] = Idle,
         queue # <<>>, Take(w), UNCHANGED <<accepted, finished>>
  PROVE  Conservation'
<1> DEFINE r == Head(queue)
<1>1. Queued = Queued' \cup {r} BY QueuedTaken DEF Take, TypeOK
<1>2. Len(queue') = Len(queue) - 1 /\ Len(queue) \in Nat \ {0}
  BY HeadTailType DEF Take, TypeOK
<1>3. \A i \in 1..Len(queue') : i + 1 \in 1..Len(queue) /\ queue'[i] = queue[i + 1]
  BY <1>2 DEF Take, TypeOK
<1>4. r = queue[1] /\ 1 \in 1..Len(queue) BY <1>2 DEF TypeOK
<1>5. \A i, j \in 1..Len(queue') : queue'[i] = queue'[j] => i = j
  BY <1>2, <1>3 DEF Conservation
<1>6. r \notin Queued'
  BY <1>2, <1>3, <1>4 DEF Conservation, Queued
<1>7. Holding(w) = {} /\ Holding(w)' = {r}
  BY DEF Holding, IsBusy, Take, Busy, Idle, TypeOK
<1>8. \A v \in Workers : v # w => Holding(v)' = Holding(v)
  BY DEF Holding, IsBusy, Take, TypeOK
<1>9. InProcess' = InProcess \cup {r} BY <1>7, <1>8 DEF InProcess
<1>10. r \notin InProcess /\ r \notin finished /\ r \in Queued
  BY <1>1 DEF Conservation
<1>11. \A v \in Workers : r \notin Holding(v) BY <1>10 DEF InProcess
<1>12. \A u, v \in Workers : u # v => Holding(u)' \cap Holding(v)' = {}
  BY <1>7, <1>8, <1>11 DEF Conservation
<1>13. QED BY <1>1, <1>5, <1>6, <1>9, <1>10, <1>12 DEF Conservation

\* So does the return from process.
LEMMA ConservationReturns ==
  ASSUME TypeOK, Conservation, NEW w \in Workers, IsBusy(w), Returns(w),
         UNCHANGED <<queue, accepted>>
  PROVE  Conservation'
<1> DEFINE r == worker[w].rec
<1>1. Holding(w) = {r} /\ Holding(w)' = {}
  BY DEF Holding, IsBusy, Returns, Idle, TypeOK
<1>2. \A v \in Workers : v # w => Holding(v)' = Holding(v)
  BY DEF Holding, IsBusy, Returns, TypeOK
<1>3. InProcess' = InProcess \ {r}
  BY <1>1, <1>2 DEF InProcess, Conservation
<1>4. r \in InProcess BY <1>1 DEF InProcess
<1>5. Queued' = Queued BY DEF Queued
<1>6. \A u, v \in Workers : u # v => Holding(u)' \cap Holding(v)' = {}
  BY <1>1, <1>2 DEF Conservation
<1>7. QED BY <1>3, <1>4, <1>5, <1>6 DEF Conservation, Returns

\* So does a step that leaves every record where it is.
LEMMA ConservationSame ==
  ASSUME Conservation, \A w \in Workers : Holding(w)' = Holding(w),
         UNCHANGED <<queue, accepted, finished>>
  PROVE  Conservation'
<1>1. InProcess' = InProcess /\ Queued' = Queued BY DEF InProcess, Queued
<1>2. QED BY <1>1 DEF Conservation

\* HandOver and the begin of an SQLite write change what a worker does, not
\* the record it holds.
LEMMA SameHolding ==
  ASSUME NEW w \in Workers, worker \in [Workers -> WorkerState], IsBusy(w),
         NEW b, NEW i, NEW c,
         worker' = [worker EXCEPT ![w] = Busy(worker[w].rec, b, i, c)]
  PROVE  \A v \in Workers : Holding(v)' = Holding(v)
<1>1. Holding(w)' = Holding(w) BY DEF Holding, IsBusy, Busy
<1>2. \A v \in Workers : v # w => Holding(v)' = Holding(v)
  BY DEF Holding, IsBusy
<1>3. QED BY <1>1, <1>2

\* So does whatever follows Redact or a sink.
LEMMA ConservationAdvance ==
  ASSUME TypeOK, Conservation, NEW w \in Workers, IsBusy(w), NEW i,
         Advance(w, i), UNCHANGED <<queue, accepted>>
  PROVE  Conservation'
<1>1. CASE HandOver(w, i + 1) /\ UNCHANGED finished
  BY <1>1, SameHolding, ConservationSame DEF HandOver, TypeOK
<1>2. CASE Returns(w) BY <1>2, ConservationReturns
<1>3. QED BY <1>1, <1>2 DEF Advance

\* The strengthening Fresh: a step that accepts nothing keeps it as long as no
\* handler goes back and no POST loses its place.
LEMMA FreshSame ==
  ASSUME Fresh, UNCHANGED <<accepted, nextItem>>,
         \A h \in Captures : hpc'[h] \in {"new", "reading"} =>
                               hpc[h] \in {"new", "reading"}
  PROVE  Fresh'
BY DEF Fresh

\* A handler step that does not touch the channel.
QuietHandlerStep(h) ==
  \/ CaptureArrives(h) \/ BodyReadFails(h) \/ CountCaptured(h)
  \/ CountService(h) \/ CountCorrelation(h)

QuietPostStep(p) ==
  \/ PostArrives(p) \/ PostRejects(p) \/ PostValidates(p)
  \/ PostCounts(p) \/ PostAnswers(p)

\* A step of Serve or of the admin server, or no step.
ControlStep == StartStep \/ ShutdownStep \/ AdminStops \/ UNCHANGED vars

\* A sink has been called and process goes on.
SinkStep(w) == SinkWrites(w) \/ SQLiteRefuses(w) \/ SQLiteEnds(w)

\* The steps, sorted by what they do to the records.
LEMMA StepCases ==
  ASSUME [Next]_vars
  PROVE  \/ \E h \in Captures : QuietHandlerStep(h) \/ CaptureEnqueue(h)
         \/ \E p \in Posts : QuietPostStep(p) \/ PostEnqueue(p)
         \/ \E w \in Workers :
              \/ WorkerReceives(w) \/ WorkerExits(w) \/ WorkerRedacts(w)
              \/ WorkerPanics(w) \/ SinkStep(w) \/ SQLiteBegins(w)
         \/ ControlStep
BY DEF Next, CaptureStep, PostStep, WorkerStep, Terminated, QuietHandlerStep,
       QuietPostStep, ControlStep, SinkStep

\* What a capture handler's step does when it does not enqueue.
LEMMA QuietHandler ==
  ASSUME TypeOK, NEW h \in Captures, QuietHandlerStep(h)
  PROVE  /\ UNCHANGED <<control, queue, batch, nextItem, worker, store, sinkErrors,
                        accepted, finished>>
         /\ \E pc \in {"reading", "countService", "countCorrelation", "done"} :
              hpc' = [hpc EXCEPT ![h] = pc] /\ (pc = "reading" => hpc[h] = "new")
BY DEF QuietHandlerStep, CaptureArrives, BodyReadFails, CountCaptured,
       CountService, CountCorrelation, Goto, Answer

\* The same for a POST.
LEMMA QuietPost ==
  ASSUME TypeOK, NEW p \in Posts, QuietPostStep(p)
  PROVE  /\ UNCHANGED <<control, queue, nextItem, worker, store, sinkErrors,
                        accepted, finished>>
         /\ \E pc \in {"reading", "enqueue", "done"} : hpc' = [hpc EXCEPT ![p] = pc]
BY DEF QuietPostStep, PostArrives, PostRejects, PostValidates, PostCounts,
       PostAnswers, Goto, Answer

\* Serve's steps change the control variables only.
LEMMA ControlOnly ==
  ASSUME ControlStep
  PROVE  UNCHANGED data
BY DEF ControlStep, StartStep, ShutdownStep, Listen, ListenFails, Interrupted,
       AdminFails, CaptureStopped, CaptureStopTimesOut, CloseQueue, Drained,
       DrainTimesOut, CloseSQLite, ProcessExits, AdminStops, vars, data

\* A sink call keeps the record, or counts an error, and goes on to Advance.
LEMMA SinkCall ==
  ASSUME NEW w \in Workers, SinkStep(w)
  PROVE  /\ IsBusy(w) /\ worker[w].at > 0
         /\ LET s == SinkOrder[worker[w].at] IN Keep(w, s) \/ CountError(s)
         /\ Advance(w, worker[w].at)
         /\ UNCHANGED <<control, queue, handler, count, accepted>>
BY DEF SinkStep, SinkWrites, SQLiteRefuses, SQLiteEnds, AtSink

-----------------------------------------------------------------------------
\* Fresh is preserved by every step.
LEMMA FreshStep ==
  ASSUME TypeOK, Fresh, [Next]_vars
  PROVE  Fresh'
<1> USE DEF handler, control, data
<1>1. ASSUME NEW h \in Captures, QuietHandlerStep(h) PROVE Fresh'
  <2>1. PICK pc \in {"reading", "countService", "countCorrelation", "done"} :
          hpc' = [hpc EXCEPT ![h] = pc] /\ (pc = "reading" => hpc[h] = "new")
    BY <1>1, QuietHandler
  <2>2. \A g \in Captures : hpc'[g] \in {"new", "reading"} =>
                              hpc[g] \in {"new", "reading"}
    BY <2>1 DEF TypeOK, Handlers
  <2>3. QED BY <1>1, <2>2, QuietHandler, FreshSame
<1>2. ASSUME NEW h \in Captures, CaptureEnqueue(h) PROVE Fresh'
  <2>1. hpc'[h] \in {"count", "done", "aborted"}
    BY <1>2 DEF CaptureEnqueue, CaptureDropped, SendPanics, Answer, Goto, TypeOK,
                Handlers
  <2>2. \A g \in Captures : g # h => hpc'[g] = hpc[g]
    BY <1>2 DEF CaptureEnqueue, CaptureDropped, SendPanics, Answer, Goto, TypeOK,
                Handlers
  <2>3. accepted' \subseteq accepted \cup {<<h, 1>>} /\ nextItem' = nextItem
    BY <1>2 DEF CaptureEnqueue, CaptureDropped, SendPanics, Sent, Full
  <2>4. h \notin Posts BY PipelineAssumption, Zenon DEF PipelineAssumption
  <2>5. QED BY <2>1, <2>2, <2>3, <2>4 DEF Fresh
<1>3. ASSUME NEW p \in Posts, QuietPostStep(p) PROVE Fresh'
  <2>1. p \notin Captures BY PipelineAssumption, Zenon DEF PipelineAssumption
  <2>2. \A g \in Captures : hpc'[g] = hpc[g]
    <3>1. PICK pc \in {"reading", "enqueue", "done"} : hpc' = [hpc EXCEPT ![p] = pc]
      BY <1>3, QuietPost
    <3>2. QED BY <2>1, <3>1 DEF TypeOK, Handlers
  <2>3. QED BY <1>3, <2>2, QuietPost, FreshSame
<1>4. ASSUME NEW p \in Posts, PostEnqueue(p) PROVE Fresh'
  <2>1. p \notin Captures BY PipelineAssumption, Zenon DEF PipelineAssumption
  <2>2. \A g \in Captures : hpc'[g] = hpc[g]
    <3>1. PICK pc : hpc' = [hpc EXCEPT ![p] = pc]
      BY <1>4 DEF PostEnqueue, SendPanics, Goto
    <3>2. QED BY <2>1, <3>1 DEF TypeOK, Handlers
  <2>3. \A g \in Captures : hpc'[g] \in {"new", "reading"} => <<g, 1>> \notin accepted'
    <3>1. accepted' \subseteq accepted \cup {<<p, nextItem[p]>>}
      BY <1>4 DEF PostEnqueue, Sent, Full, SendPanics
    <3>2. QED BY <2>1, <2>2, <3>1 DEF Fresh
  <2>4. CASE nextItem' = [nextItem EXCEPT ![p] = @ + 1]
    <3>1. accepted' \subseteq accepted \cup {<<p, nextItem[p]>>}
      BY <1>4 DEF PostEnqueue, Sent, Full, SendPanics
    <3>2. nextItem'[p] = nextItem[p] + 1 /\ nextItem[p] \in Nat
      BY <2>4 DEF TypeOK
    <3>3. \A q \in Posts : q # p => nextItem'[q] = nextItem[q]
      BY <2>4 DEF TypeOK
    <3>4. ASSUME NEW q \in Posts, NEW i \in Nat \ {0}, <<q, i>> \in accepted'
          PROVE  i < nextItem'[q]
      <4>1. CASE <<q, i>> \in accepted
        <5>1. i < nextItem[q] BY <4>1 DEF Fresh
        <5>2. QED BY <5>1, <3>2, <3>3
      <4>2. CASE <<q, i>> = <<p, nextItem[p]>> BY <4>2, <3>2
      <4>3. QED BY <3>1, <3>4, <4>1, <4>2
    <3>5. QED BY <2>3, <3>4 DEF Fresh
  <2>5. CASE SendPanics(p) /\ UNCHANGED nextItem
    BY <2>3, <2>5 DEF Fresh, SendPanics
  <2>6. QED BY <1>4, <2>4, <2>5 DEF PostEnqueue
<1>5. ASSUME NEW w \in Workers,
             \/ WorkerReceives(w) \/ WorkerExits(w) \/ WorkerRedacts(w)
             \/ WorkerPanics(w) \/ SinkStep(w) \/ SQLiteBegins(w)
      PROVE  Fresh'
  BY <1>5, SinkCall, FreshSame DEF WorkerReceives, WorkerExits, WorkerRedacts,
     WorkerPanics, SQLiteBegins
<1>6. CASE ControlStep BY <1>6, ControlOnly, FreshSame
<1>7. QED BY <1>1, <1>2, <1>3, <1>4, <1>5, <1>6, StepCases

\* Conservation is preserved by every step from a state in which Fresh holds.
LEMMA ConservationStep ==
  ASSUME TypeOK, Fresh, Conservation, [Next]_vars
  PROVE  Conservation'
<1> USE DEF handler, control, data
<1>1. ASSUME UNCHANGED <<queue, worker, accepted, finished>> PROVE Conservation'
  <2>1. \A w \in Workers : Holding(w)' = Holding(w) BY <1>1 DEF Holding, IsBusy
  <2>2. QED BY <1>1, <2>1, ConservationSame
<1>2. ASSUME NEW h \in Captures, QuietHandlerStep(h) \/ CaptureEnqueue(h)
      PROVE  Conservation'
  <2>1. CASE CaptureEnqueue(h) /\ Sent(<<h, 1>>)
    <3>1. <<h, 1>> \in Records BY RecordName DEF Handlers
    <3>2. <<h, 1>> \notin accepted BY <2>1 DEF CaptureEnqueue, Fresh
    <3>3. QED BY <2>1, <3>1, <3>2, ConservationSent DEF CaptureEnqueue
  <2>2. QED BY <1>1, <1>2, <2>1, QuietHandler
            DEF CaptureEnqueue, CaptureDropped, Full, SendPanics
<1>3. ASSUME NEW p \in Posts, QuietPostStep(p) \/ PostEnqueue(p)
      PROVE  Conservation'
  <2>1. CASE PostEnqueue(p) /\ Sent(<<p, nextItem[p]>>)
    <3>1. nextItem[p] \in Nat \ {0} BY DEF TypeOK
    <3>2. <<p, nextItem[p]>> \in Records BY <3>1, RecordName DEF Handlers
    <3>3. <<p, nextItem[p]>> \notin accepted BY <3>1 DEF Fresh
    <3>4. QED BY <2>1, <3>2, <3>3, ConservationSent DEF PostEnqueue
  <2>2. QED BY <1>1, <1>3, <2>1, QuietPost DEF PostEnqueue, Full, SendPanics
<1>4. ASSUME NEW w \in Workers, WorkerReceives(w) PROVE Conservation'
  BY <1>4, ConservationTaken DEF WorkerReceives
<1>5. ASSUME NEW w \in Workers, WorkerExits(w) PROVE Conservation'
  <2>1. Holding(w)' = Holding(w)
    BY <1>5 DEF WorkerExits, Holding, IsBusy, Idle, Exited, TypeOK
  <2>2. \A v \in Workers : v # w => Holding(v)' = Holding(v)
    BY <1>5 DEF WorkerExits, Holding, IsBusy, TypeOK
  <2>3. QED BY <1>5, <2>1, <2>2, ConservationSame DEF WorkerExits
<1>6. ASSUME NEW w \in Workers, WorkerRedacts(w) \/ SinkStep(w)
      PROVE  Conservation'
  BY <1>6, SinkCall, ConservationAdvance DEF WorkerRedacts
<1>7. ASSUME NEW w \in Workers, WorkerPanics(w) PROVE Conservation'
  BY <1>7, ConservationReturns DEF WorkerPanics, Recovers
<1>8. ASSUME NEW w \in Workers, SQLiteBegins(w) PROVE Conservation'
  BY <1>8, SameHolding, ConservationSame DEF SQLiteBegins, AtSink, TypeOK
<1>9. CASE ControlStep BY <1>1, <1>9, ControlOnly
<1>10. QED
  BY <1>2, <1>3, <1>4, <1>5, <1>6, <1>7, <1>8, <1>9, StepCases

\* No record that Enqueue accepted is lost or handed out twice, whatever the
\* number of handlers and workers and the size of the queue.
THEOREM RecordsConserved == Spec => [](Conservation /\ Fresh)
<1>1. Init => Conservation /\ Fresh
  <2> SUFFICES ASSUME Init PROVE Conservation /\ Fresh
    OBVIOUS
  <2>1. Queued = {} BY DEF Init, Queued
  <2>2. \A w \in Workers : Holding(w) = {} BY DEF Init, Holding, IsBusy, Idle
  <2>3. InProcess = {} BY <2>2 DEF InProcess
  <2>4. \A i, j \in 1..Len(queue) : queue[i] = queue[j] => i = j BY DEF Init
  <2>5. QED BY <2>1, <2>2, <2>3, <2>4 DEF Init, Conservation, Fresh
<1>2. TypeOK /\ Conservation /\ Fresh /\ [Next]_vars => Conservation' /\ Fresh'
  BY FreshStep, ConservationStep
<1>3. QED BY <1>1, <1>2, TypeCorrect, PTL DEF Spec

-----------------------------------------------------------------------------
\* Sinks keep redacted records only: every step preserves it, together with
\* RedactedInFlight.
LEMMA RedactedStep ==
  ASSUME TypeOK, OnlyRedacted, RedactedInFlight, [Next]_vars
  PROVE  OnlyRedacted' /\ RedactedInFlight'
<1> USE DEF handler, control, data
<1>1. ASSUME UNCHANGED <<worker, store>> PROVE OnlyRedacted' /\ RedactedInFlight'
  BY <1>1 DEF OnlyRedacted, RedactedInFlight, IsBusy
<1>2. ASSUME NEW w \in Workers, NEW i, IsBusy(w), Advance(w, i)
      PROVE  RedactedInFlight'
  <2>1. CASE HandOver(w, i + 1)
    BY <1>2, <2>1 DEF HandOver, Busy, RedactedInFlight, IsBusy, TypeOK
  <2>2. CASE Returns(w)
    BY <1>2, <2>2 DEF Returns, Idle, RedactedInFlight, IsBusy, TypeOK
  <2>3. QED BY <1>2, <2>1, <2>2 DEF Advance
<1>3. ASSUME NEW h \in Captures, QuietHandlerStep(h) \/ CaptureEnqueue(h)
      PROVE  UNCHANGED <<worker, store>>
  BY <1>3, QuietHandler DEF CaptureEnqueue
<1>4. ASSUME NEW p \in Posts, QuietPostStep(p) \/ PostEnqueue(p)
      PROVE  UNCHANGED <<worker, store>>
  BY <1>4, QuietPost DEF PostEnqueue
<1>5. ASSUME NEW w \in Workers, WorkerReceives(w) \/ WorkerExits(w)
      PROVE  OnlyRedacted' /\ RedactedInFlight'
  <2>1. OnlyRedacted' BY <1>5 DEF WorkerReceives, WorkerExits, OnlyRedacted
  <2>2. CASE WorkerReceives(w)
    BY <2>1, <2>2 DEF WorkerReceives, Take, Busy, RedactedInFlight, IsBusy, TypeOK
  <2>3. CASE WorkerExits(w)
    BY <2>1, <2>3 DEF WorkerExits, Exited, RedactedInFlight, IsBusy, TypeOK
  <2>4. QED BY <1>5, <2>2, <2>3
<1>6. ASSUME NEW w \in Workers, WorkerRedacts(w)
      PROVE  OnlyRedacted' /\ RedactedInFlight'
  BY <1>2, <1>6 DEF WorkerRedacts, OnlyRedacted
<1>7. ASSUME NEW w \in Workers, WorkerPanics(w)
      PROVE  OnlyRedacted' /\ RedactedInFlight'
  BY <1>7 DEF WorkerPanics, Recovers, Returns, Idle, OnlyRedacted,
              RedactedInFlight, IsBusy, TypeOK
<1>8. ASSUME NEW w \in Workers, SinkStep(w)
      PROVE  OnlyRedacted' /\ RedactedInFlight'
  <2> DEFINE s == SinkOrder[worker[w].at]
  <2>1. IsBusy(w) /\ worker[w].at > 0 /\ (Keep(w, s) \/ CountError(s))
          /\ Advance(w, worker[w].at)
    BY <1>8, SinkCall
  <2>2. worker[w].redacted BY <2>1 DEF RedactedInFlight
  <2>3. OnlyRedacted'
    <3>1. CASE CountError(s) BY <3>1 DEF CountError, OnlyRedacted
    <3>2. CASE Keep(w, s)
      <4> DEFINE e == [rec |-> worker[w].rec, redacted |-> worker[w].redacted]
      <4>1. e.redacted BY <2>2
      <4>2. \A t \in Sinks : store'[t] \subseteq store[t] \cup {e}
        BY <3>2 DEF Keep, TypeOK
      <4>3. QED BY <4>1, <4>2 DEF OnlyRedacted
    <3>3. QED BY <2>1, <3>1, <3>2
  <2>4. QED BY <1>2, <2>1, <2>3
<1>9. ASSUME NEW w \in Workers, SQLiteBegins(w)
      PROVE  OnlyRedacted' /\ RedactedInFlight'
  BY <1>9 DEF SQLiteBegins, AtSink, Busy, OnlyRedacted, RedactedInFlight,
              IsBusy, TypeOK
<1>10. CASE ControlStep BY <1>1, <1>10, ControlOnly
<1>11. QED
  BY <1>1, <1>3, <1>4, <1>5, <1>6, <1>7, <1>8, <1>9, <1>10, StepCases

\* No sink is ever handed a record that has not been through Redact.
THEOREM SinksSeeRedacted == Spec => []OnlyRedacted
<1>1. Init => OnlyRedacted /\ RedactedInFlight
  BY DEF Init, OnlyRedacted, RedactedInFlight, IsBusy, Idle
<1>2. TypeOK /\ OnlyRedacted /\ RedactedInFlight /\ [Next]_vars
        => OnlyRedacted' /\ RedactedInFlight'
  BY RedactedStep
<1>3. QED BY <1>1, <1>2, TypeCorrect, PTL DEF Spec

-----------------------------------------------------------------------------
\* Every step keeps a closed channel empty once a worker has left its loop.
LEMMA ExitedStep ==
  ASSUME TypeOK, ExitedAfterDrain, [Next]_vars
  PROVE  ExitedAfterDrain'
<1> USE DEF handler, control, data
<1>1. ASSUME NEW w \in Workers, NEW st, worker' = [worker EXCEPT ![w] = st],
             st # Exited, UNCHANGED <<phase, queue>>
      PROVE  ExitedAfterDrain'
  BY <1>1 DEF ExitedAfterDrain, QueueClosed, TypeOK
<1>2. Idle # Exited /\ \A r, b, i, c : Busy(r, b, i, c) # Exited
  BY DEF Idle, Exited, Busy
<1>3. ASSUME UNCHANGED worker, UNCHANGED queue, QueueClosed => QueueClosed'
      PROVE  ExitedAfterDrain'
  BY <1>3 DEF ExitedAfterDrain
<1>4. ASSUME NEW r, Sent(r), UNCHANGED worker PROVE ExitedAfterDrain'
  BY <1>4 DEF Sent, ExitedAfterDrain
<1>5. ASSUME NEW h \in Captures, QuietHandlerStep(h) \/ CaptureEnqueue(h)
      PROVE  ExitedAfterDrain'
  BY <1>3, <1>4, <1>5, QuietHandler
     DEF CaptureEnqueue, CaptureDropped, Full, SendPanics, QueueClosed
<1>6. ASSUME NEW p \in Posts, QuietPostStep(p) \/ PostEnqueue(p)
      PROVE  ExitedAfterDrain'
  BY <1>3, <1>4, <1>6, QuietPost DEF PostEnqueue, Full, SendPanics, QueueClosed
<1>7. ASSUME NEW w \in Workers, WorkerReceives(w) PROVE ExitedAfterDrain'
  <2>1. \A v \in Workers : worker[v] # Exited
    BY <1>7 DEF WorkerReceives, ExitedAfterDrain
  <2>2. \A v \in Workers : worker'[v] # Exited
    BY <1>2, <1>7, <2>1 DEF WorkerReceives, Take, TypeOK
  <2>3. QED BY <2>2 DEF ExitedAfterDrain
<1>8. ASSUME NEW w \in Workers, WorkerExits(w) PROVE ExitedAfterDrain'
  BY <1>8 DEF WorkerExits, ExitedAfterDrain, QueueClosed
<1>9. ASSUME NEW w \in Workers, NEW i, Advance(w, i), UNCHANGED <<phase, queue>>
      PROVE  ExitedAfterDrain'
  <2>1. CASE HandOver(w, i + 1) BY <1>1, <1>2, <1>9, <2>1 DEF HandOver
  <2>2. CASE Returns(w) BY <1>1, <1>2, <1>9, <2>2 DEF Returns
  <2>3. QED BY <1>9, <2>1, <2>2 DEF Advance
<1>10. ASSUME NEW w \in Workers,
              WorkerRedacts(w) \/ WorkerPanics(w) \/ SinkStep(w) \/ SQLiteBegins(w)
       PROVE  ExitedAfterDrain'
  <2>1. CASE WorkerRedacts(w) BY <1>9, <2>1 DEF WorkerRedacts
  <2>2. CASE WorkerPanics(w)
    BY <1>1, <1>2, <2>2 DEF WorkerPanics, Recovers, Returns
  <2>3. CASE SinkStep(w) BY <1>9, <2>3, SinkCall
  <2>4. CASE SQLiteBegins(w) BY <1>1, <1>2, <2>4 DEF SQLiteBegins
  <2>5. QED BY <1>10, <2>1, <2>2, <2>3, <2>4
<1>11. CASE ControlStep
  <2>1. QueueClosed => QueueClosed'
    BY <1>11 DEF ControlStep, StartStep, ShutdownStep, Listen, ListenFails,
       Interrupted, AdminFails, CaptureStopped, CaptureStopTimesOut, CloseQueue,
       Drained, DrainTimesOut, CloseSQLite, ProcessExits, AdminStops, vars,
       QueueClosed
  <2>2. QED BY <1>3, <1>11, <2>1, ControlOnly
<1>12. QED BY <1>5, <1>6, <1>7, <1>8, <1>10, <1>11, StepCases

\* Once Serve is past a drain that did not time out, all workers stay exited.
LEMMA PastDrainStep ==
  ASSUME TypeOK, PastDrain, [Next]_vars
  PROVE  PastDrain'
<1> USE DEF handler, control, data
<1>1. ASSUME UNCHANGED <<phase, drainTimedOut, worker>> PROVE PastDrain'
  BY <1>1 DEF PastDrain, PoolDone
<1>2. ASSUME NEW w \in Workers, worker[w] # Exited, UNCHANGED <<phase, drainTimedOut>>
      PROVE  PastDrain'
  BY <1>2 DEF PastDrain, PoolDone
<1>3. ASSUME NEW w \in Workers, IsBusy(w) PROVE worker[w] # Exited
  BY <1>3 DEF IsBusy, Exited
<1>4. ASSUME NEW w \in Workers, worker[w] = Idle PROVE worker[w] # Exited
  BY <1>4 DEF Idle, Exited
<1>5. ASSUME NEW h \in Captures, QuietHandlerStep(h) \/ CaptureEnqueue(h)
      PROVE  PastDrain'
  BY <1>1, <1>5, QuietHandler DEF CaptureEnqueue
<1>6. ASSUME NEW p \in Posts, QuietPostStep(p) \/ PostEnqueue(p)
      PROVE  PastDrain'
  BY <1>1, <1>6, QuietPost DEF PostEnqueue
<1>7. ASSUME NEW w \in Workers,
             \/ WorkerReceives(w) \/ WorkerExits(w) \/ WorkerRedacts(w)
             \/ WorkerPanics(w) \/ SinkStep(w) \/ SQLiteBegins(w)
      PROVE  PastDrain'
  BY <1>2, <1>3, <1>4, <1>7, SinkCall DEF WorkerReceives, WorkerExits,
     WorkerRedacts, WorkerPanics, SQLiteBegins, AtSink
<1>8. CASE ControlStep
  <2>1. PoolDone' = PoolDone BY <1>8, ControlOnly DEF PoolDone
  <2>2. QED
    BY <1>8, <2>1 DEF ControlStep, StartStep, ShutdownStep, Listen, ListenFails,
       Interrupted, AdminFails, CaptureStopped, CaptureStopTimesOut, CloseQueue,
       Drained, DrainTimesOut, GiveUpDrain, CloseSQLite, ProcessExits,
       AdminStops, vars, PastDrain
<1>9. QED BY <1>5, <1>6, <1>7, <1>8, StepCases

\* A drain that does not time out leaves no accepted record unprocessed: when
\* shutdown goes on to close SQLite, everything Enqueue accepted is finished.
THEOREM DrainComplete == Spec => []CleanDrain
<1>1. Init => ExitedAfterDrain /\ PastDrain
  BY DEF Init, ExitedAfterDrain, PastDrain, Idle, Exited
<1>2. TypeOK /\ ExitedAfterDrain /\ PastDrain /\ [Next]_vars
        => ExitedAfterDrain' /\ PastDrain'
  BY ExitedStep, PastDrainStep
<1>3. Conservation /\ ExitedAfterDrain /\ PastDrain => CleanDrain
  <2> SUFFICES ASSUME Conservation, ExitedAfterDrain, PoolDone
               PROVE  accepted = finished
    BY DEF PastDrain, CleanDrain, PoolDone
  <2>1. queue = <<>>
    BY PipelineAssumption DEF PipelineAssumption, ExitedAfterDrain, PoolDone
  <2>2. Queued = {} BY <2>1 DEF Queued
  <2>3. InProcess = {} BY DEF InProcess, Holding, IsBusy, PoolDone, Exited
  <2>4. QED BY <2>2, <2>3 DEF Conservation
<1>4. QED BY <1>1, <1>2, <1>3, TypeCorrect, RecordsConserved, PTL DEF Spec

-----------------------------------------------------------------------------
\* What a sink keeps was accepted before.
KeptAccepted == \A s \in Sinks : Kept(s) \subseteq accepted

\* A step that leaves the workers and sinks alone and adds only a fresh record
\* to the channel keeps NotYetWritten.
LEMMA NotYetSame ==
  ASSUME NotYetWritten, KeptAccepted, accepted \subseteq accepted',
         \A r \in Queued' : r \in Queued \/ r \notin accepted,
         UNCHANGED <<worker, store>>
  PROVE  NotYetWritten' /\ KeptAccepted'
<1>1. \A s \in Sinks : Kept(s)' = Kept(s) BY DEF Kept
<1>2. KeptAccepted' BY <1>1 DEF KeptAccepted
<1>3. \A s \in Sinks : Queued' \cap Kept(s)' = {}
  BY <1>1 DEF KeptAccepted, NotYetWritten
<1>4. \A k : Kept(SinkOrder[k])' = Kept(SinkOrder[k]) BY DEF Kept
<1>5. QED BY <1>2, <1>3, <1>4 DEF NotYetWritten, IsBusy

\* A worker goes on to a later sink, or to no sink, without writing.
LEMMA NotYetMoves ==
  ASSUME TypeOK, NotYetWritten, KeptAccepted, NEW w \in Workers, NEW st,
         worker' = [worker EXCEPT ![w] = st],
         st.pc = "busy" =>
           /\ IsBusy(w) /\ st.rec = worker[w].rec
           /\ st.at \in Nat /\ st.at >= worker[w].at,
         UNCHANGED <<queue, store, accepted>>
  PROVE  NotYetWritten' /\ KeptAccepted'
<1>1. \A s : Kept(s)' = Kept(s) BY DEF Kept
<1>2. Queued' = Queued BY DEF Queued
<1>3. \A v \in Workers : v # w => worker'[v] = worker[v] BY DEF TypeOK
<1>4. worker'[w] = st BY DEF TypeOK
<1>5. ASSUME NEW v \in Workers, IsBusy(v)', NEW k \in 1..Len(SinkOrder),
             k >= worker'[v].at
      PROVE  worker'[v].rec \notin Kept(SinkOrder[k])'
  <2>1. CASE v # w BY <1>1, <1>3, <1>5, <2>1 DEF NotYetWritten, IsBusy
  <2>2. CASE v = w
    <3>1. IsBusy(w) /\ st.rec = worker[w].rec /\ st.at \in Nat /\ st.at >= worker[w].at
      BY <1>4, <1>5, <2>2 DEF IsBusy
    <3>2. worker[w].at \in Nat BY <3>1, BusyFields, SinkOrderLen DEF TypeOK
    <3>3. k >= worker[w].at BY <1>4, <1>5, <2>2, <3>1, <3>2
    <3>4. QED BY <1>1, <1>4, <2>2, <3>1, <3>3 DEF NotYetWritten
  <2>3. QED BY <2>1, <2>2
<1>6. QED BY <1>1, <1>2, <1>5 DEF NotYetWritten, KeptAccepted

\* What lies after the next place lies after this one.
LEMMA NextPlace ==
  ASSUME NEW m \in Nat, NEW a, a = m + 1
  PROVE  a \in Nat /\ a >= m /\ \A k \in Nat : k >= a => k >= m /\ k # m
OBVIOUS

\* Places in the list of sinks are numbers.
LEMMA PlaceNat == \A k \in 1..Len(SinkOrder) : k \in Nat
BY SinkOrderLen

\* A worker that is still busy after Advance has its record and the next sink.
LEMMA AdvancesBusy ==
  ASSUME NEW w \in Workers, worker \in [Workers -> WorkerState], NEW n,
         Advance(w, n), IsBusy(w)'
  PROVE  worker'[w].rec = worker[w].rec /\ worker'[w].at = n + 1
<1>1. worker'[w] # Idle BY DEF IsBusy, Idle
<1>2. ~Returns(w) BY <1>1 DEF Returns
<1>3. HandOver(w, n + 1) BY <1>2 DEF Advance
<1>4. worker'[w] = Busy(worker[w].rec, TRUE, n + 1, FALSE) BY <1>3 DEF HandOver
<1>5. QED BY <1>4 DEF Busy

\* A sink keeps the record of the worker that is at it, and the worker moves
\* on: the sinks in front of that worker are others, and nobody else has the
\* record.
LEMMA NotYetKeeps ==
  ASSUME TypeOK, Conservation, NotYetWritten, KeptAccepted, NEW w \in Workers,
         IsBusy(w), worker[w].at > 0, Keep(w, SinkOrder[worker[w].at]),
         Advance(w, worker[w].at), UNCHANGED <<queue, accepted>>
  PROVE  NotYetWritten' /\ KeptAccepted'
<1> DEFINE r == worker[w].rec
           n == worker[w].at
<1>1. n \in 1..Len(SinkOrder) BY BusyFields, SinkOrderLen DEF TypeOK
<1>2. SinkOrder[n] \in Sinks
  BY <1>1, SinkOrderRange, Zenon
<1>3. \A s \in Sinks : s # SinkOrder[n] => Kept(s)' = Kept(s)
  BY <1>2 DEF Keep, Kept, TypeOK
<1>4. \A s \in Sinks : Kept(s)' \subseteq Kept(s) \cup {r}
  <2> DEFINE e == [rec |-> worker[w].rec, redacted |-> worker[w].redacted]
  <2>1. \A s \in Sinks : store'[s] \subseteq store[s] \cup {e}
    BY DEF Keep, TypeOK
  <2>2. e.rec = r OBVIOUS
  <2>3. QED BY <2>1, <2>2 DEF Kept
<1>5. Queued' = Queued BY DEF Queued
<1>6. r \in InProcess BY DEF InProcess, Holding
<1>7. r \in accepted /\ r \notin Queued BY <1>6 DEF Conservation
<1>8. KeptAccepted' BY <1>4, <1>7 DEF KeptAccepted
<1>9. \A s \in Sinks : Queued' \cap Kept(s)' = {}
  BY <1>4, <1>5, <1>7 DEF NotYetWritten
<1>10. ASSUME NEW v \in Workers, v # w, IsBusy(v) PROVE worker[v].rec # r
  BY <1>10 DEF Conservation, Holding
<1>11. \A v \in Workers : v # w => worker'[v] = worker[v]
  BY DEF Advance, HandOver, Returns, TypeOK
<1>12. ASSUME NEW k \in 1..Len(SinkOrder) PROVE SinkOrder[k] \in Sinks
  BY SinkOrderRange, Zenon
<1>13. ASSUME NEW v \in Workers, IsBusy(v)', NEW k \in 1..Len(SinkOrder),
              k >= worker'[v].at
       PROVE  worker'[v].rec \notin Kept(SinkOrder[k])'
  <2>1. CASE v # w
    <3>1. worker'[v] = worker[v] /\ IsBusy(v) BY <1>11, <1>13, <2>1 DEF IsBusy
    <3>2. worker[v].rec \notin Kept(SinkOrder[k])
      BY <1>13, <3>1 DEF NotYetWritten
    <3>3. QED BY <1>4, <1>10, <1>12, <2>1, <3>1, <3>2
  <2>2. CASE v = w
    <3>1. IsBusy(w)' /\ k >= worker'[w].at BY <1>13, <2>2
    <3>2. worker'[w].rec = r /\ worker'[w].at = n + 1
      BY <3>1, AdvancesBusy DEF TypeOK
    <3>3. k >= n /\ k # n
      <4>1. k \in Nat /\ n \in Nat BY <1>1, PlaceNat, Zenon
      <4>2. QED BY <3>1, <3>2, <4>1, NextPlace, Zenon
    <3>4. SinkOrder[k] # SinkOrder[n]
      BY <1>1, <1>13, <3>3, SinksDistinct, Zenon
    <3>5. r \notin Kept(SinkOrder[k]) BY <3>3, Zenon DEF NotYetWritten
    <3>6. QED BY <1>3, <1>12, <2>2, <3>2, <3>4, <3>5
  <2>3. QED BY <2>1, <2>2
<1>14. QED BY <1>8, <1>9, <1>13 DEF NotYetWritten

\* NotYetWritten is preserved by every step, given Conservation and Fresh.
LEMMA NotYetStep ==
  ASSUME TypeOK, Fresh, Conservation, NotYetWritten, KeptAccepted, [Next]_vars
  PROVE  NotYetWritten' /\ KeptAccepted'
<1> USE DEF handler, control, data
<1>1. ASSUME UNCHANGED <<queue, worker, store, accepted>>
      PROVE  NotYetWritten' /\ KeptAccepted'
  <2>1. Queued' = Queued BY <1>1 DEF Queued
  <2>2. QED BY <1>1, <2>1, NotYetSame
<1>2. ASSUME NEW r \in Records, r \notin accepted, Sent(r),
             UNCHANGED <<worker, store>>
      PROVE  NotYetWritten' /\ KeptAccepted'
  <2>1. Queued' = Queued \cup {r} BY <1>2, QueuedSent DEF Sent, TypeOK
  <2>2. accepted \subseteq accepted' BY <1>2 DEF Sent
  <2>3. QED BY <1>2, <2>1, <2>2, NotYetSame
<1>3. ASSUME NEW w \in Workers, NEW i, i = worker[w].at, IsBusy(w), Advance(w, i),
             UNCHANGED <<queue, store, accepted>>
      PROVE  NotYetWritten' /\ KeptAccepted'
  <2>1. i \in Nat BY <1>3, BusyFields, SinkOrderLen DEF TypeOK
  <2>2. CASE HandOver(w, i + 1)
    <3> DEFINE st == Busy(worker[w].rec, TRUE, i + 1, FALSE)
    <3>1. st.pc = "busy" /\ st.rec = worker[w].rec /\ st.at = i + 1 BY DEF Busy
    <3>2. worker' = [worker EXCEPT ![w] = st] BY <2>2 DEF HandOver
    <3> HIDE DEF st
    <3>3. st.at \in Nat /\ st.at >= worker[w].at BY <1>3, <2>1, <3>1, NextPlace, Zenon
    <3>4. QED BY <1>3, <3>1, <3>2, <3>3, NotYetMoves
  <2>3. CASE Returns(w)
    <3>1. Idle.pc # "busy" BY DEF Idle
    <3>2. QED BY <1>3, <2>3, <3>1, NotYetMoves DEF Returns
  <2>4. QED BY <1>3, <2>2, <2>3 DEF Advance
<1>4. ASSUME NEW h \in Captures, QuietHandlerStep(h) \/ CaptureEnqueue(h)
      PROVE  NotYetWritten' /\ KeptAccepted'
  <2>1. CASE CaptureEnqueue(h) /\ Sent(<<h, 1>>)
    <3>1. <<h, 1>> \in Records BY RecordName DEF Handlers
    <3>2. <<h, 1>> \notin accepted BY <2>1 DEF CaptureEnqueue, Fresh
    <3>3. QED BY <1>2, <2>1, <3>1, <3>2 DEF CaptureEnqueue
  <2>2. QED BY <1>1, <1>4, <2>1, QuietHandler
            DEF CaptureEnqueue, CaptureDropped, Full, SendPanics
<1>5. ASSUME NEW p \in Posts, QuietPostStep(p) \/ PostEnqueue(p)
      PROVE  NotYetWritten' /\ KeptAccepted'
  <2>1. CASE PostEnqueue(p) /\ Sent(<<p, nextItem[p]>>)
    <3>1. nextItem[p] \in Nat \ {0} BY DEF TypeOK
    <3>2. <<p, nextItem[p]>> \in Records BY <3>1, RecordName DEF Handlers
    <3>3. <<p, nextItem[p]>> \notin accepted BY <3>1 DEF Fresh
    <3>4. QED BY <1>2, <2>1, <3>2, <3>3 DEF PostEnqueue
  <2>2. QED BY <1>1, <1>5, <2>1, QuietPost DEF PostEnqueue, Full, SendPanics
<1>6. ASSUME NEW w \in Workers, WorkerReceives(w)
      PROVE  NotYetWritten' /\ KeptAccepted'
  <2>1. Queued = Queued' \cup {Head(queue)}
    BY <1>6, QueuedTaken DEF WorkerReceives, Take, TypeOK
  <2>2. \A s : Kept(s)' = Kept(s) BY <1>6 DEF WorkerReceives, Kept
  <2>3. \A v \in Workers : v # w => worker'[v] = worker[v]
    BY <1>6 DEF WorkerReceives, Take, TypeOK
  <2>4. worker'[w].rec = Head(queue)
    BY <1>6 DEF WorkerReceives, Take, Busy, TypeOK
  <2>5. \A s \in Sinks : Head(queue) \notin Kept(s)
    BY <2>1 DEF NotYetWritten
  <2>6. \A k \in 1..Len(SinkOrder) : SinkOrder[k] \in Sinks
    BY SinkOrderRange
  <2>7. \A v \in Workers : IsBusy(v)' =>
          \A k \in 1..Len(SinkOrder) :
            k >= worker'[v].at => worker'[v].rec \notin Kept(SinkOrder[k])'
    BY <2>2, <2>3, <2>4, <2>5, <2>6 DEF NotYetWritten, IsBusy
  <2>8. accepted' = accepted BY <1>6 DEF WorkerReceives
  <2>9. QED BY <2>1, <2>2, <2>7, <2>8 DEF NotYetWritten, KeptAccepted
<1>7. ASSUME NEW w \in Workers, WorkerExits(w)
      PROVE  NotYetWritten' /\ KeptAccepted'
  <2>1. Exited.pc # "busy" BY DEF Exited
  <2>2. QED BY <1>7, <2>1, NotYetMoves DEF WorkerExits
<1>8. ASSUME NEW w \in Workers, WorkerRedacts(w)
      PROVE  NotYetWritten' /\ KeptAccepted'
  BY <1>3, <1>8 DEF WorkerRedacts
<1>9. ASSUME NEW w \in Workers, WorkerPanics(w)
      PROVE  NotYetWritten' /\ KeptAccepted'
  <2>1. Idle.pc # "busy" BY DEF Idle
  <2>2. QED BY <1>9, <2>1, NotYetMoves DEF WorkerPanics, Recovers, Returns
<1>10. ASSUME NEW w \in Workers, SinkStep(w)
       PROVE  NotYetWritten' /\ KeptAccepted'
  <2> DEFINE s == SinkOrder[worker[w].at]
  <2>1. /\ IsBusy(w) /\ worker[w].at > 0 /\ Advance(w, worker[w].at)
        /\ UNCHANGED <<queue, accepted>>
    BY <1>10, SinkCall
  <2>2. CASE Keep(w, s) BY <2>1, <2>2, NotYetKeeps
  <2>3. CASE CountError(s) BY <1>3, <2>1, <2>3 DEF CountError
  <2>4. QED BY <1>10, <2>2, <2>3, SinkCall
<1>11. ASSUME NEW w \in Workers, SQLiteBegins(w)
       PROVE  NotYetWritten' /\ KeptAccepted'
  <2> DEFINE st == Busy(worker[w].rec, worker[w].redacted, worker[w].at, TRUE)
  <2>1. IsBusy(w) BY <1>11 DEF SQLiteBegins, AtSink
  <2>2. st.rec = worker[w].rec /\ st.at = worker[w].at BY DEF Busy
  <2>3. worker[w].at \in Nat BY <2>1, BusyFields, SinkOrderLen DEF TypeOK
  <2>4. worker' = [worker EXCEPT ![w] = st] BY <1>11 DEF SQLiteBegins
  <2> HIDE DEF st
  <2>5. st.at \in Nat /\ st.at >= worker[w].at BY <2>2, <2>3
  <2>6. QED BY <1>11, <2>1, <2>2, <2>4, <2>5, NotYetMoves DEF SQLiteBegins
<1>12. CASE ControlStep BY <1>1, <1>12, ControlOnly
<1>13. QED
  BY <1>4, <1>5, <1>6, <1>7, <1>8, <1>9, <1>10, <1>11, <1>12, StepCases

\* Each sink is given a record at most once: no sink a worker has still to call
\* holds the worker's record already, for any fan-out order.
THEOREM WrittenOnce == Spec => []NotYetWritten
<1>1. Init => NotYetWritten /\ KeptAccepted
  <2> SUFFICES ASSUME Init PROVE NotYetWritten /\ KeptAccepted
    OBVIOUS
  <2>1. Queued = {} BY DEF Init, Queued
  <2>2. \A w \in Workers : ~IsBusy(w) BY DEF Init, IsBusy, Idle
  <2>3. \A s \in Sinks : Kept(s) = {} BY DEF Init, Kept
  <2>4. QED BY <2>1, <2>2, <2>3 DEF NotYetWritten, KeptAccepted
<1>2. TypeOK /\ Fresh /\ Conservation /\ NotYetWritten /\ KeptAccepted
        /\ [Next]_vars => NotYetWritten' /\ KeptAccepted'
  BY NotYetStep
<1>3. QED BY <1>1, <1>2, TypeCorrect, RecordsConserved, PTL DEF Spec

=============================================================================
