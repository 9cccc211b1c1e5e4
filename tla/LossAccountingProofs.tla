------------------------ MODULE LossAccountingProofs ------------------------
(***************************************************************************)
(* No record goes missing silently, for any number of requests, workers    *)
(* and sinks: the records that a sink lacks are no more than the write     *)
(* errors it has counted and the panics that were recovered, every capture *)
(* is in one counter, and the answer to a POST says what became of it.     *)
(***************************************************************************)
EXTENDS CapturePipelineProofs, FiniteSetTheorems

\* The records that process has brought past the k-th sink.
Passed(k) ==
  finished \cup {worker[w].rec : w \in {v \in Workers : IsBusy(v) /\ worker[v].at > k}}

\* Of these, the ones the sink does not hold.
Owed(k) == Passed(k) \ Kept(SinkOrder[k])

\* LossCounted, counted from the moment a record is past the sink: this is what
\* every step preserves.
OwedCounted ==
  \A k \in 1..Len(SinkOrder) :
    /\ IsFiniteSet(Owed(k))
    /\ Cardinality(Owed(k)) <= sinkErrors[SinkOrder[k]] + count["panics"]

-----------------------------------------------------------------------------
\* Counters do not go down.
LEMMA BumpGrows ==
  ASSUME NEW names, count \in [Counters -> Nat], Bump(names)
  PROVE  /\ count["panics"] \in Nat /\ count'["panics"] \in Nat
         /\ count'["panics"] >= count["panics"]
         /\ "panics" \in names => count'["panics"] = count["panics"] + 1
<1>1. "panics" \in Counters
  BY DEF Counters
<1> QED BY <1>1 DEF Bump

\* No step takes a panic back.
LEMMA PanicsGrow ==
  ASSUME TypeOK, [Next]_vars
  PROVE  /\ count["panics"] \in Nat /\ count'["panics"] \in Nat
         /\ count'["panics"] >= count["panics"]
<1>0. count \in [Counters -> Nat] /\ count["panics"] \in Nat
  BY DEF TypeOK, Counters
<1>1. ASSUME count' = count
      PROVE  count'["panics"] \in Nat /\ count'["panics"] >= count["panics"]
  BY <1>0, <1>1
<1>2. ASSUME \E names : Bump(names)
      PROVE  count'["panics"] \in Nat /\ count'["panics"] >= count["panics"]
  BY <1>0, <1>2, BumpGrows
<1>3. count' = count \/ \E names : Bump(names)
  <2>1. ASSUME NEW h \in Captures, QuietHandlerStep(h) \/ CaptureEnqueue(h)
        PROVE  count' = count \/ \E names : Bump(names)
    BY <2>1 DEF QuietHandlerStep, CaptureArrives, BodyReadFails, CountCaptured, CountService,
       CountCorrelation, CaptureEnqueue, CaptureDropped, SendPanics
  <2>2. ASSUME NEW p \in Posts, QuietPostStep(p) \/ PostEnqueue(p)
        PROVE  count' = count \/ \E names : Bump(names)
    BY <2>2 DEF QuietPostStep, PostArrives, PostRejects, PostValidates, PostCounts,
       PostAnswers, PostEnqueue, SendPanics
  <2>3. ASSUME NEW w \in Workers,
               \/ WorkerReceives(w) \/ WorkerExits(w) \/ WorkerRedacts(w)
               \/ WorkerPanics(w) \/ SinkStep(w) \/ SQLiteBegins(w)
        PROVE  count' = count \/ \E names : Bump(names)
    BY <2>3 DEF WorkerReceives, WorkerExits, WorkerRedacts, WorkerPanics, Recovers, SinkStep,
       SinkWrites, SQLiteRefuses, SQLiteEnds, SQLiteBegins
  <2>4. CASE ControlStep
    BY <2>4, ControlOnly DEF data
  <2> QED BY <2>1, <2>2, <2>3, <2>4, StepCases
<1> QED BY <1>0, <1>1, <1>2, <1>3

\* A set that grows by one element at most when its bound grows by one.
LEMMA BoundGrows ==
  ASSUME NEW S, NEW T, NEW x, NEW n \in Nat, NEW m \in Nat,
         IsFiniteSet(S), Cardinality(S) <= n,
         (T \subseteq S /\ n <= m) \/ (T \subseteq S \cup {x} /\ n + 1 <= m)
  PROVE  IsFiniteSet(T) /\ Cardinality(T) <= m
<1>1. Cardinality(S) \in Nat
  BY FS_CardinalityType
<1>2. CASE T \subseteq S /\ n <= m
  <2>1. IsFiniteSet(T) /\ Cardinality(T) <= Cardinality(S) /\ Cardinality(T) \in Nat
    BY <1>2, FS_Subset, FS_CardinalityType
  <2> QED BY <1>1, <1>2, <2>1
<1>3. CASE T \subseteq S \cup {x} /\ n + 1 <= m
  <2>1. /\ IsFiniteSet(S \cup {x}) /\ Cardinality(S \cup {x}) \in Nat
        /\ Cardinality(S \cup {x}) <= Cardinality(S) + 1
    <3>1. /\ IsFiniteSet(S \cup {x})
          /\ Cardinality(S \cup {x}) = IF x \in S THEN Cardinality(S) ELSE Cardinality(S) + 1
      BY FS_AddElement
    <3> QED BY <1>1, <3>1
  <2>2. IsFiniteSet(T) /\ Cardinality(T) <= Cardinality(S \cup {x}) /\ Cardinality(T) \in Nat
    BY <1>3, <2>1, FS_Subset, FS_CardinalityType
  <2> QED BY <1>1, <1>3, <2>1, <2>2
<1> QED BY <1>2, <1>3

\* The same when the bound is the sum of two counters that do not go down.
LEMMA BoundMoves ==
  ASSUME NEW S, NEW T, NEW x, NEW e \in Nat, NEW f \in Nat, NEW p \in Nat, NEW q \in Nat,
         IsFiniteSet(S), Cardinality(S) <= e + p, q >= p,
         \/ T \subseteq S /\ f >= e
         \/ T \subseteq S \cup {x} /\ f = e + 1
         \/ T \subseteq S \cup {x} /\ f = e /\ q = p + 1
  PROVE  IsFiniteSet(T) /\ Cardinality(T) <= f + q
<1>1. e + p \in Nat /\ f + q \in Nat
  OBVIOUS
<1>2. (T \subseteq S /\ e + p <= f + q) \/ (T \subseteq S \cup {x} /\ (e + p) + 1 <= f + q)
  OBVIOUS
<1> QED BY <1>1, <1>2, BoundGrows

\* Only the worker that moves can bring a record past a sink.
LEMMA PassedMoves ==
  ASSUME TypeOK, NEW w \in Workers, NEW st, NEW F, NEW k,
         worker' = [worker EXCEPT ![w] = st], finished' \subseteq finished \cup F,
         st.pc = "busy" /\ st.at > k => st.rec \in F \cup Passed(k)
  PROVE  Passed(k)' \subseteq Passed(k) \cup F
<1>1. worker'[w] = st /\ \A v \in Workers : v # w => worker'[v] = worker[v]
  BY DEF TypeOK
<1>2. ASSUME NEW v \in Workers, IsBusy(v)', worker'[v].at > k
      PROVE  worker'[v].rec \in Passed(k) \cup F
  <2>1. CASE v = w
    BY <1>1, <1>2, <2>1 DEF IsBusy
  <2>2. CASE v # w
    BY <1>1, <1>2, <2>2 DEF IsBusy, Passed
  <2> QED BY <2>1, <2>2
<1>3. finished \subseteq Passed(k)
  BY DEF Passed
<1> QED BY <1>2, <1>3 DEF Passed

\* A sink call brings the worker's record past that sink and no other.
LEMMA SinkPasses ==
  ASSUME TypeOK, NEW w \in Workers, IsBusy(w), worker[w].at > 0, Advance(w, worker[w].at),
         NEW k \in 1..Len(SinkOrder)
  PROVE  Passed(k)' \subseteq Passed(k) \cup (IF k = worker[w].at THEN {worker[w].rec} ELSE {})
<1> DEFINE n == worker[w].at
           r == worker[w].rec
           F == IF k = n THEN {r} ELSE {}
<1>0. n \in 1..Len(SinkOrder) /\ n \in Nat /\ k \in Nat /\ Len(SinkOrder) \in Nat
  BY BusyFields, SinkOrderLen DEF TypeOK
<1>1. n > k => r \in Passed(k)
  BY DEF Passed
<1>2. CASE HandOver(w, n + 1) /\ UNCHANGED finished
  <2> DEFINE st == Busy(r, TRUE, n + 1, FALSE)
  <2>1. worker' = [worker EXCEPT ![w] = st] /\ st.at = n + 1 /\ st.rec = r
    BY <1>2 DEF HandOver, Busy
  <2> HIDE DEF st
  <2>2. st.at > k => r \in F \cup Passed(k)
    <3>1. st.at > k => n > k \/ n = k
      BY <1>0, <2>1
    <3> QED BY <1>1, <3>1
  <2> HIDE DEF F
  <2>3. finished' \subseteq finished \cup F
    BY <1>2
  <2>4. Passed(k)' \subseteq Passed(k) \cup F
    BY <2>1, <2>2, <2>3, PassedMoves
  <2> QED BY <2>4 DEF F
<1>3. CASE n = Len(SinkOrder) /\ Returns(w)
  <2>1. r \in F \cup Passed(k)
    <3>1. n > k \/ n = k
      BY <1>0, <1>3
    <3> QED BY <1>1, <3>1
  <2>2. worker' = [worker EXCEPT ![w] = Idle] /\ finished' = finished \cup {r}
    BY <1>3 DEF Returns
  <2>3. Idle.pc # "busy"
    BY DEF Idle
  <2> HIDE DEF F
  <2>4. Passed(k)' \subseteq Passed(k) \cup (F \cup Passed(k))
    <3>1. finished' \subseteq finished \cup (F \cup Passed(k))
      BY <2>1, <2>2
    <3> QED BY <2>2, <2>3, <3>1, PassedMoves
  <2>5. Passed(k)' \subseteq Passed(k) \cup F
    BY <2>4
  <2> QED BY <2>5 DEF F
<1> QED BY <1>2, <1>3 DEF Advance

\* What sink k is owed in the next state is covered by what it has counted then.
CoveredNext(k) ==
  /\ IsFiniteSet(Owed(k)')
  /\ Cardinality(Owed(k)') <= sinkErrors'[SinkOrder[k]] + count'["panics"]

\* A step that brings at most one more record past sink k without storing it,
\* and only if it counts an error of that sink or a panic.
LEMMA OwedMoves ==
  ASSUME TypeOK, TypeOK', [Next]_vars, OwedCounted, NEW k \in 1..Len(SinkOrder), NEW x,
         \/ /\ Owed(k)' \subseteq Owed(k)
            /\ sinkErrors'[SinkOrder[k]] >= sinkErrors[SinkOrder[k]]
         \/ /\ Owed(k)' \subseteq Owed(k) \cup {x}
            /\ \/ /\ sinkErrors'[SinkOrder[k]] = sinkErrors[SinkOrder[k]] + 1
                  /\ count'["panics"] >= count["panics"]
               \/ /\ sinkErrors'[SinkOrder[k]] = sinkErrors[SinkOrder[k]]
                  /\ count'["panics"] = count["panics"] + 1
  PROVE  CoveredNext(k)
<1>1. sinkErrors[SinkOrder[k]] \in Nat /\ sinkErrors'[SinkOrder[k]] \in Nat
  BY SinkOrderRange DEF TypeOK
<1>2. /\ count["panics"] \in Nat /\ count'["panics"] \in Nat
      /\ count'["panics"] >= count["panics"]
  BY PanicsGrow
<1>3. /\ IsFiniteSet(Owed(k))
      /\ Cardinality(Owed(k)) <= sinkErrors[SinkOrder[k]] + count["panics"]
  BY DEF OwedCounted
<1>4. CASE /\ Owed(k)' \subseteq Owed(k)
           /\ sinkErrors'[SinkOrder[k]] >= sinkErrors[SinkOrder[k]]
  BY <1>1, <1>2, <1>3, <1>4, BoundMoves DEF CoveredNext
<1>5. CASE /\ Owed(k)' \subseteq Owed(k) \cup {x}
           /\ sinkErrors'[SinkOrder[k]] = sinkErrors[SinkOrder[k]] + 1
           /\ count'["panics"] >= count["panics"]
  BY <1>1, <1>2, <1>3, <1>5, BoundMoves DEF CoveredNext
<1>6. CASE /\ Owed(k)' \subseteq Owed(k) \cup {x}
           /\ sinkErrors'[SinkOrder[k]] = sinkErrors[SinkOrder[k]]
           /\ count'["panics"] = count["panics"] + 1
  BY <1>1, <1>2, <1>3, <1>6, BoundMoves DEF CoveredNext
<1> QED BY <1>4, <1>5, <1>6, Zenon

\* A step that brings no record past a sink and touches no store.
LEMMA OwedSame ==
  ASSUME TypeOK, TypeOK', [Next]_vars, OwedCounted, UNCHANGED <<store, sinkErrors>>,
         NEW k \in 1..Len(SinkOrder), Passed(k)' \subseteq Passed(k)
  PROVE  CoveredNext(k)
<1>1. Owed(k)' \subseteq Owed(k)
  BY DEF Owed, Kept
<1>2. sinkErrors[SinkOrder[k]] \in Nat
  BY SinkOrderRange DEF TypeOK
<1>3. sinkErrors'[SinkOrder[k]] >= sinkErrors[SinkOrder[k]]
  BY <1>2
<1> QED BY <1>1, <1>3, OwedMoves

\* A step of the worker that leaves it short of the k-th sink.
LEMMA OwedShort ==
  ASSUME TypeOK, TypeOK', [Next]_vars, OwedCounted, UNCHANGED <<store, sinkErrors, finished>>,
         NEW w \in Workers, NEW st, worker' = [worker EXCEPT ![w] = st],
         NEW k \in 1..Len(SinkOrder),
         st.pc = "busy" /\ st.at > k => st.rec \in Passed(k)
  PROVE  CoveredNext(k)
<1>1. Passed(k)' \subseteq Passed(k) \cup {}
  <2>1. finished' \subseteq finished \cup {}
    OBVIOUS
  <2>2. st.pc = "busy" /\ st.at > k => st.rec \in {} \cup Passed(k)
    OBVIOUS
  <2> QED BY <2>1, <2>2, PassedMoves
<1> QED BY <1>1, OwedSame

\* A sink call: at another sink nothing changes hands, and at this one the
\* record is stored or an error is counted.
LEMMA OwedAtSink ==
  ASSUME TypeOK, TypeOK', [Next]_vars, OwedCounted, NEW w \in Workers, SinkStep(w),
         NEW k \in 1..Len(SinkOrder)
  PROVE  CoveredNext(k)
<1> DEFINE n == worker[w].at
           r == worker[w].rec
           s == SinkOrder[n]
<1>1. /\ IsBusy(w) /\ n > 0 /\ (Keep(w, s) \/ CountError(s)) /\ Advance(w, n)
      /\ count' = count
  BY SinkCall
<1>2. n \in 1..Len(SinkOrder)
  BY <1>1, BusyFields, SinkOrderLen DEF TypeOK
<1>3. Passed(k)' \subseteq Passed(k) \cup (IF k = n THEN {r} ELSE {})
  BY <1>1, SinkPasses
<1>4. SinkOrder[k] \in Sinks /\ s \in Sinks
  BY <1>2, SinkOrderRange
<1>5. sinkErrors[SinkOrder[k]] \in Nat /\ count["panics"] \in Nat
  BY <1>4 DEF TypeOK, Counters
<1>6. Kept(SinkOrder[k]) \subseteq Kept(SinkOrder[k])'
  <2>1. store[SinkOrder[k]] \subseteq store'[SinkOrder[k]]
    <3>1. \E X : store' = store \/ store' = [store EXCEPT ![s] = @ \cup X]
      BY <1>1 DEF Keep, CountError
    <3>2. DOMAIN store = Sinks
      BY DEF TypeOK
    <3> QED BY <1>4, <3>1, <3>2
  <2> QED BY <2>1 DEF Kept
<1>7. CASE k # n
  <2>1. Owed(k)' \subseteq Owed(k)
    BY <1>3, <1>6, <1>7 DEF Owed
  <2>2. sinkErrors'[SinkOrder[k]] >= sinkErrors[SinkOrder[k]]
    <3>1. sinkErrors' = sinkErrors \/ sinkErrors' = [sinkErrors EXCEPT ![s] = @ + 1]
      BY <1>1 DEF Keep, CountError
    <3>2. sinkErrors'[SinkOrder[k]] = sinkErrors[SinkOrder[k]]
            \/ sinkErrors'[SinkOrder[k]] = sinkErrors[SinkOrder[k]] + 1
      <4>1. sinkErrors \in [Sinks -> Nat]
        BY DEF TypeOK
      <4>2. CASE s = SinkOrder[k]
        BY <1>4, <3>1, <4>1, <4>2
      <4>3. CASE s # SinkOrder[k]
        BY <1>4, <3>1, <4>1, <4>3
      <4> QED BY <4>2, <4>3
    <3> QED BY <1>5, <3>2
  <2> QED BY <2>1, <2>2, OwedMoves
<1>8. CASE k = n /\ Keep(w, s)
  <2>1. r \in Kept(SinkOrder[k])'
    <3>1. [rec |-> r, redacted |-> worker[w].redacted] \in store'[SinkOrder[k]]
      BY <1>4, <1>8 DEF Keep, TypeOK
    <3>2. [rec |-> r, redacted |-> worker[w].redacted].rec = r
      OBVIOUS
    <3> QED BY <3>1, <3>2 DEF Kept
  <2>2. Owed(k)' \subseteq Owed(k)
    BY <1>3, <1>6, <2>1 DEF Owed
  <2>3. sinkErrors'[SinkOrder[k]] >= sinkErrors[SinkOrder[k]]
    BY <1>5, <1>8 DEF Keep
  <2> QED BY <2>2, <2>3, OwedMoves
<1>9. CASE k = n /\ CountError(s)
  <2>1. Owed(k)' \subseteq Owed(k) \cup {r}
    BY <1>3, <1>6, <1>9 DEF Owed
  <2>2. sinkErrors'[SinkOrder[k]] = sinkErrors[SinkOrder[k]] + 1
    BY <1>4, <1>9 DEF CountError, TypeOK
  <2>3. count'["panics"] >= count["panics"]
    BY <1>1, <1>5
  <2> HIDE DEF n, r, s
  <2> QED BY <2>1, <2>2, <2>3, OwedMoves
<1> QED BY <1>1, <1>7, <1>8, <1>9

\* Recovering from a panic brings the record past every sink, and counts it.
LEMMA OwedPanics ==
  ASSUME TypeOK, TypeOK', [Next]_vars, OwedCounted, NEW w \in Workers, WorkerPanics(w),
         NEW k \in 1..Len(SinkOrder)
  PROVE  CoveredNext(k)
<1>1. /\ Bump({"panics"}) /\ UNCHANGED <<store, sinkErrors>>
      /\ worker' = [worker EXCEPT ![w] = Idle]
      /\ finished' = finished \cup {worker[w].rec}
  BY DEF WorkerPanics, Recovers, Returns
<1>2. count'["panics"] = count["panics"] + 1
  BY <1>1, BumpGrows DEF TypeOK
<1>3. Passed(k)' \subseteq Passed(k) \cup {worker[w].rec}
  <2>1. Idle.pc # "busy"
    BY DEF Idle
  <2>2. finished' \subseteq finished \cup {worker[w].rec}
    BY <1>1
  <2> QED BY <1>1, <2>1, <2>2, PassedMoves
<1>4. Owed(k)' \subseteq Owed(k) \cup {worker[w].rec}
  BY <1>1, <1>3 DEF Owed, Kept
<1>5. sinkErrors'[SinkOrder[k]] = sinkErrors[SinkOrder[k]]
  BY <1>1
<1> QED BY <1>2, <1>4, <1>5, OwedMoves

\* Every step keeps the books.
LEMMA OwedStep ==
  ASSUME TypeOK, TypeOK', [Next]_vars, OwedCounted
  PROVE  OwedCounted'
<1> SUFFICES ASSUME NEW k \in 1..Len(SinkOrder) PROVE CoveredNext(k)
  BY DEF OwedCounted, CoveredNext
<1>0. k \in Nat /\ k > 0
  BY SinkOrderLen
<1>1. ASSUME UNCHANGED <<worker, finished, store, sinkErrors>> PROVE CoveredNext(k)
  <2>1. Passed(k)' \subseteq Passed(k)
    BY <1>1 DEF Passed, IsBusy
  <2> QED BY <1>1, <2>1, OwedSame
<1>2. ASSUME NEW h \in Captures, QuietHandlerStep(h) \/ CaptureEnqueue(h)
      PROVE  CoveredNext(k)
  BY <1>1, <1>2, QuietHandler DEF CaptureEnqueue
<1>3. ASSUME NEW p \in Posts, QuietPostStep(p) \/ PostEnqueue(p)
      PROVE  CoveredNext(k)
  BY <1>1, <1>3, QuietPost DEF PostEnqueue
<1>4. ASSUME NEW w \in Workers, WorkerReceives(w) PROVE CoveredNext(k)
  <2> DEFINE st == Busy(Head(queue), FALSE, 0, FALSE)
  <2>1. worker' = [worker EXCEPT ![w] = st] /\ UNCHANGED <<store, sinkErrors, finished>>
    BY <1>4 DEF WorkerReceives, Take
  <2>2. st.at = 0
    BY DEF Busy
  <2> HIDE DEF st
  <2>3. ~(st.at > k)
    BY <1>0, <2>2
  <2> QED BY <2>1, <2>3, OwedShort
<1>5. ASSUME NEW w \in Workers, WorkerExits(w) PROVE CoveredNext(k)
  <2>1. worker' = [worker EXCEPT ![w] = Exited] /\ UNCHANGED <<store, sinkErrors, finished>>
    BY <1>5 DEF WorkerExits
  <2>2. Exited.pc # "busy"
    BY DEF Exited
  <2> QED BY <2>1, <2>2, OwedShort
<1>6. ASSUME NEW w \in Workers, WorkerRedacts(w) PROVE CoveredNext(k)
  <2> DEFINE st == Busy(worker[w].rec, TRUE, 0 + 1, FALSE)
  <2>0. 0 # Len(SinkOrder)
    BY SinkOrderLen
  <2>1. worker' = [worker EXCEPT ![w] = st] /\ UNCHANGED <<store, sinkErrors, finished>>
    BY <1>6, <2>0 DEF WorkerRedacts, Advance, HandOver
  <2>2. st.at = 0 + 1
    BY DEF Busy
  <2> HIDE DEF st
  <2>3. ~(st.at > k)
    BY <1>0, <2>2
  <2> QED BY <2>1, <2>3, OwedShort
<1>7. ASSUME NEW w \in Workers, SQLiteBegins(w) PROVE CoveredNext(k)
  <2> DEFINE st == Busy(worker[w].rec, worker[w].redacted, worker[w].at, TRUE)
  <2>1. worker' = [worker EXCEPT ![w] = st] /\ UNCHANGED <<store, sinkErrors, finished>>
    BY <1>7 DEF SQLiteBegins
  <2>2. IsBusy(w) /\ st.at = worker[w].at /\ st.rec = worker[w].rec
    BY <1>7 DEF SQLiteBegins, AtSink, Busy
  <2> HIDE DEF st
  <2>3. st.at > k => st.rec \in Passed(k)
    BY <2>2 DEF Passed
  <2> QED BY <2>1, <2>3, OwedShort
<1>8. ASSUME NEW w \in Workers, WorkerPanics(w) PROVE CoveredNext(k)
  BY <1>8, OwedPanics
<1>9. ASSUME NEW w \in Workers, SinkStep(w) PROVE CoveredNext(k)
  BY <1>9, OwedAtSink
<1>10. CASE ControlStep
  BY <1>1, <1>10, ControlOnly DEF data
<1> QED
  BY <1>2, <1>3, <1>4, <1>5, <1>6, <1>7, <1>8, <1>9, <1>10, StepCases

\* A record that process has returned for is in the sink or owed to it.
LEMMA OwedSuffices ==
  ASSUME TypeOK, OwedCounted
  PROVE  LossCounted
<1> SUFFICES ASSUME NEW k \in 1..Len(SinkOrder)
             PROVE  Cardinality(finished \ Kept(SinkOrder[k]))
                      <= sinkErrors[SinkOrder[k]] + count["panics"]
  BY DEF LossCounted
<1> DEFINE F == finished \ Kept(SinkOrder[k])
           n == sinkErrors[SinkOrder[k]] + count["panics"]
<1>1. F \subseteq Owed(k)
  BY DEF Owed, Passed
<1>2. IsFiniteSet(Owed(k)) /\ Cardinality(Owed(k)) <= n
  BY DEF OwedCounted
<1>3. n \in Nat
  <2>1. sinkErrors[SinkOrder[k]] \in Nat
    BY SinkOrderRange DEF TypeOK
  <2>2. count["panics"] \in Nat
    BY DEF TypeOK, Counters
  <2>3. QED BY <2>1, <2>2
<1> HIDE DEF F, n
<1>4. Cardinality(F) <= Cardinality(Owed(k)) /\ Cardinality(F) \in Nat
  BY <1>1, <1>2, FS_Subset, FS_CardinalityType
<1>5. Cardinality(Owed(k)) \in Nat
  BY <1>2, FS_CardinalityType
<1>6. Cardinality(F) <= n
  BY <1>2, <1>3, <1>4, <1>5
<1> QED BY <1>6 DEF F, n

\* Every record that process has returned for is in each enabled sink, or an
\* error of that sink or a recovered panic has been counted for it.
THEOREM LossesCounted == Spec => []LossCounted
<1>1. Init => OwedCounted
  <2> SUFFICES ASSUME Init, NEW k \in 1..Len(SinkOrder)
               PROVE  /\ IsFiniteSet(Owed(k))
                      /\ Cardinality(Owed(k)) <= sinkErrors[SinkOrder[k]] + count["panics"]
    BY DEF OwedCounted
  <2>1. \A w \in Workers : ~IsBusy(w)
    BY DEF Init, IsBusy, Idle
  <2>2. Owed(k) = {}
    BY <2>1 DEF Init, Owed, Passed
  <2>3. sinkErrors[SinkOrder[k]] = 0 /\ count["panics"] = 0
    BY SinkOrderRange DEF Init, Counters
  <2> QED BY <2>2, <2>3, FS_EmptySet
<1>2. TypeOK /\ TypeOK' /\ OwedCounted /\ [Next]_vars => OwedCounted'
  BY OwedStep
<1>3. TypeOK /\ OwedCounted => LossCounted
  BY OwedSuffices
<1> QED BY <1>1, <1>2, <1>3, TypeCorrect, PTL DEF Spec

-----------------------------------------------------------------------------
(* Every capture is counted once. *)

\* The handlers of S that are at one of the places P.
Standing(S, P) == {h \in S : hpc[h] \in P}

AtService == Standing(Captures, {"countService"})
AtFamily == Standing(Captures, {"countService", "countCorrelation"})
Through == Standing(Captures, {"countService", "countCorrelation", "done"})
Refused == Standing(Posts, {"dropped"})

\* EveryCaptureCounted with the handlers that are between two counters: who has
\* added to captured_total has not yet added to the without_* counters.
Books ==
  /\ IsFiniteSet(AtService) /\ IsFiniteSet(AtFamily)
  /\ IsFiniteSet(Through) /\ IsFiniteSet(Refused)
  /\ Cardinality(Through) + Cardinality(Refused) + count["eventsDropped"]
       = count["captured"] + count["bodyReadErrors"] + count["dropped"]
  /\ count["withoutService"] + Cardinality(AtService) <= count["captured"]
  /\ count["withoutCorrelation"] + Cardinality(AtFamily) <= count["captured"]

-----------------------------------------------------------------------------
\* The counters that Books is about.
Booked == {"captured", "withoutService", "withoutCorrelation", "bodyReadErrors",
           "dropped", "eventsDropped"}

\* Each of them is a number, and Bump adds one to those it names.
LEMMA BumpExact ==
  ASSUME TypeOK, NEW names, Bump(names)
  PROVE  \A c \in Booked : /\ count[c] \in Nat
                           /\ count'[c] = IF c \in names THEN count[c] + 1 ELSE count[c]
BY DEF Bump, TypeOK, Booked, Counters

\* How the number of handlers at some places changes when one handler moves.
Shift(h, S, P, pc) ==
  IF h \in S /\ pc \in P /\ hpc[h] \notin P THEN 1
  ELSE IF h \in S /\ pc \notin P /\ hpc[h] \in P THEN -1 ELSE 0

\* When one handler moves, the number of those standing at certain places changes
\* by what it does.
LEMMA OneMoves ==
  ASSUME TypeOK, NEW S \in SUBSET Handlers, NEW P, NEW h \in Handlers, NEW pc,
         hpc' = [hpc EXCEPT ![h] = pc], IsFiniteSet(Standing(S, P))
  PROVE  /\ IsFiniteSet(Standing(S, P)')
         /\ Cardinality(Standing(S, P)) \in Nat
         /\ Cardinality(Standing(S, P)') = Cardinality(Standing(S, P)) + Shift(h, S, P, pc)
<1> DEFINE A == Standing(S, P)
           B == Standing(S, P)'
<1>1. Cardinality(A) \in Nat
  BY FS_CardinalityType
<1>2. h \in DOMAIN hpc /\ hpc'[h] = pc /\ \A g \in S : g # h => hpc'[g] = hpc[g]
  BY DEF TypeOK
<1>3. CASE h \in S /\ pc \in P /\ hpc[h] \notin P
  <2>1. B = A \cup {h} /\ h \notin A
    BY <1>2, <1>3, Zenon DEF Standing
  <2>2. IsFiniteSet(A \cup {h}) /\ Cardinality(A \cup {h}) = Cardinality(A) + 1
    BY <2>1, FS_AddElement
  <2> HIDE DEF A, B
  <2>3. IsFiniteSet(B) /\ Cardinality(B) = Cardinality(A) + 1
    BY <2>1, <2>2
  <2> QED BY <1>1, <1>3, <2>3 DEF Shift, A, B
<1>4. CASE h \in S /\ pc \notin P /\ hpc[h] \in P
  <2>1. B = A \ {h} /\ h \in A
    BY <1>2, <1>4, Zenon DEF Standing
  <2>2. IsFiniteSet(A \ {h}) /\ Cardinality(A \ {h}) = Cardinality(A) - 1
    BY <2>1, FS_RemoveElement
  <2> HIDE DEF A, B
  <2>3. IsFiniteSet(B) /\ Cardinality(B) = Cardinality(A) - 1
    BY <2>1, <2>2
  <2> QED BY <1>1, <1>4, <2>3 DEF Shift, A, B
<1>5. CASE ~(h \in S /\ pc \in P /\ hpc[h] \notin P) /\ ~(h \in S /\ pc \notin P /\ hpc[h] \in P)
  <2>1. B = A
    BY <1>2, <1>5, Zenon DEF Standing
  <2>2. Shift(h, S, P, pc) = 0
    BY <1>5 DEF Shift
  <2> HIDE DEF A, B
  <2>3. IsFiniteSet(B) /\ Cardinality(B) = Cardinality(A)
    BY <2>1 DEF A
  <2> QED BY <1>1, <2>2, <2>3 DEF A, B
<1> QED BY <1>3, <1>4, <1>5

\* What a handler's move and the counters of its step have to add up to.
Balanced(h, pc, names) ==
  LET one(c) == IF c \in names THEN 1 ELSE 0
      shift(S, P) == Shift(h, S, P, pc)
  IN
  /\ shift(Captures, {"countService", "countCorrelation", "done"}) + shift(Posts, {"dropped"})
       + one("eventsDropped")
       = one("captured") + one("bodyReadErrors") + one("dropped")
  /\ one("withoutService") + shift(Captures, {"countService"}) <= one("captured")
  /\ one("withoutCorrelation") + shift(Captures, {"countService", "countCorrelation"})
       <= one("captured")

\* A balanced move keeps the books.
LEMMA BalancedKeeps ==
  ASSUME TypeOK, Books, NEW h \in Handlers, NEW pc, NEW names,
         hpc' = [hpc EXCEPT ![h] = pc], Bump(names), Balanced(h, pc, names)
  PROVE  Books'
<1> DEFINE one(c) == IF c \in names THEN 1 ELSE 0
           s1 == Shift(h, Captures, {"countService"}, pc)
           s2 == Shift(h, Captures, {"countService", "countCorrelation"}, pc)
           s3 == Shift(h, Captures, {"countService", "countCorrelation", "done"}, pc)
           s4 == Shift(h, Posts, {"dropped"}, pc)
<1>1. Captures \in SUBSET Handlers /\ Posts \in SUBSET Handlers
  BY DEF Handlers
<1>0. /\ IsFiniteSet(AtService) /\ IsFiniteSet(AtFamily)
      /\ IsFiniteSet(Through) /\ IsFiniteSet(Refused)
  BY Zenon DEF Books
<1>2. /\ IsFiniteSet(AtService') /\ Cardinality(AtService) \in Nat
      /\ Cardinality(AtService') = Cardinality(AtService) + s1
  BY <1>0, <1>1, OneMoves, Zenon DEF AtService
<1>3. /\ IsFiniteSet(AtFamily') /\ Cardinality(AtFamily) \in Nat
      /\ Cardinality(AtFamily') = Cardinality(AtFamily) + s2
  BY <1>0, <1>1, OneMoves, Zenon DEF AtFamily
<1>4. /\ IsFiniteSet(Through') /\ Cardinality(Through) \in Nat
      /\ Cardinality(Through') = Cardinality(Through) + s3
  BY <1>0, <1>1, OneMoves, Zenon DEF Through
<1>5. /\ IsFiniteSet(Refused') /\ Cardinality(Refused) \in Nat
      /\ Cardinality(Refused') = Cardinality(Refused) + s4
  BY <1>0, <1>1, OneMoves, Zenon DEF Refused
<1>6. \A c \in Booked : count[c] \in Nat /\ one(c) \in Int /\ count'[c] = count[c] + one(c)
  BY BumpExact
<1>7. /\ s1 \in Int /\ s2 \in Int /\ s3 \in Int /\ s4 \in Int
  BY DEF Shift
<1>8. /\ s3 + s4 + one("eventsDropped") = one("captured") + one("bodyReadErrors") + one("dropped")
      /\ one("withoutService") + s1 <= one("captured")
      /\ one("withoutCorrelation") + s2 <= one("captured")
  BY DEF Balanced
<1>9. /\ "captured" \in Booked /\ "bodyReadErrors" \in Booked /\ "dropped" \in Booked
      /\ "eventsDropped" \in Booked /\ "withoutService" \in Booked
      /\ "withoutCorrelation" \in Booked
  BY DEF Booked
<1> HIDE DEF one, s1, s2, s3, s4
<1>10. Cardinality(Through') + Cardinality(Refused') + count'["eventsDropped"]
         = count'["captured"] + count'["bodyReadErrors"] + count'["dropped"]
  <2>1. /\ count["eventsDropped"] \in Nat /\ one("eventsDropped") \in Int
        /\ count'["eventsDropped"] = count["eventsDropped"] + one("eventsDropped")
    BY <1>6, <1>9, Zenon
  <2>2. /\ count["captured"] \in Nat /\ one("captured") \in Int
        /\ count'["captured"] = count["captured"] + one("captured")
    BY <1>6, <1>9, Zenon
  <2>3. /\ count["bodyReadErrors"] \in Nat /\ one("bodyReadErrors") \in Int
        /\ count'["bodyReadErrors"] = count["bodyReadErrors"] + one("bodyReadErrors")
    BY <1>6, <1>9, Zenon
  <2>4. /\ count["dropped"] \in Nat /\ one("dropped") \in Int
        /\ count'["dropped"] = count["dropped"] + one("dropped")
    BY <1>6, <1>9, Zenon
  <2>5. Cardinality(Through) + Cardinality(Refused) + count["eventsDropped"]
          = count["captured"] + count["bodyReadErrors"] + count["dropped"]
    BY Zenon DEF Books
  <2>6. (Cardinality(Through) + s3) + (Cardinality(Refused) + s4)
          + (count["eventsDropped"] + one("eventsDropped"))
        = (count["captured"] + one("captured")) + (count["bodyReadErrors"] + one("bodyReadErrors"))
            + (count["dropped"] + one("dropped"))
    <3>1. /\ Cardinality(Through) \in Int /\ Cardinality(Refused) \in Int
          /\ count["eventsDropped"] \in Int /\ count["captured"] \in Int
          /\ count["bodyReadErrors"] \in Int /\ count["dropped"] \in Int
      BY <1>4, <1>5, <2>1, <2>2, <2>3, <2>4
    <3>2. /\ s3 \in Int /\ s4 \in Int /\ one("eventsDropped") \in Int /\ one("captured") \in Int
          /\ one("bodyReadErrors") \in Int /\ one("dropped") \in Int
      BY <1>7, <2>1, <2>2, <2>3, <2>4
    <3>3. s3 + s4 + one("eventsDropped")
            = one("captured") + one("bodyReadErrors") + one("dropped")
      BY <1>8, Zenon
    <3> QED BY <2>5, <3>1, <3>2, <3>3
  <2> QED BY <1>4, <1>5, <2>1, <2>2, <2>3, <2>4, <2>6, Zenon
<1>11. count'["withoutService"] + Cardinality(AtService') <= count'["captured"]
  BY <1>2, <1>6, <1>7, <1>8, <1>9 DEF Books
<1>12. count'["withoutCorrelation"] + Cardinality(AtFamily') <= count'["captured"]
  BY <1>3, <1>6, <1>7, <1>8, <1>9 DEF Books
<1> QED BY <1>2, <1>3, <1>4, <1>5, <1>10, <1>11, <1>12 DEF Books

\* A step that moves no handler and touches none of these counters.
LEMMA BooksSame ==
  ASSUME Books, hpc' = hpc, \A c \in Booked : count'[c] = count[c]
  PROVE  Books'
<1>1. /\ AtService' = AtService /\ AtFamily' = AtFamily
      /\ Through' = Through /\ Refused' = Refused
  BY DEF AtService, AtFamily, Through, Refused, Standing
<1>2. /\ count'["captured"] = count["captured"] /\ count'["dropped"] = count["dropped"]
      /\ count'["bodyReadErrors"] = count["bodyReadErrors"]
      /\ count'["eventsDropped"] = count["eventsDropped"]
      /\ count'["withoutService"] = count["withoutService"]
      /\ count'["withoutCorrelation"] = count["withoutCorrelation"]
  BY DEF Booked
<1> QED BY <1>1, <1>2 DEF Books

\* A step without a counter is one that adds to none.
LEMMA NoBump ==
  ASSUME TypeOK, count' = count
  PROVE  Bump({})
<1>1. count = [c \in Counters |-> count[c]]
  BY DEF TypeOK
<1> QED BY <1>1 DEF Bump

\* The books of a capture handler's step.
LEMMA CaptureBooks ==
  ASSUME TypeOK, NEW h \in Captures, QuietHandlerStep(h) \/ CaptureEnqueue(h)
  PROVE  \E pc, names : /\ hpc' = [hpc EXCEPT ![h] = pc] /\ Bump(names)
                        /\ Balanced(h, pc, names)
<1>0. h \notin Posts
  BY PipelineAssumption, Zenon DEF PipelineAssumption
<1>1. CASE CaptureArrives(h)
  <2>1. hpc[h] = "new" /\ hpc' = [hpc EXCEPT ![h] = "reading"] /\ Bump({})
    BY <1>1, NoBump DEF CaptureArrives, Goto
  <2>2. Balanced(h, "reading", {})
    BY <1>0, <2>1 DEF Balanced, Shift
  <2> QED BY <2>1, <2>2
<1>2. CASE BodyReadFails(h)
  <2>1. hpc[h] = "reading" /\ hpc' = [hpc EXCEPT ![h] = "done"] /\ Bump({"bodyReadErrors"})
    BY <1>2 DEF BodyReadFails, Answer, Goto
  <2>2. Balanced(h, "done", {"bodyReadErrors"})
    BY <1>0, <2>1 DEF Balanced, Shift
  <2> QED BY <2>1, <2>2
<1>3. CASE CountCaptured(h)
  <2>1. hpc[h] = "count" /\ hpc' = [hpc EXCEPT ![h] = "countService"] /\ Bump({"captured"})
    BY <1>3 DEF CountCaptured, Goto
  <2>2. Balanced(h, "countService", {"captured"})
    BY <1>0, <2>1 DEF Balanced, Shift
  <2> QED BY <2>1, <2>2
<1>4. CASE CountService(h)
  <2>1. /\ hpc[h] = "countService" /\ hpc' = [hpc EXCEPT ![h] = "countCorrelation"]
        /\ Bump(IF h \in Unlabelled THEN {"withoutService"} ELSE {})
    BY <1>4 DEF CountService, Goto
  <2>2. Balanced(h, "countCorrelation", {"withoutService"}) /\ Balanced(h, "countCorrelation", {})
    BY <1>0, <2>1 DEF Balanced, Shift
  <2> QED BY <2>1, <2>2
<1>5. CASE CountCorrelation(h)
  <2>1. /\ hpc[h] = "countCorrelation" /\ hpc' = [hpc EXCEPT ![h] = "done"]
        /\ Bump(IF h \in Synthesized THEN {"withoutCorrelation"} ELSE {})
    BY <1>5 DEF CountCorrelation, Answer, Goto
  <2>2. Balanced(h, "done", {"withoutCorrelation"}) /\ Balanced(h, "done", {})
    BY <1>0, <2>1 DEF Balanced, Shift
  <2> QED BY <2>1, <2>2
<1>6. CASE CaptureEnqueue(h)
  <2>0. hpc[h] = "reading"
    BY <1>6 DEF CaptureEnqueue
  <2>1. \/ hpc' = [hpc EXCEPT ![h] = "count"] /\ count' = count
        \/ hpc' = [hpc EXCEPT ![h] = "done"] /\ Bump({"dropped"})
        \/ hpc' = [hpc EXCEPT ![h] = "aborted"] /\ count' = count
    BY <1>6 DEF CaptureEnqueue, CaptureDropped, SendPanics, Answer, Goto
  <2>2. /\ Balanced(h, "count", {}) /\ Balanced(h, "done", {"dropped"})
        /\ Balanced(h, "aborted", {})
    BY <1>0, <2>0 DEF Balanced, Shift
  <2> QED BY <2>1, <2>2, NoBump
<1> QED BY <1>1, <1>2, <1>3, <1>4, <1>5, <1>6 DEF QuietHandlerStep

\* The books of a POST's step.
LEMMA PostBooks ==
  ASSUME TypeOK, NEW p \in Posts, QuietPostStep(p) \/ PostEnqueue(p)
  PROVE  \E pc, names : /\ hpc' = [hpc EXCEPT ![p] = pc] /\ Bump(names)
                        /\ Balanced(p, pc, names)
<1>0. p \notin Captures
  BY PipelineAssumption, Zenon DEF PipelineAssumption
<1>1. CASE PostArrives(p)
  <2>1. hpc[p] = "new" /\ hpc' = [hpc EXCEPT ![p] = "reading"] /\ Bump({})
    BY <1>1, NoBump DEF PostArrives, Goto
  <2>2. Balanced(p, "reading", {})
    BY <1>0, <2>1 DEF Balanced, Shift
  <2> QED BY <2>1, <2>2
<1>2. CASE PostRejects(p)
  <2>1. hpc[p] = "reading" /\ hpc' = [hpc EXCEPT ![p] = "done"] /\ Bump({"rejected"})
    BY <1>2 DEF PostRejects, Answer, Goto
  <2>2. Balanced(p, "done", {"rejected"})
    BY <1>0, <2>1 DEF Balanced, Shift
  <2> QED BY <2>1, <2>2
<1>3. CASE PostValidates(p)
  <2>1. hpc[p] = "reading" /\ hpc' = [hpc EXCEPT ![p] = "enqueue"] /\ Bump({})
    BY <1>3, NoBump DEF PostValidates, Goto
  <2>2. Balanced(p, "enqueue", {})
    BY <1>0, <2>1 DEF Balanced, Shift
  <2> QED BY <2>1, <2>2
<1>4. CASE PostCounts(p)
  <2>1. /\ hpc' = [hpc EXCEPT ![p] = "enqueue"]
        /\ \/ hpc[p] = "ingested" /\ Bump({"ingested"})
           \/ hpc[p] = "dropped" /\ Bump({"eventsDropped"})
    BY <1>4 DEF PostCounts, Goto
  <2>2. /\ hpc[p] = "ingested" => Balanced(p, "enqueue", {"ingested"})
        /\ hpc[p] = "dropped" => Balanced(p, "enqueue", {"eventsDropped"})
    BY <1>0 DEF Balanced, Shift
  <2> QED BY <2>1, <2>2
<1>5. CASE PostAnswers(p)
  <2>1. hpc[p] = "enqueue" /\ hpc' = [hpc EXCEPT ![p] = "done"] /\ Bump({})
    BY <1>5, NoBump DEF PostAnswers, Answer, Goto
  <2>2. Balanced(p, "done", {})
    BY <1>0, <2>1 DEF Balanced, Shift
  <2> QED BY <2>1, <2>2
<1>6. CASE PostEnqueue(p)
  <2>0. hpc[p] = "enqueue"
    BY <1>6 DEF PostEnqueue
  <2>1. \/ hpc' = [hpc EXCEPT ![p] = "ingested"] /\ count' = count
        \/ hpc' = [hpc EXCEPT ![p] = "dropped"] /\ Bump({"dropped"})
        \/ hpc' = [hpc EXCEPT ![p] = "aborted"] /\ count' = count
    BY <1>6 DEF PostEnqueue, SendPanics, Goto
  <2>2. /\ Balanced(p, "ingested", {}) /\ Balanced(p, "dropped", {"dropped"})
        /\ Balanced(p, "aborted", {})
    BY <1>0, <2>0 DEF Balanced, Shift
  <2> QED BY <2>1, <2>2, NoBump
<1> QED BY <1>1, <1>2, <1>3, <1>4, <1>5, <1>6 DEF QuietPostStep

\* Every step keeps the books.
LEMMA BooksStep ==
  ASSUME TypeOK, Books, [Next]_vars
  PROVE  Books'
<1> USE DEF control, handler, data
<1>1. ASSUME UNCHANGED <<hpc, count>> PROVE Books'
  BY <1>1, BooksSame
<1>2. ASSUME NEW h \in Captures, QuietHandlerStep(h) \/ CaptureEnqueue(h) PROVE Books'
  BY <1>2, CaptureBooks, BalancedKeeps DEF Handlers
<1>3. ASSUME NEW p \in Posts, QuietPostStep(p) \/ PostEnqueue(p) PROVE Books'
  BY <1>3, PostBooks, BalancedKeeps DEF Handlers
<1>4. ASSUME NEW w \in Workers, WorkerPanics(w) PROVE Books'
  <2>1. hpc' = hpc /\ Bump({"panics"})
    BY <1>4 DEF WorkerPanics, Recovers
  <2>2. \A c \in Booked : count'[c] = count[c]
    BY <2>1, BumpExact DEF Booked
  <2> QED BY <2>1, <2>2, BooksSame
<1>5. ASSUME NEW w \in Workers,
             \/ WorkerReceives(w) \/ WorkerExits(w) \/ WorkerRedacts(w)
             \/ SinkStep(w) \/ SQLiteBegins(w)
      PROVE  Books'
  BY <1>1, <1>5, SinkCall DEF WorkerReceives, WorkerExits, WorkerRedacts, SQLiteBegins
<1>6. CASE ControlStep
  BY <1>1, <1>6, ControlOnly
<1> QED BY <1>2, <1>3, <1>4, <1>5, <1>6, StepCases

\* Every capture is counted exactly once and every refused event twice, and the
\* counters of the captured family share one population, at every moment and for
\* any number of requests.
THEOREM CapturesAreCounted == Spec => []EveryCaptureCounted
<1>1. Init => Books
  <2> SUFFICES ASSUME Init PROVE Books
    OBVIOUS
  <2>1. AtService = {} /\ AtFamily = {} /\ Through = {} /\ Refused = {}
    BY DEF Init, Handlers, AtService, AtFamily, Through, Refused, Standing
  <2>2. \A c \in Booked : count[c] = 0
    BY DEF Init, Booked, Counters
  <2>3. /\ count["captured"] = 0 /\ count["dropped"] = 0 /\ count["bodyReadErrors"] = 0
        /\ count["eventsDropped"] = 0 /\ count["withoutService"] = 0
        /\ count["withoutCorrelation"] = 0
    BY <2>2 DEF Booked
  <2> QED BY <2>1, <2>3, FS_EmptySet DEF Books
<1>2. TypeOK /\ Books /\ [Next]_vars => Books'
  BY BooksStep
<1>3. TypeOK /\ Books => EveryCaptureCounted
  <2> SUFFICES ASSUME TypeOK, Books PROVE EveryCaptureCounted
    OBVIOUS
  <2>1. /\ Through = {h \in Captures : hpc[h] \in {"countService", "countCorrelation", "done"}}
        /\ Refused = {p \in Posts : hpc[p] = "dropped"}
    BY DEF Through, Refused, Standing
  <2>2. Cardinality(AtService) \in Nat /\ Cardinality(AtFamily) \in Nat
    BY FS_CardinalityType DEF Books
  <2>3. /\ count["captured"] \in Nat /\ count["withoutService"] \in Nat
        /\ count["withoutCorrelation"] \in Nat
    BY DEF TypeOK, Counters
  <2>4. count["withoutService"] <= count["captured"]
    BY <2>2, <2>3 DEF Books
  <2>5. count["withoutCorrelation"] <= count["captured"]
    BY <2>2, <2>3 DEF Books
  <2> QED BY <2>1, <2>4, <2>5 DEF Books, EveryCaptureCounted
<1> QED BY <1>1, <1>2, <1>3, TypeCorrect, PTL DEF Spec

-----------------------------------------------------------------------------
(* Answers say what became of the items. *)

\* What a POST has done so far: it enqueues only what it has validated, and its
\* answer comes last.
PostSound(p) ==
  /\ hpc[p] \in {"new", "reading"} => nextItem[p] = 1
  /\ hpc[p] \in {"enqueue", "ingested", "dropped"} => Valid(batch[p])
  /\ ItemsAccepted(p) # {} => Valid(batch[p])
  /\ answer[p] # "none" => hpc[p] = "done"

\* What its answer says of the items.
AnswerTrue(p) ==
  /\ answer[p] = "202" => ItemsAccepted(p) = 1..Len(batch[p]) /\ 1..Len(batch[p]) # {}
  /\ answer[p] = "207" => ItemsAccepted(p) # {} /\ ItemsAccepted(p) # 1..Len(batch[p])
  /\ answer[p] \in {"503", "4xx"} => ItemsAccepted(p) = {}

PostsSound == \A p \in Posts : PostSound(p) /\ AnswerTrue(p)

\* Shutdown closes the queue on a running capture handler only after it has given
\* up waiting for one.
CapturesSound ==
  /\ phase = "starting" => \A h \in Captures : hpc[h] = "new"
  /\ phase \notin {"starting", "serving", "stopping"} /\ ActiveCaptures # {} => captureTimedOut
  /\ (\E h \in Captures : hpc[h] = "aborted") => captureTimedOut

\* A POST is untouched by the steps of others.
LEMMA PostSame ==
  ASSUME NEW p \in Posts, PostSound(p), AnswerTrue(p),
         hpc'[p] = hpc[p], nextItem'[p] = nextItem[p], batch'[p] = batch[p],
         answer'[p] = answer[p], \A i : <<p, i>> \in accepted' <=> <<p, i>> \in accepted
  PROVE  PostSound(p)' /\ AnswerTrue(p)'
<1>1. ItemsAccepted(p)' = ItemsAccepted(p)
  BY DEF ItemsAccepted
<1> QED BY <1>1 DEF PostSound, AnswerTrue, Valid

\* A POST that has not begun to enqueue has no items in the queue.
LEMMA NoneYet ==
  ASSUME TypeOK, Fresh, NEW p \in Posts, nextItem[p] = 1
  PROVE  \A i \in Nat \ {0} : <<p, i>> \notin accepted
<1> SUFFICES ASSUME NEW i \in Nat \ {0}, <<p, i>> \in accepted PROVE FALSE
  OBVIOUS
<1>1. i < nextItem[p]
  BY DEF Fresh
<1> QED BY <1>1

\* A valid body has items, all of them good.
LEMMA ValidItems ==
  ASSUME NEW b \in Seq({"ok", "bad"}), Valid(b)
  PROVE  1..Len(b) # {} /\ \A i \in 1..Len(b) : b[i] = "ok"
<1>1. b # <<>> /\ \A i \in 1..Len(b) : b[i] = "ok"
  BY DEF Valid
<1>2. Len(b) \in Nat /\ Len(b) # 0
  BY <1>1
<1>3. 1 \in 1..Len(b)
  BY <1>2
<1> QED BY <1>1, <1>3

\* The steps of POST q keep what is said of it.
LEMMA PostOwn ==
  ASSUME TypeOK, Fresh, NEW q \in Posts, PostSound(q), AnswerTrue(q),
         QuietPostStep(q) \/ PostEnqueue(q)
  PROVE  PostSound(q)' /\ AnswerTrue(q)'
<1> USE DEF TypeOK, Handlers, handler
<1>0. batch[q] \in Seq({"ok", "bad"}) /\ nextItem[q] \in Nat \ {0} /\ q \in DOMAIN hpc
      /\ q \in DOMAIN answer /\ q \in DOMAIN batch /\ q \in DOMAIN nextItem
  OBVIOUS
<1>1. CASE PostArrives(q)
  <2>1. hpc[q] = "new" /\ hpc'[q] = "reading" /\ UNCHANGED <<nextItem, answer, accepted>>
    BY <1>0, <1>1 DEF PostArrives, Goto
  <2>2. nextItem[q] = 1 /\ answer[q] = "none"
    BY <2>1 DEF PostSound
  <2>3. ItemsAccepted(q)' = {}
    <3>1. \A i \in Nat \ {0} : <<q, i>> \notin accepted
      BY <2>2, NoneYet
    <3>2. batch'[q] \in Seq({"ok", "bad"})
      BY <1>0, <1>1, PipelineAssumption DEF PostArrives, PipelineAssumption
    <3>3. \A i \in 1..Len(batch'[q]) : i \in Nat \ {0}
      BY <3>2
    <3> QED BY <2>1, <3>1, <3>3 DEF ItemsAccepted
  <2> QED BY <2>1, <2>2, <2>3 DEF PostSound, AnswerTrue
<1>2. CASE PostRejects(q)
  <2>1. /\ hpc[q] = "reading" /\ hpc'[q] = "done" /\ answer'[q] = "4xx"
        /\ UNCHANGED <<nextItem, batch, accepted>>
    BY <1>0, <1>2 DEF PostRejects, Answer, Goto
  <2>2. nextItem[q] = 1
    BY <2>1 DEF PostSound
  <2>3. ItemsAccepted(q)' = {}
    <3>1. \A i \in Nat \ {0} : <<q, i>> \notin accepted
      BY <2>2, NoneYet
    <3>2. \A i \in 1..Len(batch[q]) : i \in Nat \ {0}
      BY <1>0
    <3> QED BY <2>1, <3>1, <3>2 DEF ItemsAccepted
  <2> QED BY <2>1, <2>2, <2>3 DEF PostSound, AnswerTrue
<1>3. CASE PostValidates(q)
  <2>1. /\ hpc[q] = "reading" /\ hpc'[q] = "enqueue" /\ Valid(batch[q])
        /\ UNCHANGED <<nextItem, batch, accepted, answer>>
    BY <1>0, <1>3 DEF PostValidates, Goto
  <2>2. ItemsAccepted(q)' = ItemsAccepted(q) /\ Valid(batch[q])' /\ answer[q] = "none"
    BY <2>1 DEF ItemsAccepted, Valid, PostSound
  <2> QED BY <2>1, <2>2 DEF PostSound, AnswerTrue
<1>4. CASE PostCounts(q)
  <2>1. /\ hpc[q] \in {"ingested", "dropped"} /\ hpc'[q] = "enqueue"
        /\ UNCHANGED <<nextItem, batch, accepted, answer>>
    BY <1>0, <1>4 DEF PostCounts, Goto
  <2>2. /\ ItemsAccepted(q)' = ItemsAccepted(q) /\ Valid(batch[q])' /\ Valid(batch[q])
        /\ answer[q] = "none"
    BY <2>1 DEF ItemsAccepted, Valid, PostSound
  <2> QED BY <2>1, <2>2 DEF PostSound, AnswerTrue
<1>5. CASE PostAnswers(q)
  <2>1. /\ hpc[q] = "enqueue" /\ hpc'[q] = "done" /\ answer'[q] = PostCode(q)
        /\ UNCHANGED <<nextItem, batch, accepted>>
    BY <1>0, <1>5 DEF PostAnswers, Answer, Goto
  <2>2. /\ ItemsAccepted(q)' = ItemsAccepted(q) /\ Valid(batch[q])' /\ Valid(batch[q])
    BY <2>1 DEF ItemsAccepted, Valid, PostSound
  <2>3. 1..Len(batch[q]) # {}
    BY <1>0, <2>2, ValidItems
  <2> QED BY <2>1, <2>2, <2>3 DEF PostSound, AnswerTrue, PostCode
<1>6. CASE PostEnqueue(q)
  <2>1. /\ hpc[q] = "enqueue" /\ hpc'[q] \in {"ingested", "dropped", "aborted"}
        /\ UNCHANGED <<batch, answer>>
    BY <1>0, <1>6 DEF PostEnqueue, SendPanics, Goto
  <2>2. Valid(batch[q]) /\ Valid(batch[q])' /\ answer[q] = "none"
    BY <2>1 DEF PostSound, Valid
  <2> QED BY <2>1, <2>2 DEF PostSound, AnswerTrue
<1> QED BY <1>1, <1>2, <1>3, <1>4, <1>5, <1>6 DEF QuietPostStep

\* Every step keeps the answers true.
LEMMA PostsStep ==
  ASSUME TypeOK, Fresh, PostsSound, [Next]_vars
  PROVE  PostsSound'
<1> USE DEF control, handler, data
<1>1. ASSUME UNCHANGED <<hpc, nextItem, batch, answer, accepted>> PROVE PostsSound'
  BY <1>1, PostSame DEF PostsSound
<1>2. ASSUME NEW h \in Captures, QuietHandlerStep(h) \/ CaptureEnqueue(h)
      PROVE  PostsSound'
  <2>1. /\ \E pc : hpc' = [hpc EXCEPT ![h] = pc]
        /\ answer' = answer \/ \E code : answer' = [answer EXCEPT ![h] = code]
        /\ UNCHANGED <<batch, nextItem>>
        /\ accepted' = accepted \/ accepted' = accepted \cup {<<h, 1>>}
    BY <1>2 DEF QuietHandlerStep, CaptureArrives, BodyReadFails, CountCaptured, CountService,
       CountCorrelation, CaptureEnqueue, CaptureDropped, Sent, Full, SendPanics, Goto, Answer
  <2>2. \A p \in Posts : p # h
    BY PipelineAssumption, Zenon DEF PipelineAssumption
  <2>3. \A p \in Posts : hpc'[p] = hpc[p] /\ answer'[p] = answer[p]
    BY <2>1, <2>2 DEF TypeOK, Handlers
  <2>4. \A p \in Posts : \A i : <<p, i>> \in accepted' <=> <<p, i>> \in accepted
    BY <2>1, <2>2
  <2> QED BY <2>1, <2>3, <2>4, PostSame DEF PostsSound
<1>3. ASSUME NEW q \in Posts, QuietPostStep(q) \/ PostEnqueue(q)
      PROVE  PostsSound'
  <2>1. /\ \E pc : hpc' = [hpc EXCEPT ![q] = pc]
        /\ answer' = answer \/ \E code : answer' = [answer EXCEPT ![q] = code]
        /\ batch' = batch \/ \E b : batch' = [batch EXCEPT ![q] = b]
        /\ nextItem' = nextItem \/ \E n : nextItem' = [nextItem EXCEPT ![q] = n]
        /\ accepted' = accepted \/ accepted' = accepted \cup {<<q, nextItem[q]>>}
    BY <1>3 DEF QuietPostStep, PostArrives, PostRejects, PostValidates, PostCounts, PostAnswers,
       PostEnqueue, Sent, Full, SendPanics, Goto, Answer
  <2>2. \A p \in Posts : p # q =>
           /\ hpc'[p] = hpc[p] /\ answer'[p] = answer[p] /\ batch'[p] = batch[p]
           /\ nextItem'[p] = nextItem[p]
    BY <2>1 DEF TypeOK, Handlers
  <2>3. \A p \in Posts : p # q => \A i : <<p, i>> \in accepted' <=> <<p, i>> \in accepted
    BY <2>1
  <2>4. \A p \in Posts : p # q => PostSound(p)' /\ AnswerTrue(p)'
    BY <2>2, <2>3, PostSame DEF PostsSound
  <2>5. PostSound(q)' /\ AnswerTrue(q)'
    BY <1>3, PostOwn DEF PostsSound
  <2> QED BY <2>4, <2>5 DEF PostsSound
<1>4. ASSUME NEW w \in Workers,
             \/ WorkerReceives(w) \/ WorkerExits(w) \/ WorkerRedacts(w)
             \/ WorkerPanics(w) \/ SinkStep(w) \/ SQLiteBegins(w)
      PROVE  PostsSound'
  BY <1>1, <1>4, SinkCall DEF WorkerReceives, WorkerExits, WorkerRedacts, WorkerPanics, SQLiteBegins
<1>5. CASE ControlStep
  BY <1>1, <1>5, ControlOnly
<1> QED BY <1>2, <1>3, <1>4, <1>5, StepCases

\* A capture handler is active from its arrival to its answer.
LEMMA ActiveFrom ==
  ASSUME NEW h \in Captures, hpc[h] \notin {"new", "done", "aborted"}
  PROVE  ActiveCaptures # {}
BY DEF ActiveCaptures

\* A step that neither wakes nor aborts a capture handler, and that Serve has no
\* part in.
LEMMA CapturesSame ==
  ASSUME CapturesSound, UNCHANGED <<phase, captureTimedOut>>,
         \A h \in Captures :
           /\ hpc[h] \in {"new", "done", "aborted"} => hpc'[h] = hpc[h]
           /\ hpc'[h] = "aborted" => hpc[h] = "aborted"
  PROVE  CapturesSound'
<1>1. ActiveCaptures' \subseteq ActiveCaptures
  BY DEF ActiveCaptures
<1> QED BY <1>1 DEF CapturesSound

\* Every step keeps CapturesSound.
LEMMA CapturesStep ==
  ASSUME TypeOK, CapturesSound, [Next]_vars
  PROVE  CapturesSound'
<1> USE DEF control, handler, data
<1>1. ASSUME UNCHANGED <<hpc, phase, captureTimedOut>> PROVE CapturesSound'
  BY <1>1, CapturesSame
<1>2. ASSUME NEW h \in Captures, CaptureArrives(h) PROVE CapturesSound'
  <2>1. phase' = phase /\ captureTimedOut' = captureTimedOut /\ phase \in {"serving", "stopping"}
    BY <1>2 DEF CaptureArrives
  <2>2. \A g \in Captures : hpc'[g] = "aborted" => hpc[g] = "aborted"
    BY <1>2 DEF CaptureArrives, Goto, TypeOK, Handlers
  <2> QED BY <2>1, <2>2 DEF CapturesSound
<1>3. ASSUME NEW h \in Captures,
             \/ BodyReadFails(h) \/ CountCaptured(h) \/ CountService(h) \/ CountCorrelation(h)
      PROVE  CapturesSound'
  <2>1. /\ UNCHANGED <<phase, captureTimedOut>> /\ hpc[h] \notin {"new", "done", "aborted"}
        /\ \E pc \in {"countService", "countCorrelation", "done"} : hpc' = [hpc EXCEPT ![h] = pc]
    BY <1>3 DEF BodyReadFails, CountCaptured, CountService, CountCorrelation, Goto, Answer
  <2>2. \A g \in Captures :
          /\ hpc[g] \in {"new", "done", "aborted"} => hpc'[g] = hpc[g]
          /\ hpc'[g] = "aborted" => hpc[g] = "aborted"
    BY <2>1 DEF TypeOK, Handlers
  <2> QED BY <2>1, <2>2, CapturesSame
<1>4. ASSUME NEW h \in Captures, CaptureEnqueue(h) PROVE CapturesSound'
  <2>1. UNCHANGED <<phase, captureTimedOut>> /\ hpc[h] = "reading"
    BY <1>4 DEF CaptureEnqueue
  <2>2. CASE SendPanics(h)
    <3>1. captureTimedOut
      <4>1. ActiveCaptures # {}
        BY <2>1, ActiveFrom
      <4> QED BY <2>2, <4>1 DEF SendPanics, QueueClosed, CapturesSound
    <3>2. phase # "starting"
      BY <2>2 DEF SendPanics, QueueClosed
    <3> QED BY <2>1, <3>1, <3>2 DEF CapturesSound
  <2>3. CASE ~SendPanics(h)
    <3>1. \E pc \in {"count", "done"} : hpc' = [hpc EXCEPT ![h] = pc]
      BY <1>4, <2>3 DEF CaptureEnqueue, CaptureDropped, Goto, Answer
    <3>2. \A g \in Captures :
            /\ hpc[g] \in {"new", "done", "aborted"} => hpc'[g] = hpc[g]
            /\ hpc'[g] = "aborted" => hpc[g] = "aborted"
      BY <2>1, <3>1 DEF TypeOK, Handlers
    <3> QED BY <2>1, <3>2, CapturesSame
  <2> QED BY <2>2, <2>3
<1>5. ASSUME NEW q \in Posts, QuietPostStep(q) \/ PostEnqueue(q)
      PROVE  CapturesSound'
  <2>1. (\E pc : hpc' = [hpc EXCEPT ![q] = pc]) /\ UNCHANGED <<phase, captureTimedOut>>
    BY <1>5 DEF QuietPostStep, PostArrives, PostRejects, PostValidates, PostCounts, PostAnswers,
       PostEnqueue, SendPanics, Goto, Answer
  <2>2. \A h \in Captures : h # q
    BY PipelineAssumption, Zenon DEF PipelineAssumption
  <2>3. \A h \in Captures : hpc'[h] = hpc[h]
    BY <2>1, <2>2 DEF TypeOK, Handlers
  <2> QED BY <2>1, <2>3, CapturesSame
<1>6. ASSUME NEW w \in Workers,
             \/ WorkerReceives(w) \/ WorkerExits(w) \/ WorkerRedacts(w)
             \/ WorkerPanics(w) \/ SinkStep(w) \/ SQLiteBegins(w)
      PROVE  CapturesSound'
  BY <1>1, <1>6, SinkCall DEF WorkerReceives, WorkerExits, WorkerRedacts, WorkerPanics, SQLiteBegins
<1>7. CASE ControlStep
  <2>1. hpc' = hpc /\ ActiveCaptures' = ActiveCaptures
    BY <1>7, ControlOnly DEF ActiveCaptures
  <2>2. \/ phase = "starting" /\ phase' \in {"serving", "closequeue"} /\ UNCHANGED captureTimedOut
        \/ phase # "starting" /\ phase' \in {"serving", "stopping"} /\ UNCHANGED captureTimedOut
        \/ phase = "stopping" /\ phase' = "closequeue" /\ ActiveCaptures = {}
             /\ UNCHANGED captureTimedOut
        \/ phase' # "starting" /\ captureTimedOut'
        \/ phase \notin {"starting", "serving", "stopping"} /\ phase' # "starting"
             /\ UNCHANGED captureTimedOut
        \/ UNCHANGED <<phase, captureTimedOut>>
    BY <1>7 DEF ControlStep, StartStep, ShutdownStep, Listen, ListenFails, Interrupted,
       AdminFails, CaptureStopped, CaptureStopTimesOut, CloseQueue, Drained,
       DrainTimesOut, CloseSQLite, ProcessExits, AdminStops, vars
  <2>3. phase = "starting" => ActiveCaptures = {} /\ ~\E h \in Captures : hpc[h] = "aborted"
    BY DEF CapturesSound, ActiveCaptures
  <2> QED BY <2>1, <2>2, <2>3 DEF CapturesSound
<1> QED BY <1>2, <1>3, <1>4, <1>5, <1>6, <1>7, StepCases DEF QuietHandlerStep

\* The status code of a POST tells what became of its items, validation is all or
\* nothing, and no capture loses its answer to the closed queue unless Shutdown
\* gave up waiting for it: for any number of requests and bodies of any length.
THEOREM AnswersAreTrue == Spec => []AnswersTruthful
<1>1. Init => PostsSound /\ CapturesSound
  <2> SUFFICES ASSUME Init PROVE PostsSound /\ CapturesSound
    OBVIOUS
  <2>1. ASSUME NEW p \in Posts PROVE PostSound(p) /\ AnswerTrue(p)
    <3>1. hpc[p] = "new" /\ answer[p] = "none" /\ nextItem[p] = 1
      BY DEF Init, Handlers
    <3>2. ItemsAccepted(p) = {}
      BY DEF Init, ItemsAccepted
    <3> QED BY <3>1, <3>2 DEF PostSound, AnswerTrue
  <2>2. \A h \in Captures : hpc[h] = "new"
    BY DEF Init, Handlers
  <2> QED BY <2>1, <2>2 DEF PostsSound, CapturesSound, Init
<1>2. TypeOK /\ Fresh /\ PostsSound /\ [Next]_vars => PostsSound'
  BY PostsStep
<1>3. TypeOK /\ CapturesSound /\ [Next]_vars => CapturesSound'
  BY CapturesStep
<1>4. TypeOK /\ PostsSound /\ CapturesSound => AnswersTruthful
  <2> SUFFICES ASSUME TypeOK, PostsSound, CapturesSound PROVE AnswersTruthful
    OBVIOUS
  <2>1. ASSUME NEW p \in Posts, ItemsAccepted(p) # {}
        PROVE  \A i \in 1..Len(batch[p]) : batch[p][i] = "ok"
    BY <2>1 DEF PostsSound, PostSound, Valid
  <2> QED BY <2>1 DEF AnswersTruthful, PostsSound, AnswerTrue, CapturesSound
<1> QED BY <1>1, <1>2, <1>3, <1>4, TypeCorrect, RecordsConserved, PTL DEF Spec

=============================================================================
