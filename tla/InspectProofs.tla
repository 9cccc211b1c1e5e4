---------------------------- MODULE InspectProofs ----------------------------
(***************************************************************************)
(* Two reads of the admin API, for any records, ring capacity, choice of   *)
(* readers and interleaving with writes, evictions and sweeps.             *)
(*                                                                         *)
(* GET /requests/{id}: what SQLite keeps is found, with everything related *)
(* to it, and nothing is listed twice.  GET /requests: whatever happens    *)
(* between the pages of a walk they descend, and a walk that SQLite serves *)
(* alone misses nothing that stays.                                        *)
(***************************************************************************)
EXTENDS InspectDetail, FiniteSetTheorems, TLAPS

Shown == {e[1] : e \in detail.events}

\* Related records that SQLite has had all the time are in the answer.
Complete == Siblings(target) \cap inSQL \subseteq Shown

\* A list without two copies of a record.
Distinct(events) == \A e, f \in events : e[1] = f[1] => e = f

StoresInv ==
  /\ sql \subseteq Records /\ toSQL \subseteq Records
  /\ inSQL \subseteq sql
  /\ "sqlite" \notin Readers => sql = {} /\ toSQL = {}

HandlerInv ==
  /\ at # "idle" => target \in Records
  /\ detail # Nothing =>
       /\ target \in Records
       /\ detail \in [root : {target}, from : {"memory", "sqlite"},
                      events : SUBSET (Siblings(target) \X {"memory", "sqlite"})]
       /\ Distinct(detail.events)
  /\ rows # {} =>
       /\ at = "sibling events"
       /\ rows \subseteq {<<s, "sqlite">> : s \in Siblings(target)}
  /\ failures \in Nat

\* How far the handler has got with SQLite.
ProgressInv ==
  /\ at # "idle" => answer = "none"
  /\ at = "event" => target \notin Requests \cap inSQL
  /\ at = "not found" \/ answer = "404" => target \notin inSQL
  /\ at = "sibling events" =>
       Siblings(target) \cap Requests \cap inSQL \subseteq {e[1] : e \in rows}
  /\ at \in {"len", "recent"} /\ detail # Nothing => Complete
  /\ (at = "found" \/ answer = "200") /\ failures = 0 /\ target \in inSQL => Complete

IInv == StoresInv /\ HandlerInv /\ ProgressInv

-----------------------------------------------------------------------------
\* Merging the other reader's events keeps the list free of copies, keeps what
\* it had, and covers every record found.
LEMMA MergeKeeps ==
  ASSUME HandlerInv, detail # Nothing, NEW m \in {"memory", "sqlite"},
         NEW found, found \subseteq {<<s, m>> : s \in Siblings(target)}
  PROVE  /\ Merge(detail, found) \in
              [root : {target}, from : {"memory", "sqlite"},
               events : SUBSET (Siblings(target) \X {"memory", "sqlite"})]
         /\ Distinct(Merge(detail, found).events)
         /\ detail.events \subseteq Merge(detail, found).events
         /\ {e[1] : e \in found} \subseteq {e[1] : e \in Merge(detail, found).events}
<1> DEFINE new == {e \in found : e[1] # detail.root /\ \A f \in detail.events : f[1] # e[1]}
<1>0. /\ detail \in [root : {target}, from : {"memory", "sqlite"},
                     events : SUBSET (Siblings(target) \X {"memory", "sqlite"})]
      /\ Distinct(detail.events)
  BY DEF HandlerInv
<1>1. Merge(detail, found) = [detail EXCEPT !.events = detail.events \cup new]
  BY DEF Merge
<1>2. /\ Merge(detail, found).events = detail.events \cup new
      /\ Merge(detail, found).root = target /\ Merge(detail, found).from = detail.from
  BY <1>0, <1>1
<1>3. new \subseteq Siblings(target) \X {"memory", "sqlite"}
  OBVIOUS
<1>4. Distinct(detail.events \cup new)
  <2> SUFFICES ASSUME NEW e \in detail.events \cup new, NEW f \in detail.events \cup new,
                      e[1] = f[1]
               PROVE  e = f
    BY DEF Distinct
  <2>1. CASE e \in detail.events /\ f \in detail.events
    BY <1>0, <2>1 DEF Distinct
  <2>2. CASE e \in new /\ f \in new
    BY <2>2
  <2> QED BY <2>1, <2>2
<1>5. ASSUME NEW e \in found PROVE \E f \in detail.events \cup new : f[1] = e[1]
  <2>1. e[1] # detail.root
    BY <1>0, <1>5 DEF Siblings
  <2> QED BY <1>5, <2>1
<1> HIDE DEF new
<1>6. Merge(detail, found) \in
        [root : {target}, from : {"memory", "sqlite"},
         events : SUBSET (Siblings(target) \X {"memory", "sqlite"})]
  BY <1>0, <1>1, <1>3
<1> QED BY <1>2, <1>4, <1>5, <1>6

\* A list that one reader returns has no copies.
LEMMA OneReaderDistinct ==
  ASSUME NEW m \in {"memory", "sqlite"}, NEW T, NEW found, found \subseteq {<<s, m>> : s \in T}
  PROVE  Distinct(found) /\ found \subseteq T \X {"memory", "sqlite"}
BY DEF Distinct

\* Writes and sweeps keep the history within SQLite, the handler leaves both.
LEMMA StoresStep == ASSUME StoresInv, [Next]_vars PROVE StoresInv'
<1>1. ASSUME NEW r \in Records, WriteMemory(r) PROVE StoresInv'
  BY <1>1 DEF WriteMemory, StoresInv
<1>2. ASSUME NEW r \in Records, WriteSQLite(r) PROVE StoresInv'
  BY <1>2 DEF WriteSQLite, StoresInv
<1>3. CASE Sweep
  BY <1>3 DEF Sweep, StoresInv
<1>4. ASSUME NEW r \in Records, Begin(r) PROVE StoresInv'
  BY <1>4 DEF Begin, stores, StoresInv
<1>5. ASSUME UNCHANGED <<sql, toSQL, inSQL>> PROVE StoresInv'
  BY <1>5 DEF StoresInv
<1>6. CASE CallLen \/ CallRecent \/ LoadRequest \/ LoadEvent \/ FetchSiblingRequests
           \/ FetchSiblingEvents \/ QueryFails \/ UNCHANGED vars
  BY <1>5, <1>6 DEF CallLen, CallRecent, LoadRequest, LoadEvent, FindRoot, vars,
     FetchSiblingRequests, FetchSiblingEvents, QueryFails, stores
<1>7. ASSUME NEW from, NEW status, Answer(from, status) PROVE StoresInv'
  BY <1>5, <1>7 DEF Answer, stores
<1> QED BY <1>1, <1>2, <1>3, <1>4, <1>6, <1>7 DEF Next, Handler

\* The second look into memory, or the first one that finds something.
LEMMA MemoryFinds ==
  ASSUME HandlerInv, CallRecent, target \in Snapshot
  PROVE  /\ detail' # Nothing
         /\ detail' \in [root : {target}, from : {"memory", "sqlite"},
                         events : SUBSET (Siblings(target) \X {"memory", "sqlite"})]
         /\ Distinct(detail'.events)
         /\ detail # Nothing => detail.events \subseteq detail'.events
<1>1. target \in Records /\ target # NoRecord
  BY DetailAssumption DEF DetailAssumption, HandlerInv, CallRecent
<1>2. FromMemory \subseteq {<<s, "memory">> : s \in Siblings(target)}
  BY DEF FromMemory
<1>3. CASE detail = Nothing
  <2>1. detail' = [root |-> target, from |-> "memory", events |-> FromMemory]
    BY <1>3 DEF CallRecent
  <2>2. Distinct(FromMemory) /\ FromMemory \subseteq Siblings(target) \X {"memory", "sqlite"}
    BY <1>2, OneReaderDistinct
  <2> QED BY <1>1, <1>3, <2>1, <2>2 DEF Nothing
<1>4. CASE detail # Nothing
  <2>1. detail' = Merge(detail, FromMemory)
    BY <1>4 DEF CallRecent
  <2> QED BY <1>1, <1>2, <1>4, <2>1, MergeKeeps DEF Nothing
<1> QED BY <1>3, <1>4

\* What FetchSiblingEvents has put together, from the rows of both tables.
LEMMA SQLiteFinds ==
  ASSUME StoresInv, HandlerInv, ProgressInv, FetchSiblingEvents
  PROVE  /\ detail' # Nothing
         /\ detail' \in [root : {target}, from : {"memory", "sqlite"},
                         events : SUBSET (Siblings(target) \X {"memory", "sqlite"})]
         /\ Distinct(detail'.events)
         /\ Complete'
<1> DEFINE found == rows \cup {<<s, "sqlite">> : s \in (Siblings(target) \ Requests) \cap sql}
<1>1. target \in Records /\ target # NoRecord /\ UNCHANGED <<target, inSQL>>
  BY DetailAssumption DEF DetailAssumption, HandlerInv, FetchSiblingEvents
<1>2. found \subseteq {<<s, "sqlite">> : s \in Siblings(target)}
  BY DEF HandlerInv
<1>3. Siblings(target) \cap inSQL \subseteq {e[1] : e \in found}
  <2> SUFFICES ASSUME NEW s \in Siblings(target) \cap inSQL PROVE \E e \in found : e[1] = s
    OBVIOUS
  <2>1. CASE s \in Requests
    <3>1. s \in {e[1] : e \in rows}
      BY <2>1 DEF ProgressInv, FetchSiblingEvents
    <3> QED BY <3>1
  <2>2. CASE s \notin Requests
    <3>1. <<s, "sqlite">> \in found
      BY <2>2 DEF StoresInv
    <3> QED BY <3>1
  <2> QED BY <2>1, <2>2
<1>4. CASE detail = Nothing
  <2>1. detail' = [root |-> target, from |-> "sqlite", events |-> found]
    BY <1>4 DEF FetchSiblingEvents
  <2>2. Distinct(found) /\ found \subseteq Siblings(target) \X {"memory", "sqlite"}
    BY <1>2, OneReaderDistinct
  <2> HIDE DEF found
  <2>3. Complete'
    BY <1>1, <1>3, <2>1 DEF Complete, Shown, Siblings
  <2> QED BY <1>1, <2>1, <2>2, <2>3 DEF Nothing
<1>5. CASE detail # Nothing
  <2>1. detail' = Merge(detail, found)
    BY <1>5 DEF FetchSiblingEvents
  <2> HIDE DEF found
  <2>2. /\ detail' \in [root : {target}, from : {"memory", "sqlite"},
                         events : SUBSET (Siblings(target) \X {"memory", "sqlite"})]
        /\ Distinct(detail'.events)
        /\ {e[1] : e \in found} \subseteq {e[1] : e \in detail'.events}
    BY <1>2, <1>5, <2>1, MergeKeeps
  <2>3. Complete'
    BY <1>1, <1>3, <2>2 DEF Complete, Shown, Siblings
  <2> QED BY <1>1, <2>2, <2>3 DEF Nothing
<1> QED BY <1>4, <1>5

\* The handler's own variables stay consistent.
LEMMA HandlerStep ==
  ASSUME StoresInv, HandlerInv, ProgressInv, [Next]_vars PROVE HandlerInv'
<1>1. ASSUME UNCHANGED <<handler, failures>> PROVE HandlerInv'
  BY <1>1 DEF handler, HandlerInv, Siblings, Distinct
<1>2. ASSUME NEW r \in Records, Begin(r) PROVE HandlerInv'
  BY <1>2 DEF Begin, stores, HandlerInv, Nothing
<1>3. ASSUME UNCHANGED <<target, detail, rows, failures>>, target \in Records,
             rows # {} => at' = "sibling events"
      PROVE  HandlerInv'
  BY <1>3 DEF HandlerInv, Siblings, Distinct
<1>4. CASE CallLen
  BY <1>3, <1>4 DEF CallLen, stores, HandlerInv
<1>5. CASE CallRecent
  <2>0. target \in Records /\ rows = {} /\ UNCHANGED <<target, rows, failures>>
    BY <1>5 DEF HandlerInv, CallRecent
  <2>1. CASE target \notin Snapshot
    BY <1>3, <1>5, <2>0, <2>1 DEF CallRecent
  <2>2. CASE target \in Snapshot
    BY <1>5, <2>0, <2>2, MemoryFinds DEF HandlerInv, Siblings, Distinct
  <2> QED BY <2>1, <2>2
<1>6. CASE LoadRequest \/ LoadEvent
  BY <1>3, <1>6 DEF LoadRequest, LoadEvent, FindRoot, HandlerInv
<1>7. CASE FetchSiblingRequests
  <2>1. /\ target \in Records /\ at' = "sibling events"
        /\ rows' \subseteq {<<s, "sqlite">> : s \in Siblings(target)}
        /\ UNCHANGED <<target, detail, failures>>
    BY <1>7 DEF FetchSiblingRequests, HandlerInv
  <2> QED BY <2>1 DEF HandlerInv, Siblings, Distinct
<1>8. CASE FetchSiblingEvents
  <2>1. target \in Records /\ rows' = {} /\ UNCHANGED <<target, failures>>
    BY <1>8 DEF FetchSiblingEvents, HandlerInv
  <2> QED BY <1>8, <2>1, SQLiteFinds DEF HandlerInv, Siblings, Distinct
<1>9. CASE QueryFails
  <2>1. target \in Records /\ rows' = {} /\ UNCHANGED <<target, detail>>
    BY <1>9 DEF QueryFails, HandlerInv
  <2>2. failures \in Nat /\ failures' = failures + 1
    BY <1>9 DEF QueryFails, HandlerInv
  <2>3. failures' \in Nat
    BY <2>2
  <2> QED BY <2>1, <2>3 DEF HandlerInv, Siblings, Distinct
<1>10. ASSUME NEW from, NEW status, from # "idle", from # "sibling events", Answer(from, status)
       PROVE  HandlerInv'
  BY <1>3, <1>10 DEF Answer, HandlerInv
<1>11. CASE Sweep \/ UNCHANGED vars
  BY <1>1, <1>11 DEF Sweep, vars
<1>12. ASSUME NEW r \in Records, WriteMemory(r) \/ WriteSQLite(r) PROVE HandlerInv'
  BY <1>1, <1>12 DEF WriteMemory, WriteSQLite
<1> QED BY <1>2, <1>4, <1>5, <1>6, <1>7, <1>8, <1>9, <1>10, <1>11, <1>12 DEF Next, Handler

\* The search through SQLite keeps its promises at every step.
LEMMA ProgressStep ==
  ASSUME StoresInv, HandlerInv, ProgressInv, [Next]_vars PROVE ProgressInv'
<1>1. ASSUME UNCHANGED <<handler, failures>>, inSQL' \subseteq inSQL PROVE ProgressInv'
  BY <1>1 DEF handler, ProgressInv, Complete, Shown, Siblings
<1>2. ASSUME NEW r \in Records, Begin(r) PROVE ProgressInv'
  BY <1>2 DEF Begin, stores, ProgressInv, StoresInv
<1>3. CASE CallLen
  BY <1>3 DEF CallLen, stores, ProgressInv, Complete, Shown, Siblings
<1>4. CASE CallRecent
  <2>0. /\ UNCHANGED <<target, answer, failures, inSQL>>
        /\ at' \in {"request", "found", "not found"}
        /\ "sqlite" \notin Readers => inSQL = {}
        /\ at' = "not found" => "sqlite" \notin Readers
    BY <1>4 DEF CallRecent, StoresInv
  <2>1. detail # Nothing => Complete'
    <3>1. CASE target \notin Snapshot
      BY <1>4, <3>1 DEF CallRecent, ProgressInv, Complete, Shown, Siblings
    <3>2. CASE target \in Snapshot
      <4>1. detail # Nothing => detail.events \subseteq detail'.events
        BY <1>4, <3>2, MemoryFinds
      <4> QED BY <1>4, <2>0, <4>1 DEF CallRecent, ProgressInv, Complete, Shown, Siblings
    <3> QED BY <3>1, <3>2
  <2>2. at' = "found" /\ detail = Nothing => inSQL = {}
    BY <1>4, <2>0 DEF CallRecent
  <2>3. answer = "none"
    BY <1>4 DEF CallRecent, ProgressInv
  <2> QED BY <2>0, <2>1, <2>2, <2>3 DEF ProgressInv
<1>5. CASE LoadRequest
  BY <1>5 DEF LoadRequest, FindRoot, stores, ProgressInv, StoresInv, Complete, Shown, Siblings
<1>6. CASE LoadEvent
  <2>1. target \in Records /\ target \notin Requests \cap inSQL
    BY <1>6 DEF LoadEvent, FindRoot, HandlerInv, ProgressInv
  <2>2. at' # "sibling requests" => target \notin inSQL
    BY <1>6, <2>1 DEF LoadEvent, FindRoot, StoresInv
  <2> QED BY <1>6, <2>2 DEF LoadEvent, FindRoot, stores, ProgressInv, Complete, Shown, Siblings
<1>7. CASE FetchSiblingRequests
  <2>1. Siblings(target) \cap Requests \cap inSQL \subseteq {e[1] : e \in rows'}
    <3> SUFFICES ASSUME NEW s \in Siblings(target) \cap Requests \cap inSQL
                 PROVE  \E e \in rows' : e[1] = s
      OBVIOUS
    <3>1. <<s, "sqlite">> \in rows'
      BY <1>7 DEF FetchSiblingRequests, StoresInv
    <3> QED BY <3>1
  <2> QED BY <1>7, <2>1 DEF FetchSiblingRequests, stores, ProgressInv, Complete, Shown, Siblings
<1>8. CASE FetchSiblingEvents
  BY <1>8, SQLiteFinds DEF FetchSiblingEvents, stores, ProgressInv
<1>9. CASE QueryFails
  <2>1. failures \in Nat /\ failures' = failures + 1
    BY <1>9 DEF QueryFails, HandlerInv
  <2>2. failures' # 0
    BY <2>1
  <2> QED BY <1>9, <2>2 DEF QueryFails, stores, ProgressInv
<1>10. ASSUME NEW from, NEW status, Answer(from, status),
              <<from, status>> \in {<<"found", "200">>, <<"not found", "404">>, <<"error", "500">>}
       PROVE  ProgressInv'
  BY <1>10 DEF Answer, stores, ProgressInv, Complete, Shown, Siblings
<1>11. CASE Sweep \/ UNCHANGED vars
  BY <1>1, <1>11 DEF Sweep, vars
<1>12. ASSUME NEW r \in Records, WriteMemory(r) \/ WriteSQLite(r) PROVE ProgressInv'
  BY <1>1, <1>12 DEF WriteMemory, WriteSQLite
<1> QED BY <1>2, <1>3, <1>4, <1>5, <1>6, <1>7, <1>8, <1>9, <1>10, <1>11, <1>12 DEF Next, Handler

\* The invariant holds throughout, from the lemmas on its parts.
LEMMA DetailInductive == Spec => []IInv
<1>1. Init => IInv
  <2> SUFFICES ASSUME Init PROVE IInv
    OBVIOUS
  <2>1. StoresInv
    BY DEF Init, StoresInv
  <2>2. HandlerInv /\ ProgressInv
    BY DEF Init, HandlerInv, ProgressInv
  <2> QED BY <2>1, <2>2 DEF IInv
<1>2. IInv /\ [Next]_vars => IInv'
  BY StoresStep, HandlerStep, ProgressStep DEF IInv
<1> QED BY <1>1, <1>2, PTL DEF Spec

\* What SQLite had all the time of the request is found.
THEOREM StoredIsFound == Spec => []DurableFound
<1>1. IInv => DurableFound
  BY DEF IInv, ProgressInv, DurableFound, Answered
<1> QED BY <1>1, DetailInductive, PTL

\* A root that SQLite had all the time is shown with everything related that
\* SQLite had all the time.
THEOREM StoredSiblingsShown == Spec => []SiblingsComplete
<1>1. IInv => SiblingsComplete
  BY DEF IInv, ProgressInv, SiblingsComplete, Answered, Complete, Shown
<1> QED BY <1>1, DetailInductive, PTL

\* The answer lists no record twice and nothing unrelated.
THEOREM NoCopies == Spec => []OneCopy
<1>1. IInv => OneCopy
  <2> SUFFICES ASSUME IInv PROVE OneCopy
    OBVIOUS
  <2>1. CASE detail = Nothing
    BY <2>1 DEF OneCopy, Nothing
  <2>2. CASE detail # Nothing
    BY <2>2 DEF IInv, HandlerInv, Distinct, OneCopy
  <2> QED BY <2>1, <2>2
<1> QED BY <1>1, DetailInductive, PTL

\* The two together: a detail shows the durable siblings of its root, each once.
THEOREM SiblingsAreExact == Spec => []SiblingsExact
  BY StoredSiblingsShown, NoCopies, PTL DEF SiblingsExact

-----------------------------------------------------------------------------
(* The pages of GET /requests.  InspectRoots takes its own view of the stores,
   under the names that InspectDetail has for them. *)

CONSTANTS Rows, Matching, Limit, NoCursor
VARIABLES filtered, cursor, memRows, shown, kept

Roots == INSTANCE InspectRoots

\* A set of rows has a natural number of members.
LEMMA RowsFinite ==
  ASSUME Roots!RootsAssumption, NEW S \in SUBSET Rows PROVE IsFiniteSet(S) /\ Cardinality(S) \in Nat
<1>1. IsFiniteSet(Rows)
  BY DEF Roots!RootsAssumption, Roots!IsFiniteSet, IsFiniteSet
<1> QED BY <1>1, FS_Subset, FS_CardinalityType

\* Newer is a strict total order of the rows.
LEMMA NewerOrder ==
  ASSUME Roots!RootsAssumption, NEW q \in Rows, NEW r \in Rows, NEW s \in Rows
  PROVE  /\ ~Roots!Newer(r, r)
         /\ Roots!Newer(q, r) /\ Roots!Newer(r, s) => Roots!Newer(q, s)
         /\ q # r => Roots!Newer(q, r) \/ Roots!Newer(r, q)
<1>1. q \in [ts : Int, id : Nat] /\ r \in [ts : Int, id : Nat] /\ s \in [ts : Int, id : Nat]
  BY DEF Roots!RootsAssumption
<1>2. /\ q.ts \in Int /\ r.ts \in Int /\ s.ts \in Int
      /\ q.id \in Nat /\ r.id \in Nat /\ s.id \in Nat
      /\ q.ts = r.ts /\ q.id = r.id => q = r
  BY <1>1
<1> QED BY <1>2 DEF Roots!Newer

\* How many rows of S come before r.
Rank(S, r) == Cardinality({s \in S : Roots!Newer(s, r)})

\* A newer row has a smaller rank.
LEMMA RankOrder ==
  ASSUME Roots!RootsAssumption, NEW S \in SUBSET Rows, NEW q \in S, NEW r \in S
  PROVE  /\ Rank(S, r) \in Nat /\ Rank(S, r) < Cardinality(S)
         /\ Roots!Newer(q, r) => Rank(S, q) < Rank(S, r)
         /\ Rank(S, q) = Rank(S, r) => q = r
<1> DEFINE Before(x) == {s \in S : Roots!Newer(s, x)}
<1>1. IsFiniteSet(S) /\ Cardinality(S) \in Nat
  BY RowsFinite
<1>2. ASSUME NEW x \in S
      PROVE  /\ IsFiniteSet(Before(x)) /\ Rank(S, x) = Cardinality(Before(x)) /\ Rank(S, x) \in Nat
             /\ Rank(S, x) < Cardinality(S)
  <2>1. IsFiniteSet(Before(x)) /\ Rank(S, x) = Cardinality(Before(x)) /\ Rank(S, x) \in Nat
    BY <1>1, FS_Subset, FS_CardinalityType DEF Rank
  <2>2. Before(x) \subseteq S \ {x}
    BY NewerOrder
  <2>3. IsFiniteSet(S \ {x}) /\ Cardinality(S \ {x}) = Cardinality(S) - 1
    BY <1>1, FS_RemoveElement
  <2>4. Cardinality(Before(x)) <= Cardinality(S \ {x})
    BY <2>2, <2>3, FS_Subset
  <2> QED BY <1>1, <2>1, <2>3, <2>4
<1>3. ASSUME NEW x \in S, NEW y \in S, Roots!Newer(x, y) PROVE Rank(S, x) < Rank(S, y)
  <2>1. Before(x) \subseteq Before(y) \ {x} /\ x \in Before(y)
    BY <1>3, NewerOrder
  <2>2. IsFiniteSet(Before(y) \ {x}) /\ Cardinality(Before(y) \ {x}) = Cardinality(Before(y)) - 1
    BY <1>2, <2>1, FS_RemoveElement
  <2>3. Cardinality(Before(x)) <= Cardinality(Before(y) \ {x})
    BY <2>1, <2>2, FS_Subset
  <2>4. /\ Rank(S, x) \in Nat /\ Rank(S, y) \in Nat
        /\ Rank(S, x) = Cardinality(Before(x)) /\ Rank(S, y) = Cardinality(Before(y))
    BY <1>2
  <2> HIDE DEF Before
  <2> QED BY <2>2, <2>3, <2>4
<1>4. Rank(S, q) = Rank(S, r) => q = r
  <2>1. Rank(S, q) \in Nat /\ Rank(S, r) \in Nat
    BY <1>2
  <2>2. q # r => Roots!Newer(q, r) \/ Roots!Newer(r, q)
    BY NewerOrder
  <2>3. /\ Roots!Newer(q, r) => Rank(S, q) < Rank(S, r)
        /\ Roots!Newer(r, q) => Rank(S, r) < Rank(S, q)
    BY <1>3
  <2> QED BY <2>1, <2>2, <2>3
<1> QED BY <1>2, <1>3, <1>4

\* InOrder is by rank.
LEMMA ByRank ==
  ASSUME NEW S
  PROVE  Roots!InOrder(S) = [i \in 1..Cardinality(S) |-> CHOOSE r \in S : Rank(S, r) = i - 1]
BY DEF Roots!InOrder, Rank, Roots!Cardinality, Cardinality

\* InOrder lists every row once, newest first.
LEMMA OrderedRows ==
  ASSUME Roots!RootsAssumption, NEW S \in SUBSET Rows
  PROVE  /\ Cardinality(S) \in Nat
         /\ Roots!InOrder(S) \in [1..Cardinality(S) -> S]
         /\ \A r \in S : \E i \in 1..Cardinality(S) : Roots!InOrder(S)[i] = r
         /\ \A i, j \in 1..Cardinality(S) :
              i < j => Roots!Newer(Roots!InOrder(S)[i], Roots!InOrder(S)[j])
<1> DEFINE n == Cardinality(S)
           f == Roots!InOrder(S)
           g == [r \in S |-> Rank(S, r) + 1]
<1>1. IsFiniteSet(S) /\ n \in Nat
  BY RowsFinite
<1>2. g \in Injection(S, 1..n)
  <2>1. ASSUME NEW r \in S PROVE g[r] \in 1..n
    <3>1. Rank(S, r) \in Nat /\ Rank(S, r) < n
      BY RankOrder
    <3> QED BY <1>1, <3>1
  <2>2. ASSUME NEW q \in S, NEW r \in S, g[q] = g[r] PROVE q = r
    <3>1. Rank(S, q) \in Nat /\ Rank(S, r) \in Nat /\ (Rank(S, q) = Rank(S, r) => q = r)
      BY RankOrder
    <3> QED BY <2>2, <3>1
  <2> QED BY <2>1, <2>2 DEF Injection, IsInjective
<1>3. IsFiniteSet(1..n) /\ Cardinality(1..n) = n
  BY <1>1, FS_Interval
<1>4. g \in Surjection(S, 1..n)
  <2> HIDE DEF g, n
  <2> QED BY <1>1, <1>2, <1>3, FS_Injection DEF n
<1>5. ASSUME NEW i \in 1..n PROVE f[i] \in S /\ Rank(S, f[i]) = i - 1
  <2>1. PICK r \in S : g[r] = i
    BY <1>4 DEF Surjection
  <2>2. Rank(S, r) \in Nat
    BY RankOrder
  <2>3. Rank(S, r) = i - 1
    BY <2>1, <2>2
  <2>4. f[i] = CHOOSE x \in S : Rank(S, x) = i - 1
    BY ByRank
  <2> HIDE DEF f
  <2> QED BY <2>3, <2>4
<1>6. f \in [1..n -> S]
  <2> DEFINE e(i) == CHOOSE r \in S : Rank(S, r) = i - 1
  <2>1. f = [i \in 1..n |-> e(i)]
    BY ByRank
  <2> HIDE DEF e, f, n
  <2> QED BY <1>5, <2>1
<1>7. ASSUME NEW r \in S PROVE \E i \in 1..n : f[i] = r
  <2>1. Rank(S, r) \in Nat /\ Rank(S, r) < n
    BY RankOrder
  <2>2. Rank(S, r) + 1 \in 1..n /\ (Rank(S, r) + 1) - 1 = Rank(S, r)
    BY <1>1, <2>1
  <2>3. f[Rank(S, r) + 1] \in S /\ Rank(S, f[Rank(S, r) + 1]) = Rank(S, r)
    BY <1>5, <2>2
  <2>4. f[Rank(S, r) + 1] = r
    <3> HIDE DEF f
    <3> QED BY <2>3, RankOrder
  <2> QED BY <2>2, <2>4
<1>8. ASSUME NEW i \in 1..n, NEW j \in 1..n, i < j PROVE Roots!Newer(f[i], f[j])
  <2>1. /\ f[i] \in S /\ f[j] \in S /\ Rank(S, f[i]) = i - 1 /\ Rank(S, f[j]) = j - 1
    BY <1>5
  <2> HIDE DEF f
  <2>2. f[i] # f[j]
    BY <1>8, <2>1
  <2>3. Roots!Newer(f[j], f[i]) => Rank(S, f[j]) < Rank(S, f[i])
    BY <2>1, RankOrder
  <2>4. ~Roots!Newer(f[j], f[i])
    BY <1>8, <2>1, <2>3
  <2> QED BY <2>1, <2>2, <2>4, NewerOrder
<1> QED BY <1>1, <1>6, <1>7, <1>8

\* A page is the first rows in order, and its cursor the last of them when it does
\* not hold all.
LEMMA PageOf ==
  ASSUME Roots!RootsAssumption, NEW S \in SUBSET Rows
  PROVE  LET page == Roots!Trim(Roots!InOrder(S)) IN
         /\ page.rows \in Seq(S)
         /\ \A i, j \in 1..Len(page.rows) : i < j => Roots!Newer(page.rows[i], page.rows[j])
         /\ page.next = NoCursor => Roots!Range(page.rows) = S
         /\ page.next # NoCursor =>
              /\ Len(page.rows) > 0 /\ page.next = page.rows[Len(page.rows)]
              /\ \A r \in S : Roots!Newer(page.next, r) \/ r \in Roots!Range(page.rows)
<1> DEFINE n == Cardinality(S)
           f == Roots!InOrder(S)
           page == Roots!Trim(f)
<1>1. /\ n \in Nat /\ f \in [1..n -> S]
      /\ \A r \in S : \E i \in 1..n : f[i] = r
      /\ \A i, j \in 1..n : i < j => Roots!Newer(f[i], f[j])
  BY OrderedRows
<1>2. Limit \in Nat \ {0} /\ NoCursor \notin S
  BY DEF Roots!RootsAssumption
<1> HIDE DEF f, n
<1>3. f \in Seq(S) /\ Len(f) = n
  BY <1>1
<1>4. CASE n <= Limit
  <2>1. page.rows = f /\ page.next = NoCursor
    BY <1>1, <1>2, <1>3, <1>4 DEF Roots!Trim
  <2>2. Roots!Range(f) = S
    BY <1>1, <1>3 DEF Roots!Range
  <2>3. \A i, j \in 1..Len(f) : i < j => Roots!Newer(f[i], f[j])
    BY <1>1, <1>3
  <2> HIDE DEF page
  <2>4. \A i, j \in 1..Len(page.rows) : i < j => Roots!Newer(page.rows[i], page.rows[j])
    BY <2>1, <2>3
  <2> QED BY <1>3, <2>1, <2>2, <2>4 DEF page, f
<1>5. CASE n > Limit
  <2> DEFINE g == SubSeq(f, 1, Limit)
  <2>1. page.rows = g /\ page.next = f[Limit]
    BY <1>1, <1>2, <1>3, <1>5 DEF Roots!Trim
  <2>2. g \in Seq(S) /\ Len(g) = Limit /\ \A i \in 1..Limit : g[i] = f[i]
    BY <1>1, <1>2, <1>3, <1>5
  <2>3. f[Limit] \in S /\ f[Limit] = g[Limit]
    BY <1>1, <1>2, <1>5, <2>2
  <2>4. ASSUME NEW i \in 1..Limit, NEW j \in 1..Limit, i < j PROVE Roots!Newer(g[i], g[j])
    BY <1>1, <1>2, <1>5, <2>2, <2>4
  <2>5. ASSUME NEW r \in S PROVE Roots!Newer(f[Limit], r) \/ r \in Roots!Range(g)
    <3>1. PICK i \in 1..n : f[i] = r
      BY <1>1
    <3>2. CASE i <= Limit
      <4>1. i \in 1..Limit /\ g[i] = r /\ 1..Limit = DOMAIN g
        BY <1>2, <2>2, <3>1, <3>2
      <4> HIDE DEF g
      <4> QED BY <4>1 DEF Roots!Range
    <3>3. CASE i > Limit
      BY <1>1, <1>2, <1>5, <3>1, <3>3
    <3> QED BY <1>1, <1>2, <3>2, <3>3
  <2> HIDE DEF g, page
  <2>6. \A i, j \in 1..Len(page.rows) : i < j => Roots!Newer(page.rows[i], page.rows[j])
    BY <2>1, <2>2, <2>4
  <2> QED BY <1>2, <2>1, <2>2, <2>3, <2>5, <2>6 DEF page, f
<1>6. n <= Limit \/ n > Limit
  BY <1>1, <1>2
<1> QED BY <1>4, <1>5, <1>6, Zenon

-----------------------------------------------------------------------------
(* The inductive invariant.  Roots!PagesDescend needs to know where the next page
   starts (Descending), and what comes between two pages is told from the Roots!stores
   (StoresOK); Roots!SQLiteWalkComplete needs what is still to come (Covered). *)

\* SQLite serves the walk alone.
SQLiteAlone == filtered \/ "memory" \notin Readers

\* The stores hold rows, and a snapshot of the ring is not taken beyond its end.
StoresOK ==
  /\ ring \in Seq(Rows) /\ Len(ring) <= Capacity
  /\ sql \in SUBSET Rows /\ toSQL \in SUBSET Rows
  /\ "memory" \notin Readers => ring = <<>>
  /\ "sqlite" \notin Readers => sql = {} /\ toSQL = {}
  /\ at = "recent" => len \in Nat /\ len <= Len(ring)

\* The cursor is the last row shown, and what memory has contributed comes after it.
Descending ==
  /\ shown \in Seq(Rows) /\ cursor \in Rows \cup {NoCursor}
  /\ Roots!PagesDescend
  /\ at # "ended" => IF cursor = NoCursor THEN shown = <<>>
                                         ELSE shown # <<>> /\ cursor = shown[Len(shown)]
  /\ at = "start" => cursor = NoCursor
  /\ at = "fallthrough" => memRows \in Seq(Roots!Below(Rows, cursor))

\* What SQLite alone has kept since the walk began is shown, or comes after the
\* cursor.
Covered ==
  SQLiteAlone =>
    /\ at \notin {"recent", "fallthrough"}
    /\ kept \subseteq sql /\ (filtered => kept \subseteq Matching)
    /\ at = "ended" => kept \subseteq Roots!Range(shown)
    /\ at # "ended" /\ cursor # NoCursor =>
         \A r \in kept : Roots!Newer(cursor, r) \/ r \in Roots!Range(shown)

\* The rows of two lists put together.
LEMMA Joined ==
  ASSUME NEW s \in Seq(Rows), NEW t \in Seq(Rows)
  PROVE  /\ s \o t \in Seq(Rows) /\ Len(s \o t) = Len(s) + Len(t)
         /\ \A i \in 1..Len(s) : (s \o t)[i] = s[i]
         /\ \A i \in 1..Len(t) : (s \o t)[Len(s) + i] = t[i]
         /\ Roots!Range(s \o t) = Roots!Range(s) \cup Roots!Range(t)
<1>1. /\ s \o t \in Seq(Rows) /\ Len(s \o t) = Len(s) + Len(t) /\ Len(s) \in Nat /\ Len(t) \in Nat
      /\ \A i \in 1..Len(s) : (s \o t)[i] = s[i]
      /\ \A i \in 1..Len(t) : (s \o t)[Len(s) + i] = t[i]
  OBVIOUS
<1>2. DOMAIN s = 1..Len(s) /\ DOMAIN t = 1..Len(t) /\ DOMAIN (s \o t) = 1..(Len(s) + Len(t))
  BY <1>1
<1> DEFINE u == s \o t
<1> HIDE DEF u
<1>3. ASSUME NEW x \in Roots!Range(u) PROVE x \in Roots!Range(s) \cup Roots!Range(t)
  <2>1. PICK i \in 1..(Len(s) + Len(t)) : u[i] = x
    BY <1>2, <1>3 DEF Roots!Range, u
  <2>2. CASE i <= Len(s)
    <3>1. i \in 1..Len(s) /\ s[i] = x
      BY <1>1, <2>1, <2>2 DEF u
    <3> QED BY <1>2, <3>1 DEF Roots!Range
  <2>3. CASE i > Len(s)
    <3>1. i - Len(s) \in 1..Len(t) /\ Len(s) + (i - Len(s)) = i
      BY <1>1, <2>1, <2>3
    <3>2. t[i - Len(s)] = x
      BY <1>1, <2>1, <3>1 DEF u
    <3> QED BY <1>2, <3>1, <3>2 DEF Roots!Range
  <2> QED BY <1>1, <2>1, <2>2, <2>3
<1>4. ASSUME NEW x \in Roots!Range(s) \cup Roots!Range(t) PROVE x \in Roots!Range(u)
  <2>1. CASE x \in Roots!Range(s)
    <3>1. PICK i \in 1..Len(s) : s[i] = x
      BY <1>2, <2>1 DEF Roots!Range
    <3>2. i \in 1..(Len(s) + Len(t)) /\ u[i] = x
      BY <1>1, <3>1 DEF u
    <3> QED BY <1>2, <3>2 DEF Roots!Range, u
  <2>2. CASE x \in Roots!Range(t)
    <3>1. PICK i \in 1..Len(t) : t[i] = x
      BY <1>2, <2>2 DEF Roots!Range
    <3>2. Len(s) + i \in 1..(Len(s) + Len(t)) /\ u[Len(s) + i] = x
      BY <1>1, <3>1 DEF u
    <3> QED BY <1>2, <3>2 DEF Roots!Range, u
  <2> QED BY <1>4, <2>1, <2>2
<1>5. Roots!Range(u) = Roots!Range(s) \cup Roots!Range(t)
  BY <1>3, <1>4
<1> QED BY <1>1, <1>5 DEF u

\* A page of rows after the cursor carries the walk on.
LEMMA Delivered ==
  ASSUME Roots!RootsAssumption, Descending, at \notin {"start", "ended"},
         NEW S \in SUBSET Roots!Below(Rows, cursor), Roots!Deliver(Roots!Trim(Roots!InOrder(S)))
  PROVE  /\ Descending'
         /\ Roots!Range(shown) \subseteq Roots!Range(shown')
         /\ at' = "ended" => S \subseteq Roots!Range(shown')
         /\ at' # "ended" => /\ at' = "between" /\ cursor' # NoCursor
                             /\ \A r \in S : Roots!Newer(cursor', r) \/ r \in Roots!Range(shown')
<1> DEFINE page == Roots!Trim(Roots!InOrder(S))
           rs == page.rows
           n == Len(shown)
<1>1. S \in SUBSET Rows
  BY DEF Roots!Below
<1>2. /\ rs \in Seq(S) /\ \A i, j \in 1..Len(rs) : i < j => Roots!Newer(rs[i], rs[j])
      /\ page.next = NoCursor => Roots!Range(rs) = S
      /\ page.next # NoCursor =>
              /\ Len(rs) > 0 /\ page.next = rs[Len(rs)]
              /\ \A r \in S : Roots!Newer(page.next, r) \/ r \in Roots!Range(rs)
  BY <1>1, PageOf, Zenon
<1>3. /\ shown' = shown \o rs /\ cursor' = page.next
      /\ at' = IF page.next = NoCursor THEN "ended" ELSE "between"
  BY DEF Roots!Deliver
<1> HIDE DEF page, rs
<1>4. /\ shown \in Seq(Rows) /\ n \in Nat /\ rs \in Seq(Rows) /\ Len(rs) \in Nat
  BY <1>1, <1>2 DEF Descending
<1>5. /\ shown' \in Seq(Rows) /\ Len(shown') = n + Len(rs)
      /\ \A i \in 1..n : shown'[i] = shown[i]
      /\ \A i \in 1..Len(rs) : shown'[n + i] = rs[i]
      /\ Roots!Range(shown') = Roots!Range(shown) \cup Roots!Range(rs)
  BY <1>3, <1>4, Joined, Zenon
<1>6. ASSUME NEW i \in 1..n, NEW j \in 1..Len(rs) PROVE Roots!Newer(shown[i], rs[j])
  <2>1. cursor # NoCursor /\ cursor = shown[n] /\ n \in 1..n
    BY <1>4, <1>6 DEF Descending
  <2>2. rs[j] \in S /\ Roots!Newer(cursor, rs[j])
    BY <1>2, <1>4, <2>1 DEF Roots!Below
  <2>3. i = n \/ Roots!Newer(shown[i], shown[n])
    BY <1>4, <2>1 DEF Descending, Roots!PagesDescend
  <2>4. shown[i] \in Rows /\ shown[n] \in Rows /\ rs[j] \in Rows
    BY <1>1, <1>4, <2>1, <2>2
  <2> QED BY <2>1, <2>2, <2>3, <2>4, NewerOrder
<1>7. ASSUME NEW i \in 1..Len(shown'), NEW j \in 1..Len(shown'), i < j
      PROVE  Roots!Newer(shown'[i], shown'[j])
  <2>1. CASE j <= n
    <3>1. i \in 1..n /\ j \in 1..n
      BY <1>4, <1>5, <1>7, <2>1
    <3> QED BY <1>5, <1>7, <3>1 DEF Descending, Roots!PagesDescend
  <2>2. CASE i <= n /\ j > n
    <3>1. i \in 1..n /\ j - n \in 1..Len(rs) /\ n + (j - n) = j
      BY <1>4, <1>5, <1>7, <2>2
    <3>2. shown'[i] = shown[i] /\ shown'[j] = rs[j - n]
      BY <1>5, <3>1
    <3> QED BY <1>6, <3>1, <3>2
  <2>3. CASE i > n
    <3>1. /\ i - n \in 1..Len(rs) /\ j - n \in 1..Len(rs) /\ i - n < j - n
          /\ n + (i - n) = i /\ n + (j - n) = j
      BY <1>4, <1>5, <1>7, <2>3
    <3>2. shown'[i] = rs[i - n] /\ shown'[j] = rs[j - n]
      BY <1>5, <3>1
    <3> QED BY <1>2, <3>1, <3>2
  <2> QED BY <1>4, <1>5, <1>7, <2>1, <2>2, <2>3
<1>8. Roots!PagesDescend'
  BY <1>7 DEF Roots!PagesDescend
<1>9. cursor' # NoCursor => /\ cursor' \in Rows /\ shown' # <<>> /\ cursor' = shown'[Len(shown')]
  <2> SUFFICES ASSUME page.next # NoCursor
               PROVE  page.next \in Rows /\ shown' # <<>> /\ page.next = shown'[Len(shown')]
    BY <1>3
  <2>1. Len(rs) \in 1..Len(rs) /\ page.next = rs[Len(rs)]
    BY <1>2, <1>4
  <2>2. shown'[Len(shown')] = page.next /\ Len(shown') > 0
    BY <1>4, <1>5, <2>1
  <2> QED BY <1>4, <2>1, <2>2
<1>10. Descending'
  <2>1. at' \in {"ended", "between"} /\ (at' # "ended" <=> cursor' # NoCursor)
    BY <1>3
  <2> QED BY <1>5, <1>8, <1>9, <2>1, Zenon DEF Descending
<1> QED BY <1>2, <1>3, <1>5, <1>10

-----------------------------------------------------------------------------
\* Every step keeps the stores.
LEMMA StoresOKStep ==
  ASSUME Roots!RootsAssumption, StoresOK, [Roots!Next]_(Roots!vars) PROVE StoresOK'
<1>0. ring \in Seq(Rows) /\ Len(ring) \in Nat /\ Len(ring) <= Capacity /\ Capacity \in Nat \ {0}
  BY DEF StoresOK, Roots!RootsAssumption
<1>1. ASSUME UNCHANGED Roots!stores, at' # "recent" PROVE StoresOK'
  BY <1>1 DEF StoresOK, Roots!stores
<1>2. CASE Roots!AskMemory
  BY <1>0, <1>2 DEF Roots!AskMemory, StoresOK, Roots!stores
<1>3. ASSUME NEW r \in Rows, Roots!Arrive(r) PROVE StoresOK'
  <2>1. /\ UNCHANGED <<sql, at, len>>
        /\ toSQL' \in SUBSET Rows /\ ("sqlite" \notin Readers => toSQL' = toSQL)
    BY <1>3 DEF Roots!Arrive, StoresOK, Roots!walk
  <2>2. CASE "memory" \in Readers
    <3> DEFINE m == Roots!Lesser(Len(ring) + 1, Capacity)
    <3>1. ring' = SubSeq(<<r>> \o ring, 1, m)
      BY <1>3, <2>2 DEF Roots!Arrive
    <3>2. m \in Nat /\ m <= Len(ring) + 1 /\ m <= Capacity /\ Len(ring) <= m
      BY <1>0 DEF Roots!Lesser
    <3>3. <<r>> \o ring \in Seq(Rows) /\ Len(<<r>> \o ring) = Len(ring) + 1
      BY <1>0
    <3> HIDE DEF m
    <3>4. ring' \in Seq(Rows) /\ Len(ring') = m
      <4> DEFINE s == <<r>> \o ring
      <4> HIDE DEF s
      <4>1. s \in Seq(Rows) /\ Len(s) = Len(ring) + 1 /\ ring' = SubSeq(s, 1, m)
        BY <3>1, <3>3 DEF s
      <4> QED BY <1>0, <3>2, <4>1
    <3> QED BY <1>0, <2>1, <2>2, <3>2, <3>4 DEF StoresOK
  <2>3. CASE "memory" \notin Readers
    <3>1. ring' = ring
      BY <1>3, <2>3 DEF Roots!Arrive
    <3> QED BY <2>1, <3>1 DEF StoresOK
  <2> QED BY <2>2, <2>3
<1>4. ASSUME NEW r \in Rows, Roots!Insert(r) \/ Roots!Sweep(r) PROVE StoresOK'
  BY <1>4 DEF Roots!Insert, Roots!Sweep, StoresOK, Roots!walk
<1>5. CASE \/ \E f \in BOOLEAN : Roots!Begin(f)
           \/ Roots!AskSQLite \/ Roots!FallThrough \/ Roots!QueryFails
  BY <1>1, <1>5 DEF Roots!Begin, Roots!AskSQLite, Roots!FallThrough, Roots!QueryFails, Roots!Deliver
<1>6. CASE Roots!MemoryAnswers
  BY <1>1, <1>6 DEF Roots!MemoryAnswers, Roots!Deliver
<1>7. CASE UNCHANGED Roots!vars
  BY <1>7 DEF StoresOK, Roots!vars, Roots!stores, Roots!walk
<1> QED BY <1>2, <1>3, <1>4, <1>5, <1>6, <1>7 DEF Roots!Next, Roots!Request

\* The rows memory has at the time of a snapshot.
LEMMA SnapshotRows ==
  ASSUME StoresOK, at = "recent" PROVE Roots!Snapshot \in SUBSET Rows
BY DEF StoresOK, Roots!Snapshot

\* A delivery is of rows after the cursor.
LEMMA DeliversBelow ==
  ASSUME Roots!RootsAssumption, StoresOK, Descending, Roots!Request
  PROVE  \/ UNCHANGED <<shown, cursor>> /\ at' \notin {"start", "ended", "fallthrough"}
            /\ at \notin {"start", "ended"}
         \/ UNCHANGED <<shown, cursor>> /\ at' = "fallthrough" /\ at \notin {"start", "ended"}
            /\ memRows' \in Seq(Roots!Below(Rows, cursor))
         \/ at \notin {"start", "ended"} /\ Roots!Deliver([rows |-> <<>>, next |-> NoCursor])
         \/ at \notin {"start", "ended"}
            /\ \E S \in SUBSET Roots!Below(Rows, cursor) :
                 Roots!Deliver(Roots!Trim(Roots!InOrder(S)))
<1>1. CASE Roots!AskMemory \/ Roots!QueryFails
  BY <1>1 DEF Roots!AskMemory, Roots!QueryFails
<1>2. CASE Roots!AskSQLite
  <2>1. CASE "sqlite" \notin Readers
    BY <1>2, <2>1 DEF Roots!AskSQLite
  <2>2. CASE "sqlite" \in Readers
    <3> DEFINE S == Roots!Below(IF filtered THEN sql \cap Matching ELSE sql, cursor)
    <3>1. S \in SUBSET Roots!Below(Rows, cursor)
      BY DEF StoresOK, Roots!Below
    <3>2. Roots!Deliver(Roots!Trim(Roots!InOrder(S))) /\ at = "between"
      BY <1>2, <2>2 DEF Roots!AskSQLite, Roots!ReadRoots
    <3> HIDE DEF S
    <3> QED BY <3>1, <3>2
  <2> QED BY <2>1, <2>2
<1>3. CASE Roots!MemoryAnswers
  <2> DEFINE S == Roots!Below(Roots!Snapshot, cursor)
             page == Roots!Trim(Roots!InOrder(S))
  <2>1. at = "recent" /\ S \in SUBSET Roots!Below(Rows, cursor) /\ S \in SUBSET Rows
    BY <1>3, SnapshotRows DEF Roots!MemoryAnswers, Roots!Below
  <2>2. \/ Roots!Deliver(page)
        \/ memRows' = page.rows /\ at' = "fallthrough" /\ UNCHANGED <<cursor, shown>>
    BY <1>3, Zenon DEF Roots!MemoryAnswers, Roots!ReadRoots
  <2>3. page.rows \in Seq(S)
    BY <2>1, PageOf, Zenon
  <2>4. page.rows \in Seq(Roots!Below(Rows, cursor))
    <3> HIDE DEF page, S
    <3> QED BY <2>1, <2>3
  <2> QED BY <2>1, <2>2, <2>4, Zenon
<1>4. CASE Roots!FallThrough
  <2> DEFINE T == Roots!Below(sql, cursor)
             rs == Roots!Trim(Roots!InOrder(T)).rows
             S == Roots!Range(memRows) \cup Roots!Range(rs)
  <2>1. at = "fallthrough" /\ Roots!Deliver(Roots!Trim(Roots!InOrder(S)))
    BY <1>4, Zenon DEF Roots!FallThrough, Roots!Merge, Roots!ReadRoots
  <2>2. T \in SUBSET Roots!Below(Rows, cursor) /\ T \in SUBSET Rows
    BY DEF StoresOK, Roots!Below
  <2>3. rs \in Seq(T)
    BY <2>2, PageOf, Zenon
  <2>4. memRows \in Seq(Roots!Below(Rows, cursor))
    BY <2>1, Zenon DEF Descending
  <2>5. S \in SUBSET Roots!Below(Rows, cursor)
    <3> HIDE DEF T, rs
    <3> QED BY <2>2, <2>3, <2>4 DEF Roots!Range
  <2> HIDE DEF S
  <2> QED BY <2>1, <2>5, Zenon
<1> QED BY <1>1, <1>2, <1>3, <1>4, Zenon DEF Roots!Request

\* An empty last page ends the walk and shows nothing.
LEMMA NothingDelivered ==
  ASSUME Descending, Roots!Deliver([rows |-> <<>>, next |-> NoCursor])
  PROVE  shown' = shown /\ cursor' = NoCursor /\ at' = "ended" /\ Descending'
<1>1. cursor' = NoCursor /\ at' = "ended" /\ shown' = shown \o <<>>
  BY DEF Roots!Deliver
<1>2. shown' = shown
  BY <1>1 DEF Descending
<1>3. Roots!PagesDescend'
  BY <1>2 DEF Descending, Roots!PagesDescend
<1> QED BY <1>1, <1>2, <1>3 DEF Descending

\* Every step keeps the order of what is shown.
LEMMA DescendingStep ==
  ASSUME Roots!RootsAssumption, StoresOK, Descending, [Roots!Next]_(Roots!vars) PROVE Descending'
<1>1. ASSUME UNCHANGED <<shown, cursor, memRows>>, at' = at PROVE Descending'
  BY <1>1 DEF Descending, Roots!PagesDescend, Roots!Below
<1>2. CASE Roots!Request
  <2>1. ASSUME UNCHANGED <<shown, cursor>>,
               at' \notin {"start", "ended"}, at \notin {"start", "ended"},
               at' = "fallthrough" => memRows' \in Seq(Roots!Below(Rows, cursor))
        PROVE  Descending'
    BY <2>1 DEF Descending, Roots!PagesDescend, Roots!Below
  <2>2. ASSUME at \notin {"start", "ended"},
               NEW S \in SUBSET Roots!Below(Rows, cursor),
               Roots!Deliver(Roots!Trim(Roots!InOrder(S)))
        PROVE  Descending'
    BY <2>2, Delivered, Zenon
  <2> QED BY <1>2, <2>1, <2>2, DeliversBelow, NothingDelivered, Zenon
<1>3. ASSUME NEW f \in BOOLEAN, Roots!Begin(f) PROVE Descending'
  BY <1>3 DEF Roots!Begin, Descending, Roots!PagesDescend
<1>4. ASSUME NEW r \in Rows, Roots!Arrive(r) \/ Roots!Insert(r) \/ Roots!Sweep(r) PROVE Descending'
  BY <1>1, <1>4, Zenon DEF Roots!Arrive, Roots!Insert, Roots!Sweep, Roots!walk
<1>5. CASE UNCHANGED Roots!vars
  BY <1>1, <1>5, Zenon DEF Roots!vars, Roots!walk
<1> QED BY <1>2, <1>3, <1>4, <1>5, Zenon DEF Roots!Next

\* What SQLite answers alone covers what it has kept.
LEMMA AnswerCovers ==
  ASSUME Roots!RootsAssumption, StoresOK, Descending, Covered, Roots!AskSQLite PROVE Covered'
<1>1. SQLiteAlone /\ at = "between" /\ filtered' = filtered /\ kept' = kept /\ sql' = sql
  BY DEF Roots!AskSQLite, SQLiteAlone, Roots!stores
<1>2. /\ kept \subseteq sql /\ (filtered => kept \subseteq Matching)
      /\ cursor # NoCursor => \A r \in kept : Roots!Newer(cursor, r) \/ r \in Roots!Range(shown)
  BY <1>1, Zenon DEF Covered
<1>3. CASE "sqlite" \notin Readers
  <2>1. kept = {} /\ at' = "ended"
    BY <1>2, <1>3 DEF StoresOK, Roots!AskSQLite, Roots!Deliver
  <2> QED BY <1>1, <2>1 DEF Covered
<1>4. CASE "sqlite" \in Readers
  <2> DEFINE S == Roots!Below(IF filtered THEN sql \cap Matching ELSE sql, cursor)
  <2>1. S \in SUBSET Roots!Below(Rows, cursor)
    BY DEF StoresOK, Roots!Below
  <2>2. Roots!Deliver(Roots!Trim(Roots!InOrder(S)))
    BY <1>4 DEF Roots!AskSQLite, Roots!ReadRoots
  <2>3. \A r \in kept : r \in S \/ r \in Roots!Range(shown)
    BY <1>2 DEF Roots!Below
  <2> HIDE DEF S
  <2>4. /\ Roots!Range(shown) \subseteq Roots!Range(shown')
        /\ at' = "ended" => S \subseteq Roots!Range(shown')
        /\ at' # "ended" => /\ at' = "between"
                            /\ \A r \in S : Roots!Newer(cursor', r) \/ r \in Roots!Range(shown')
    BY <1>1, <2>1, <2>2, Delivered
  <2>5. at' = "ended" \/ at' = "between"
    BY <2>4
  <2>6. at' = "ended" => kept \subseteq Roots!Range(shown')
    BY <2>3, <2>4
  <2>7. at' # "ended" => \A r \in kept : Roots!Newer(cursor', r) \/ r \in Roots!Range(shown')
    BY <2>3, <2>4, Zenon
  <2> QED BY <1>1, <1>2, <2>5, <2>6, <2>7 DEF Covered
<1> QED BY <1>3, <1>4

\* A change of the stores leaves covered what is kept.
LEMMA StoresCover ==
  ASSUME StoresOK, Covered, NEW r \in Rows, Roots!Arrive(r) \/ Roots!Insert(r) \/ Roots!Sweep(r)
  PROVE  Covered'
<1>1. UNCHANGED Roots!walk /\ kept' \subseteq kept
  BY Zenon DEF Roots!Arrive, Roots!Insert, Roots!Sweep, Roots!Lose
<1>2. SQLiteAlone /\ kept \subseteq sql => kept' \subseteq sql'
  <2>1. CASE Roots!Arrive(r) \/ Roots!Insert(r)
    BY <1>1, <2>1 DEF Roots!Arrive, Roots!Insert
  <2>2. CASE Roots!Sweep(r) /\ SQLiteAlone
    <3>1. /\ sql' = sql \ {r}
          /\ kept' = kept \ {r} \/ (~filtered /\ kept' = kept \ ({r} \ Roots!Range(ring)))
      BY <2>2, Zenon DEF Roots!Sweep, Roots!Lose
    <3>2. ~filtered => Roots!Range(ring) = {}
      BY <2>2 DEF SQLiteAlone, StoresOK, Roots!Range
    <3> QED BY <3>1, <3>2
  <2> QED BY <2>1, <2>2
<1>3. SQLiteAlone' <=> SQLiteAlone
  BY <1>1 DEF SQLiteAlone, Roots!walk
<1> QED BY <1>1, <1>2, <1>3 DEF Covered, Roots!walk

\* Every step keeps covered what SQLite alone has kept.
LEMMA CoveredStep ==
  ASSUME Roots!RootsAssumption, StoresOK, Descending, Covered, [Roots!Next]_(Roots!vars)
  PROVE  Covered'
<1>1. CASE Roots!AskMemory
  BY <1>1 DEF Roots!AskMemory, Covered, SQLiteAlone
<1>2. CASE Roots!MemoryAnswers \/ Roots!FallThrough
  <2>1. ~SQLiteAlone /\ filtered' = filtered
    BY <1>2 DEF Roots!MemoryAnswers, Roots!FallThrough, Covered
  <2> QED BY <2>1 DEF Covered, SQLiteAlone
<1>3. CASE Roots!QueryFails
  <2>1. /\ UNCHANGED <<sql, filtered, cursor, shown, kept>> /\ at' = "between"
        /\ at # "ended"
    BY <1>3 DEF Roots!QueryFails, Roots!stores
  <2> QED BY <2>1 DEF Covered, SQLiteAlone
<1>4. ASSUME NEW f \in BOOLEAN, Roots!Begin(f) PROVE Covered'
  <2>1. /\ at' = "between" /\ cursor' = NoCursor /\ sql' = sql /\ filtered' = f
        /\ kept' = IF f THEN sql \cap Matching ELSE Roots!Range(ring) \cup sql
    BY <1>4 DEF Roots!Begin, Roots!Stored, Roots!stores, Descending
  <2>2. "memory" \notin Readers => Roots!Range(ring) = {}
    BY DEF StoresOK, Roots!Range
  <2> QED BY <2>1, <2>2 DEF Covered, SQLiteAlone
<1>5. CASE UNCHANGED Roots!vars
  BY <1>5 DEF Covered, SQLiteAlone, Roots!vars, Roots!stores, Roots!walk
<1> QED
  BY <1>1, <1>2, <1>3, <1>4, <1>5, AnswerCovers, StoresCover, Zenon DEF Roots!Next, Roots!Request

-----------------------------------------------------------------------------
WalkInv == StoresOK /\ Descending /\ Covered

\* The invariant of the walk.
LEMMA WalkInvariant == ASSUME Roots!RootsAssumption PROVE Roots!Spec => []WalkInv
<1>1. Roots!Init => WalkInv
  <2> SUFFICES ASSUME Roots!Init PROVE WalkInv
    OBVIOUS
  <2>1. StoresOK
    BY DEF Roots!Init, StoresOK, Roots!RootsAssumption
  <2>2. Descending
    BY DEF Roots!Init, Descending, Roots!PagesDescend
  <2>3. Covered
    BY DEF Roots!Init, Covered
  <2> QED BY <2>1, <2>2, <2>3 DEF WalkInv
<1>2. WalkInv /\ [Roots!Next]_(Roots!vars) => WalkInv'
  BY StoresOKStep, DescendingStep, CoveredStep, Zenon DEF WalkInv
<1> QED BY <1>1, <1>2, PTL DEF Roots!Spec

\* A client that follows next_cursor is never given a row out of order or twice.
THEOREM WalkDescends == ASSUME Roots!RootsAssumption PROVE Roots!Spec => []Roots!PagesDescend
<1>1. WalkInv => Roots!PagesDescend
  BY Zenon DEF WalkInv, Descending
<1> QED BY <1>1, WalkInvariant, PTL

\* A walk that SQLite serves alone has shown, when it ends, every matching row
\* that was stored from its first request on.
THEOREM SQLiteWalksAreComplete ==
  ASSUME Roots!RootsAssumption PROVE Roots!Spec => []Roots!SQLiteWalkComplete
<1>1. WalkInv => Roots!SQLiteWalkComplete
  BY Zenon DEF WalkInv, Covered, SQLiteAlone, Roots!SQLiteWalkComplete
<1> QED BY <1>1, WalkInvariant, PTL
=============================================================================
