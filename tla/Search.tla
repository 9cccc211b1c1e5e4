------------------------------- MODULE Search -------------------------------
(***************************************************************************)
(* A parsed search query answered by the two readers: ReadRoots and        *)
(* AggregateRoots of MemorySink, which run compiled predicates over the    *)
(* ring, and those of SQLiteSink, which run compiled SQL with its          *)
(* three-valued logic over what the writer stored.  Every record goes to   *)
(* both sinks and the ring is large enough, so the two hold the same       *)
(* records and differ only in how they answer.                             *)
(*                                                                         *)
(* Texts are words; which word is a prefix or a part of which, what the    *)
(* case foldings, the JSON encoding and the LIKE escape make of a word,    *)
(* are constants.  A query is a set of terms, all of which must match.     *)
(***************************************************************************)
EXTENDS Integers, FiniteSets, FiniteSetsExt

CONSTANTS
  Records,   \* the records that may be written
  Queries,   \* the queries that may be asked: [since, until, terms]
  Buckets,   \* the histogram sizes that may be asked for
  Null,      \* SQL NULL and the nil pointer
  Prefix,    \* <<v, s>>: s begins with v
  Sub,       \* <<v, s>>: s contains v
  ToLower,   \* strings.ToLower
  Lower,     \* LOWER of SQLite, which folds ASCII only
  Json,      \* json.Marshal of a string, without its quotes
  Punct,     \* the punctuation of the JSON object the headers are stored as
  Escape,    \* escapeLike
  Denotes    \* the texts a LIKE pattern stands for, with ESCAPE '\'

VARIABLES
  stored,    \* the records in the ring and in the database
  asked,     \* the query last asked, Null when a record was written since
  mem, sql   \* what each reader answered: [rows, total, buckets]

vars == <<stored, asked, mem, sql>>

Requests(db) == {r \in db : r.kind = "request"}

Events(db) == db \ Requests(db)

EventsOf(db, corr) == {e \in Events(db) : e.corr = corr}

IsOrphan(db, e) == ~ \E r \in Requests(db) : r.corr = e.corr

InWindow(q, ts) == q.since <= ts /\ ts < q.until

\* Queries with such a term leave the orphan events out.
HasRequestOnlyTerm(q) ==
  \E t \in q.terms :
    t.field \in {"host", "path", "method", "source_ip", "body", "has_events"}

hostOf(r) ==
  LET hosts == {h[2] : h \in {p \in r.headers : p[1] = "Host"}}
  IN IF hosts = {} THEN "" ELSE CHOOSE h \in hosts : TRUE

-----------------------------------------------------------------------------
(* Predicates over the ring. *)

matchString(s, t) ==
  CASE t.wildcard = "prefix" -> <<t.value, s>> \in Prefix
    [] t.wildcard = "substring" -> <<t.value, s>> \in Sub
    [] OTHER -> s = t.value

bodyContainsFold(s, v) == <<ToLower[v], ToLower[s]>> \in Sub

HeadersAny(headers, v) ==
  \E h \in headers : bodyContainsFold(h[1], v) \/ bodyContainsFold(h[2], v)

HeaderValueContains(headers, name, v) ==
  \E h \in headers : h[1] = name /\ bodyContainsFold(h[2], v)

MatchFreeformRequest(t, r) ==
  \/ \E s \in {hostOf(r), r.path, r.service} : matchString(s, t)
  \/ bodyContainsFold(r.body, t.value)
  \/ HeadersAny(r.headers, t.value)

evaluateTerm(t, r) ==
  CASE t.field = "" -> MatchFreeformRequest(t, r)
    [] t.field = "host" -> matchString(hostOf(r), t)
    [] t.field = "path" -> matchString(r.path, t)
    [] t.field = "service" -> matchString(r.service, t)
    [] t.field = "body" -> bodyContainsFold(r.body, t.value)
    [] t.field = "headers" -> HeadersAny(r.headers, t.value)
    [] t.field = "header" -> HeaderValueContains(r.headers, t.name, t.value)
    [] t.field = "method" -> r.method = t.value
    [] t.field = "source_ip" -> r.ip = t.value
    [] t.field = "correlation_id" -> r.corr = t.value

\* Status and has_events match every request, negated or not.
matchTerm(t, r) ==
  t.field \in {"status", "has_events"} \/ evaluateTerm(t, r) # t.negated

InClass(status, t) == t.lo <= status /\ status <= t.hi

MatchFreeformResponseEvent(t, e) ==
  \/ matchString(e.service, t)
  \/ bodyContainsFold(e.body, t.value)
  \/ HeadersAny(e.headers, t.value)

MatchFreeformOutboundEvent(t, e) ==
  \/ matchString(e.service, t) \/ matchString(e.path, t)
  \/ \E half \in {e.request, e.response} \ {Null} :
       bodyContainsFold(half.body, t.value) \/ HeadersAny(half.headers, t.value)

matchOrphanResponse(t, e) ==
  t.negated #
    CASE t.field = "" -> MatchFreeformResponseEvent(t, e)
      [] t.field = "status" -> InClass(e.status, t)
      [] t.field = "headers" -> HeadersAny(e.headers, t.value)
      [] t.field = "header" -> HeaderValueContains(e.headers, t.name, t.value)
      [] t.field = "service" -> matchString(e.service, t)
      [] t.field = "correlation_id" -> e.corr = t.value

\* An outbound event has no status: a status term excludes it, negated or not.
matchOrphanOutbound(t, e) ==
  LET halves == {e.request, e.response} \ {Null} IN
  t.field # "status" /\ t.negated #
    CASE t.field = "" -> MatchFreeformOutboundEvent(t, e)
      [] t.field = "headers" -> \E h \in halves : HeadersAny(h.headers, t.value)
      [] t.field = "header" ->
           \E h \in halves : HeaderValueContains(h.headers, t.name, t.value)
      [] t.field = "service" -> matchString(e.service, t)
      [] t.field = "correlation_id" -> e.corr = t.value

matchOrphan(t, e) ==
  IF e.kind = "response" THEN matchOrphanResponse(t, e) ELSE matchOrphanOutbound(t, e)

Row(r, status, count) ==
  [id |-> r.id, kind |-> r.kind, ts |-> r.ts, status |-> status, events |-> count]

MemoryRoots(db, q) ==
  {Row(r, Null, Cardinality(EventsOf(db, r.corr))) : r \in
     {x \in Requests(db) : InWindow(q, x.ts) /\ \A t \in q.terms : matchTerm(t, x)}}
  \cup
  {Row(e, IF e.kind = "response" THEN e.status ELSE Null, Null) : e \in
     {x \in Events(db) : /\ ~HasRequestOnlyTerm(q) /\ InWindow(q, x.ts)
                         /\ IsOrphan(db, x)
                         /\ \A t \in q.terms : matchOrphan(t, x)}}

-----------------------------------------------------------------------------
(* The columns, as the writer fills them.  A text column is the set of the *)
(* words it is made of, or Null.                                           *)

HeadersColumn(headers) ==
  {Json[h[1]] : h \in headers} \cup {Json[h[2]] : h \in headers} \cup {Punct}

request_path(e) == IF e.kind = "outbound" THEN e.path ELSE Null

request_headers(e) ==
  IF e.kind = "outbound" THEN HeadersColumn(e.request.headers) ELSE Null

request_body(e) == IF e.kind = "outbound" THEN {e.request.body} ELSE Null

response_headers(e) ==
  CASE e.kind = "response" -> HeadersColumn(e.headers)
    [] e.response = Null -> Null
    [] OTHER -> HeadersColumn(e.response.headers)

response_body(e) ==
  CASE e.kind = "response" -> {e.body}
    [] e.response = Null -> Null
    [] OTHER -> {e.response.body}

\* The header maps json_extract finds in the two header columns.
HeaderMaps(e) ==
  IF e.kind = "response" THEN {e.headers}
  ELSE {half.headers : half \in {e.request, e.response} \ {Null}}

-----------------------------------------------------------------------------
(* SQL over the columns: TRUE, FALSE or Null. *)

Not3(x) == IF x = Null THEN Null ELSE ~x

Or3(values) == IF TRUE \in values THEN TRUE ELSE IF Null \in values THEN Null ELSE FALSE

\* Mutant: the needle is bound as it is, with its metacharacters alive.
escapeLike_Raw(v) == v

escapeLike(v) == Escape[v]

indexedPredicate(s, t) ==
  CASE s = Null -> Null
    [] t.wildcard = "prefix" -> \E d \in Denotes[escapeLike(t.value)] : <<d, s>> \in Prefix
    [] t.wildcard = "substring" -> \E d \in Denotes[escapeLike(t.value)] : <<d, s>> \in Sub
    [] OTHER -> s = t.value

scannedTextLike(text, v) ==
  IF text = Null THEN Null
  ELSE \E s \in text, d \in Denotes[escapeLike(ToLower[v])] : <<d, Lower[s]>> \in Sub

\* EXISTS over json_each(json_extract(column, name)): never NULL.
headerNamed(headers, t) ==
  \E h \in headers, d \in Denotes[escapeLike(ToLower[t.value])] :
    h[1] = t.name /\ <<d, Lower[h[2]]>> \in Sub

\* The parts of an event that a freeform term looks at, apart from its service.
freeformEvent(t, e) ==
  Or3({indexedPredicate(request_path(e), t),
       scannedTextLike(request_body(e), t.value),
       scannedTextLike(request_headers(e), t.value),
       scannedTextLike(response_body(e), t.value),
       scannedTextLike(response_headers(e), t.value)})

\* cr.id IN (SELECT ... UNION ...): never NULL.
freeformPredicate(t, r, db) ==
  \/ \E s \in {hostOf(r), r.path, r.service} : indexedPredicate(s, t)
  \/ scannedTextLike({r.body}, t.value)
  \/ scannedTextLike(HeadersColumn(r.headers), t.value)
  \/ \E e \in EventsOf(db, r.corr) : freeformEvent(t, e) = TRUE

headersAnyPredicate(t, r, db) ==
  \/ scannedTextLike(HeadersColumn(r.headers), t.value)
  \/ \E e \in EventsOf(db, r.corr) :
       Or3({scannedTextLike(request_headers(e), t.value),
            scannedTextLike(response_headers(e), t.value)}) = TRUE

headerNamedPredicate(t, r, db) ==
  \/ headerNamed(r.headers, t)
  \/ \E e \in EventsOf(db, r.corr) : \E h \in HeaderMaps(e) : headerNamed(h, t)

Signed(t, x) == IF t.negated THEN Not3(x) ELSE x

compileTermSQL(t, r, db) ==
  CASE t.field = "" -> Signed(t, freeformPredicate(t, r, db))
    [] t.field = "host" -> Signed(t, indexedPredicate(hostOf(r), t))
    [] t.field = "path" -> Signed(t, indexedPredicate(r.path, t))
    [] t.field = "service" -> Signed(t, indexedPredicate(r.service, t))
    [] t.field = "body" -> Signed(t, scannedTextLike({r.body}, t.value))
    [] t.field = "headers" -> Signed(t, headersAnyPredicate(t, r, db))
    [] t.field = "header" -> Signed(t, headerNamedPredicate(t, r, db))
    [] t.field = "method" -> Signed(t, r.method = t.value)
    [] t.field = "source_ip" -> Signed(t, r.ip = t.value)
    [] t.field = "correlation_id" -> Signed(t, r.corr = t.value)
    [] OTHER -> TRUE

\* MAX(CASE WHEN e.type = 'response' THEN e.status ELSE NULL END)
JoinedStatus(r, db) ==
  LET statuses == {e.status : e \in {x \in EventsOf(db, r.corr) : x.kind = "response"}}
  IN IF statuses = {} THEN Null ELSE Max(statuses)

CompileSQLHaving(t, r, db) ==
  CASE t.field = "status" ->
         Signed(t, IF JoinedStatus(r, db) = Null THEN Null
                   ELSE InClass(JoinedStatus(r, db), t))
    [] t.field = "has_events" ->
         Signed(t, t.want = (EventsOf(db, r.corr) # {}))
    [] OTHER -> TRUE

\* FALSE AND NULL is FALSE: an outbound event is never of the status asked for.
CompileSQLOrphans(t, e) ==
  Signed(t,
    CASE t.field = "service" -> indexedPredicate(e.service, t)
      [] t.field = "correlation_id" -> e.corr = t.value
      [] t.field = "headers" -> Or3({scannedTextLike(request_headers(e), t.value),
                                     scannedTextLike(response_headers(e), t.value)})
      [] t.field = "header" -> \E h \in HeaderMaps(e) : headerNamed(h, t)
      [] t.field = "status" -> e.kind = "response" /\ InClass(e.status, t)
      [] t.field = "" -> indexedPredicate(e.service, t) \/ freeformEvent(t, e) = TRUE)

SQLiteRoots(db, q) ==
  {Row(r, JoinedStatus(r, db), Cardinality(EventsOf(db, r.corr))) : r \in
     {x \in Requests(db) :
        InWindow(q, x.ts) /\ \A t \in q.terms : /\ compileTermSQL(t, x, db) = TRUE
                                                /\ CompileSQLHaving(t, x, db) = TRUE}}
  \cup
  {Row(e, IF e.kind = "response" THEN e.status ELSE Null, Null) : e \in
     {x \in Events(db) : /\ ~HasRequestOnlyTerm(q) /\ InWindow(q, x.ts)
                         /\ IsOrphan(db, x)
                         /\ \A t \in q.terms : CompileSQLOrphans(t, x) = TRUE}}

-----------------------------------------------------------------------------
(* AggregateRoots: the number of matching rows, and how many of each class *)
(* of status fall into each of n buckets of the window.                    *)

statusClass(s) ==
  IF s # Null /\ s >= 200 /\ s < 600 THEN s \div 100 ELSE 0

BucketWidth(q, n) ==
  IF (q.until - q.since) \div n <= 0 THEN 1 ELSE (q.until - q.since) \div n

\* Mutant: the rows after the last whole bucket fall off the end.
BucketIndex_NoClamp(q, n, ts) == (ts - q.since) \div BucketWidth(q, n)

BucketIndex(q, n, ts) ==
  Min({(ts - q.since) \div BucketWidth(q, n), n - 1})

Histogram(rows, q, n) ==
  [b \in 0..(n - 1), class \in {0, 2, 3, 4, 5} |->
     Cardinality({r \in rows : BucketIndex(q, n, r.ts) = b /\ statusClass(r.status) = class})]

AggregateRoots(rows, q, n) ==
  [rows |-> rows, total |-> Cardinality(rows),
   buckets |-> IF q.until > q.since THEN Histogram(rows, q, n) ELSE <<>>]

-----------------------------------------------------------------------------
NoAnswer == [rows |-> {}, total |-> 0, buckets |-> <<>>]

Init ==
  /\ stored = {}
  /\ asked = Null
  /\ mem = NoAnswer
  /\ sql = NoAnswer

Write(r) ==
  /\ r \notin stored
  /\ stored' = stored \cup {r}
  /\ asked' = Null
  /\ mem' = NoAnswer
  /\ sql' = NoAnswer

\* Both readers are asked, although gatherRoots and gatherAggregation would ask
\* one of them, depending on which sinks are enabled.
Ask(q, n) ==
  /\ asked = Null
  /\ asked' = [query |-> q, n |-> n]
  /\ mem' = AggregateRoots(MemoryRoots(stored, q), q, n)
  /\ sql' = AggregateRoots(SQLiteRoots(stored, q), q, n)
  /\ UNCHANGED stored

Next ==
  \/ \E r \in Records : Write(r)
  \/ \E q \in Queries, n \in Buckets : Ask(q, n)

Spec == Init /\ [][Next]_vars

-----------------------------------------------------------------------------
Listed(answer) == {[id |-> r.id, kind |-> r.kind, events |-> r.events] : r \in answer.rows}

Scanned == {"", "headers", "header"}

\* Terms both readers can answer from the same data: no join with the events of
\* a request, and no NULL under a negation.
Comparable(q) ==
  \A t \in q.terms :
    /\ t.field \notin {"status", "has_events"}
    /\ t.field \in Scanned => \A r \in Requests(stored) : EventsOf(stored, r.corr) = {}
    /\ ~(t.field = "headers" /\ t.negated)

\* On terms that need no join the compiled SQL and the compiled predicate select
\* the same rows and count the same events: escaping, case folding and negation
\* do in LIKE what strings.Contains and strings.HasPrefix do.
ReadersAgree ==
  asked # Null /\ Comparable(asked.query) => Listed(mem) = Listed(sql)

\* A row that the memory reader finds by positive terms is found by the SQLite
\* reader as well: looking at the events of a request only ever adds rows.
MemoryWithinSQLite ==
  asked # Null /\ (\A t \in asked.query.terms :
                     ~t.negated /\ t.field \notin {"status", "has_events"})
    => {r.id : r \in mem.rows} \subseteq {r.id : r \in sql.rows}

RequestIds(q) == {r.id : r \in {x \in SQLiteRoots(stored, q) : x.kind = "request"}}

Flip(q, t) == [q EXCEPT !.terms = (@ \ {t}) \cup {[t EXCEPT !.negated = ~@]}]

Drop(q, t) == [q EXCEPT !.terms = @ \ {t}]

Splits(t) ==
  LET q == asked.query IN
  /\ RequestIds(q) \cap RequestIds(Flip(q, t)) = {}
  /\ RequestIds(q) \cup RequestIds(Flip(q, t)) = RequestIds(Drop(q, t))

\* In SQL a term other than status and its negation split the requests that the
\* other terms select: no NULL makes a request match neither.
NegationSplits ==
  asked # Null => \A t \in asked.query.terms : t.field # "status" => Splits(t)

\* Upper edge of a bucket: the next bucket's start, or the end of the window.
InBucket(q, n, b, ts) ==
  LET start(i) == q.since + i * BucketWidth(q, n) IN
  start(b) <= ts /\ (b = n - 1 \/ ts < start(b + 1))

\* Every matching row is counted once, in the bucket whose edges enclose its
\* timestamp, whatever is left over when the window is divided: the last bucket
\* takes it, and a window narrower than its buckets has buckets of one.
HistogramExact ==
  asked # Null /\ asked.query.until > asked.query.since =>
    \A answer \in {mem, sql} :
      /\ answer.total = Cardinality(answer.rows)
      /\ MapThenSumSet(LAMBDA k : answer.buckets[k], DOMAIN answer.buckets) = answer.total
      /\ \A k \in DOMAIN answer.buckets :
           answer.buckets[k] = Cardinality({r \in answer.rows :
             InBucket(asked.query, asked.n, k[1], r.ts) /\ statusClass(r.status) = k[2]})

=============================================================================
