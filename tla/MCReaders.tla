------------------------------ MODULE MCReaders ------------------------------
(* The readers of the two sinks, in three parts that share no state: the ring,
   the answers of both readers to a search, and the services page over SQLite and
   over the ring.  The scenario says which of them a behaviour is about; the
   others rest in their initial state. *)
EXTENDS MCMemorySink

CONSTANT Null

VARIABLES
  scenario,
  stored, asked, mem, sql,                   \* of Search
  db, pc, since, stats, seen, kept, met      \* of ServiceActivity

-----------------------------------------------------------------------------
(* Three requests and five events, queries of one and two terms. *)

\* "a_b" read as a LIKE pattern also stands for "axb".
Words == {"ab", "AB", "a_b", "axb", "ab-axb", "Host", "host", "Tag", "tag"}

MCPrefix == {<<w, w>> : w \in Words} \cup {<<"ab", "ab-axb">>}

MCSub == MCPrefix \cup {<<"axb", "ab-axb">>}

MCToLower == [w \in Words |->
  CASE w = "AB" -> "ab" [] w = "Host" -> "host" [] w = "Tag" -> "tag" [] OTHER -> w]

Patterns == Words \cup {"a\\_b"}

MCEscape == [w \in Words |-> IF w = "a_b" THEN "a\\_b" ELSE w]

MCDenotes == [p \in Patterns |->
  CASE p = "a_b" -> {"a_b", "axb"} [] p = "a\\_b" -> {"a_b"} [] OTHER -> {p}]

MCJson == [w \in Words |-> w]

MCLower == [w \in Words \cup {"{}"} |-> IF w = "{}" THEN w ELSE MCToLower[w]]

Rq(id, ts, corr, service, path, host, tag, body) ==
  [id |-> id, kind |-> "request", ts |-> ts, corr |-> corr, service |-> service,
   method |-> IF ts = 1 THEN "GET" ELSE "PUT", path |-> path, ip |-> "ip", body |-> body,
   headers |-> {<<"Host", host>>, <<"Tag", tag>>}]

Rs(id, ts, corr, service, status, tag, body) ==
  [id |-> id, kind |-> "response", ts |-> ts, corr |-> corr, service |-> service,
   status |-> status, headers |-> {<<"Tag", tag>>}, body |-> body]

Half(tag, body) == [headers |-> {<<"Tag", tag>>}, body |-> body]

Ob(id, ts, corr, service, path, request, response) ==
  [id |-> id, kind |-> "outbound", ts |-> ts, corr |-> corr, service |-> service,
   path |-> path, request |-> request, response |-> response]

SearchRecords ==
  {Rq("q1", 1, "c1", "ab", "a_b", "ab", "AB", "axb"),
   Rq("q2", 2, "c2", "axb", "ab-axb", "axb", "a_b", "AB"),
   Rq("q3", 3, "c1", "ab-axb", "ab", "ab", "axb", "ab"),
   Rs("p1", 3, "c1", "ab", 200, "a_b", "AB"),
   Rs("p3", 2, "c1", "axb", 404, "axb", "ab"),
   Rs("p2", 4, "c3", "axb", 503, "ab", "axb"),
   Ob("o1", 4, "c2", "ab", "axb", Half("ab", "axb"), Half("axb", "ab")),
   Ob("o2", 5, "c3", "ab-axb", "ab", Half("a_b", "AB"), Null)}

Values == {"ab", "AB", "a_b", "axb"}

Term(field, value, wildcard, negated) ==
  [field |-> field, value |-> value, wildcard |-> wildcard, negated |-> negated]

IndexedTerms ==
  {Term(f, v, w, s) : f \in {"", "host", "path", "service"}, v \in Values,
                      w \in {"none", "prefix", "substring"}, s \in BOOLEAN}

ScannedTerms ==
  {Term(f, v, "none", s) : f \in {"body", "headers"}, v \in Values, s \in BOOLEAN}
  \cup {[field |-> "header", name |-> n, value |-> v, wildcard |-> "none", negated |-> s] :
          n \in {"Tag", "Host"}, v \in {"ab", "a_b"}, s \in BOOLEAN}

StructuredTerms ==
  {Term("method", "GET", "none", s) : s \in BOOLEAN}
  \cup {Term("source_ip", "ip", "none", s) : s \in BOOLEAN}
  \cup {Term("correlation_id", c, "none", s) : c \in {"c1", "c3"}, s \in BOOLEAN}

JoinTerms ==
  {[field |-> "status", lo |-> 200, hi |-> hi, negated |-> s] : hi \in {200, 299}, s \in BOOLEAN}
  \cup {[field |-> "has_events", want |-> b, negated |-> s] : b \in BOOLEAN, s \in BOOLEAN}

Terms == IndexedTerms \cup ScannedTerms \cup StructuredTerms \cup JoinTerms

PairTerms ==
  {Term("", "ab", "prefix", TRUE), Term("service", "ab", "none", FALSE),
   Term("body", "AB", "none", FALSE), Term("headers", "a_b", "none", FALSE),
   Term("correlation_id", "c3", "none", TRUE), [field |-> "has_events", want |-> TRUE, negated |-> FALSE]}

Asks(from, to, terms) == [since |-> from, until |-> to, terms |-> terms]

MCQueries ==
  {Asks(0, 9, {t}) : t \in Terms} \cup {Asks(0, 9, {t, u}) : t, u \in PairTerms}

\* Windows that do and do not divide into the buckets, one narrower than them,
\* and an empty one.
WindowQueries == {Asks(s, u, {}) : s \in 0..2, u \in 0..6}

S == INSTANCE Search WITH
  Records <- SearchRecords, Queries <- MCQueries \cup WindowQueries, Buckets <- {2, 3},
  Prefix <- MCPrefix, Sub <- MCSub, ToLower <- MCToLower, Lower <- MCLower,
  Json <- MCJson, Punct <- "{}", Escape <- MCEscape, Denotes <- MCDenotes

-----------------------------------------------------------------------------
(* Two services with records of every kind. *)

Rec(id, kind, ts, service, status) ==
  [id |-> id, kind |-> kind, ts |-> ts, service |-> service, status |-> status]

ActivityRecords ==
  {Rec(1, "request", 1, "a", 0), Rec(2, "request", 2, "a", 0), Rec(3, "request", 3, "b", 0),
   Rec(4, "response", 1, "a", 200), Rec(5, "response", 2, "a", 503),
   Rec(6, "response", 3, "b", 700), Rec(7, "outbound", 3, "a", 0)}

OverSQLite == INSTANCE ServiceActivity WITH
  Records <- ActivityRecords, Services <- {"a", "b"}, Enabled <- {"memory", "sqlite"},
  Sinces <- {0, 2, 3}

OverMemory == INSTANCE ServiceActivity WITH
  Records <- ActivityRecords, Services <- {"a", "b"}, Enabled <- {"memory"},
  Sinces <- {0, 2, 3}

-----------------------------------------------------------------------------
search == <<stored, asked, mem, sql>>
activity == <<db, pc, since, stats, seen, kept, met>>

MCInit ==
  /\ scenario \in {"ring", "search", "services", "services of the ring"}
  /\ Init /\ S!Init /\ OverSQLite!Init

MCNext ==
  /\ UNCHANGED scenario
  /\ \/ scenario = "ring" /\ Next /\ UNCHANGED <<search, activity>>
     \/ scenario = "search" /\ S!Next /\ UNCHANGED <<vars, activity>>
     \/ scenario = "services" /\ OverSQLite!Next /\ UNCHANGED <<vars, search>>
     \/ scenario = "services of the ring" /\ OverMemory!Next /\ UNCHANGED <<vars, search>>

MCSpec == MCInit /\ [][MCNext]_<<scenario, vars, search, activity>>

-----------------------------------------------------------------------------
\* On terms that need no join the compiled SQL and the compiled predicate select
\* the same rows and count the same events; a row that the memory reader finds by
\* positive terms is found by the SQLite reader as well; and in SQL a term other
\* than status and its negation split the requests that the other terms select.
ReadersAgree == S!ReadersAgree /\ S!MemoryWithinSQLite /\ S!NegationSplits

\* Every matching row is counted once, in the bucket whose edges enclose it.
HistogramExact == S!HistogramExact

\* A card counts at least what was stored throughout the queries and at most what
\* was stored at some time during them, and a service offered in the list of the
\* explorer has a card, over either store.  Over the ring the cards are those of
\* the services in the list, and LastSeen is the time of the last record of any
\* kind, as the comments of Reader.ServiceStats and ServiceStat say.
StatsFaithful ==
  /\ OverSQLite!StatsBounded /\ OverSQLite!SeenHaveCards
  /\ scenario = "services of the ring" =>
       OverMemory!ServicesMatchSeen /\ OverMemory!LastSeenAnyKind
==============================================================================
