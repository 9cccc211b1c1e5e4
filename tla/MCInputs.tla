------------------------------ MODULE MCInputs ------------------------------
(* What is given to httpcatch from outside, part by part: requests and posted
   events, rule sets and the records they are applied to, configurations, and the
   queries of the search box.  No part uses the state of another, so a behaviour
   is about one of them, the scenario, and the others rest in their initial
   state.  Configurations and queries have three scenarios each: one state space
   for each group of settings, or of symbols, that interact. *)
EXTENDS Integers, Sequences, SequencesExt, TLC

CONSTANTS Null, Unset, Empty, Bad

VARIABLES
  scenario,
  arrived, request, posted, outcome, event,                              \* of Ingest
  rules, refused, before, after, errors, diff,                           \* of Redaction
  yaml, env, phase, step, cfg, handles, listeners, sweeper, warnings,    \* of Startup
  q, at, chips, input, qHidden                                           \* of SearchBox

-----------------------------------------------------------------------------
(* Ingest: every class of header and of event once. *)

IngestWords == {"", " ", "svc", "Svc", " Svc ", "host", "bad", "id", " id ", "T", "t", "long",
          "other", "fresh", "unknown", "GET", "/"}

TrimWord == [w \in IngestWords |->
  CASE w = " " -> "" [] w = " Svc " -> "Svc" [] w = " id " -> "id" [] OTHER -> w]

LowerWord == [w \in IngestWords |->
  CASE w = "Svc" -> "svc" [] w = " Svc " -> " svc " [] w = "T" -> "t" [] OTHER -> w]

TP(parts, version, id, hex) == [parts |-> parts, version |-> version, id |-> id, hex |-> hex]

Arrival(s, name, tp, rid, len) ==
  [service |-> s, host |-> [name |-> name, port |-> TRUE], traceparent |-> tp, rid |-> rid,
   body |-> len]

Traceparents ==
  {Null, TP(3, "00", "T", TRUE), TP(4, "01", "T", TRUE), TP(4, "00", "T", FALSE),
   TP(4, "00", "T", TRUE)}

Arrivals ==
  {Arrival(s, n, Null, "id", 0) : s \in {"", " ", "bad", " Svc "}, n \in {"", "bad", "host"}}
  \cup {Arrival("svc", "host", tp, rid, 0) : tp \in Traceparents, rid \in {"", " ", " id ", "long"}}
  \cup {Arrival("svc", "host", Null, "id", len) : len \in 0..4}

Side(len, status, method, path) ==
  [body |-> len, status |-> status, method |-> method, path |-> path]

Item(type, service, status, duration, len, rq, rs) ==
  [json |-> TRUE, type |-> type, service |-> service, status |-> status,
   duration |-> duration, body |-> len, request |-> rq, response |-> rs]

Posts ==
  {Item("response", s, st, d, len, Null, Null) :
     s \in {"", " Svc ", "svc", "bad"}, st \in {Null, 200}, d \in {Null, 1}, len \in 1..3}
  \cup {Item("outbound", "svc", Null, d, 0, rq, rs) :
          d \in {Null, 1},
          rq \in {Null, Side(1, Null, "GET", "/"), Side(3, Null, "GET", "/"),
                  Side(0, Null, " ", "/"), Side(0, Null, "GET", "")},
          rs \in {Null, Side(2, 200, "", ""), Side(3, 200, "", ""), Side(0, Null, "", "")}}
  \cup {Item(t, "svc", 200, 1, 1, Null, Null) : t \in {"", "other"}}
  \cup {[Item("response", "svc", 200, 1, 1, Null, Null) EXCEPT !.json = FALSE]}

Intake == INSTANCE Ingest WITH
  Trim <- TrimWord, ToLower <- LowerWord, BadLabel <- {"bad"}, BadCorr <- {"long"},
  Fresh <- "fresh", Inbound <- Arrivals, Wire <- Posts, BodyCap <- 2

-----------------------------------------------------------------------------
(* Redaction: small rule sets, and records with every kind of header, parameter
   and body. *)

HeaderNames == {"Cookie", "cookie", "Set-Cookie", "Auth", "auth", "X"}

Canonical == [k \in HeaderNames |->
  CASE k = "cookie" -> "Cookie" [] k = "auth" -> "Auth" [] OTHER -> k]

Rule(mode, names) == [mode |-> mode, names |-> names]
Regex(name, pattern) == [name |-> name, pattern |-> pattern]

CookieConfigs ==
  {<<>>} \cup {<<Rule(m, n)>> : m \in {"", "strip", "allowlist", "bogus"}, n \in {{"a"}, {"a", "b"}}}
  \cup {<<Rule("strip", {"a"}), Rule("redact", {"b"})>>,
        <<Rule("redact", {"a"}), Rule("allowlist", {"a"})>>,
        <<Rule("strip", {"a", "b"}), Rule("redact", {"a"})>>}

Config(headers, params, paths, regex, cookies) ==
  [headers |-> headers, params |-> params, paths |-> paths, regex |-> regex, cookies |-> cookies]

RuleConfigs ==
  {Config({}, {}, <<>>, <<>>, c) : c \in CookieConfigs}
  \cup {Config(h, p, paths, rx, <<Rule("strip", {"a"})>>) :
          h \in {{}, {"auth"}, {"Cookie"}}, p \in {{}, {"auth"}},
          paths \in {<<>>, <<"p">>, <<"p", "u">>},
          rx \in {<<>>, <<Regex("one", {"s"})>>, <<Regex("one", {"s"}), Regex("two", {"t"})>>}}
  \cup {Config({}, {}, <<"">>, <<>>, <<>>), Config({}, {}, <<>>, <<Regex("", {"s"})>>, <<>>),
        Config({}, {}, <<>>, <<Regex("one", {})>>, <<>>)}

Part(n, v) == [name |-> n, value |-> v]

Plain(w) == <<Part("", w)>>

Bodies ==
  {Null} \cup
  {[valid |-> v, declared |-> d, fields |-> [p |-> x, u |-> y]] :
     v \in BOOLEAN, d \in BOOLEAN, x \in {Null, "s", "w"}, y \in {Null, "t"}}

CookieValues ==
  {<<>>, <<<<Part("a", "s")>>>>, <<<<Part("a", "w"), Part("b", "s")>>>>,
   <<<<Part("a", "w")>>, <<Part("b", "w"), Part("a", "t")>>>>, <<<<Part("", "w"), Part("b", "t")>>>>}

With(m, k, vals) == IF vals = <<>> THEN m ELSE m @@ (k :> vals)

HeaderMaps ==
  {With(With("X" :> <<Plain("s"), Plain("t")>>, "Cookie", c), k, <<Plain("s"), Plain("w")>>) :
     c \in CookieValues, k \in {"Auth"}}

EventHeaders ==
  {With(With("X" :> <<Plain("w"), Plain("s")>>, k, <<Plain("s")>>), "Set-Cookie", sc) :
     k \in {"Auth", "auth"},
     sc \in {<<>>, <<<<Part("a", "s"), Part("Path", "w")>>, <<Part("b", "w")>>>>, <<<<Part("a", "w")>>>>}}

Queries == {"X" :> <<Plain("w")>>, ("auth" :> <<Plain("w"), Plain("s")>>) @@ ("X" :> <<Plain("t")>>)}

\* What net/http makes of the Cookie header.
CookieSlice(h) ==
  IF "Cookie" \notin DOMAIN h THEN <<>>
  ELSE SelectSeq(FlattenSeq(h["Cookie"]), LAMBDA p : p.name # "")

Request(h, b, query) ==
  [kind |-> "request", halves |-> <<[headers |-> h, body |-> b]>>, query |-> query,
   cookies |-> CookieSlice(h)]

Event(kind, halves) == [kind |-> kind, halves |-> halves]

SomeBody == [valid |-> TRUE, declared |-> FALSE, fields |-> [p |-> "s", u |-> "t"]]
BadBody == [valid |-> FALSE, declared |-> TRUE, fields |-> [p |-> "w", u |-> Null]]

Samples ==
  {Request(h, SomeBody, query) : h \in HeaderMaps, query \in Queries}
  \cup {Request("X" :> <<Plain("w")>>, b, "X" :> <<Plain("w")>>) : b \in Bodies}
  \cup {Event("response", <<[headers |-> h, body |-> b]>>) : h \in EventHeaders, b \in {SomeBody, BadBody}}
  \cup {Event("outbound", <<[headers |-> h, body |-> SomeBody], [headers |-> g, body |-> b]>>) :
          h \in EventHeaders, g \in EventHeaders, b \in {Null, BadBody}}
  \cup {Event("outbound", <<[headers |-> h, body |-> BadBody]>>) : h \in EventHeaders}

\* A sample file may spell a header twice.
TwiceSpelled ==
  {[Request(("Cookie" :> c) @@ ("cookie" :> d), Null, "X" :> <<Plain("w")>>) EXCEPT !.cookies = <<>>] :
     c \in CookieValues \ {<<>>}, d \in CookieValues \ {<<>>}}

Rules == INSTANCE Redaction WITH
  Canon <- Canonical, Redacted <- "[REDACTED]", Unwritable <- {"u"},
  Configs <- RuleConfigs, Records <- Samples \cup TwiceSpelled

-----------------------------------------------------------------------------
(* Startup: a few settings that interact, in both layers; the others stay unset. *)

RetentionYAML ==
  "sqlite" :> {Unset, TRUE, FALSE} @@ "max_age" :> {Unset, -1, 0, 1} @@
  "max_count" :> {Unset, 1} @@ "unknown_key" :> {Unset, "sinks", "retention"}
RetentionEnv ==
  "sinks" :> {Unset, {}, {"sqlite"}, {"memory"}, {"other"}} @@
  "max_count" :> {Unset, Empty, Bad, 0, 1} @@ "interval" :> {Unset, 1}

AdminYAML ==
  "admin_bind" :> {Unset, "any", "malformed"} @@ "token" :> {Unset, Empty, "long"} @@
  "insecure_listen" :> {Unset, TRUE} @@ "sqlite" :> {Unset, TRUE} @@
  "redaction" :> {Unset, "rules", "invalid"}
AdminEnv ==
  "admin_bind" :> {Unset, "loopback"} @@ "token" :> {Unset, Empty, "short"} @@
  "session_secure" :> {Unset, TRUE, Bad}

LayersYAML ==
  "capture_port" :> {Unset, 0, 2} @@ "capture_bind" :> {Unset, "loopback", "malformed"} @@
  "queue_size" :> {Unset, 0, 2} @@ "memory" :> {Unset, TRUE} @@ "body_cap" :> {Unset, -1}
LayersEnv ==
  "capture_port" :> {Unset, 1, 65536} @@ "queue_size" :> {Unset, Empty, 0, 1} @@
  "sinks" :> {Unset, {"stdout"}} @@ "log_format" :> {Unset, "json", "other"}

Retained == INSTANCE Startup WITH YAMLValues <- RetentionYAML, EnvValues <- RetentionEnv
Guarded == INSTANCE Startup WITH YAMLValues <- AdminYAML, EnvValues <- AdminEnv
Layers == INSTANCE Startup WITH YAMLValues <- LayersYAML, EnvValues <- LayersEnv

-----------------------------------------------------------------------------
(* SearchBox: one alphabet for quoting and wildcards, one for keys and their
   values, and texts typed into the page. *)

QuoteMark == "\""
Star == "*"
Minus == "-"
Blank == " "

QuotingSymbols == {"a", QuoteMark, "\\", Blank, Star, Minus}

TermSymbols == {"PATH", "status", "method", "has_events", "header.", "a", "get", "TRUE",
                "200", "+200", Star, Minus, ":", QuoteMark}

TypedTexts == [1..1 -> QuotingSymbols] \cup
  {<<"a", Blank, "a">>, <<"a", Blank, QuoteMark, "a">>, <<Minus, QuoteMark, "a", Blank>>}

AllSymbols == QuotingSymbols \cup TermSymbols \cup {"header", "path", "GET", "true", "2xx"}

LowerSymbol == [s \in AllSymbols |->
  CASE s = "PATH" -> "path" [] s = "TRUE" -> "true" [] s = "GET" -> "get" [] OTHER -> s]

UpperSymbol == [s \in AllSymbols |->
  CASE s = "path" -> "PATH" [] s = "true" -> "TRUE" [] s = "get" -> "GET" [] OTHER -> s]

StatusWords == [s \in {"200", "+200", "2xx"} |-> IF s = "+200" THEN "200" ELSE s]

Quoting == INSTANCE SearchBox WITH
  Symbols <- QuotingSymbols, MaxLen <- 5, Keys <- {}, MaxInput <- 0, Texts <- {},
  ToLower <- LowerSymbol, ToUpper <- UpperSymbol, StatusFilter <- StatusWords,
  JSStatus <- {"200", "2xx"}
Terms == INSTANCE SearchBox WITH
  Symbols <- TermSymbols, MaxLen <- 4, Keys <- {}, MaxInput <- 0, Texts <- {},
  ToLower <- LowerSymbol, ToUpper <- UpperSymbol, StatusFilter <- StatusWords,
  JSStatus <- {"200", "2xx"}
Typing == INSTANCE SearchBox WITH
  Symbols <- QuotingSymbols, MaxLen <- 0, Keys <- {"a", Blank, Star}, MaxInput <- 5, Texts <- TypedTexts,
  ToLower <- LowerSymbol, ToUpper <- UpperSymbol, StatusFilter <- StatusWords,
  JSStatus <- {"200", "2xx"}

-----------------------------------------------------------------------------
ingestVars == <<arrived, request, posted, outcome, event>>
redactionVars == <<rules, refused, before, after, errors, diff>>
startupVars == <<yaml, env, phase, step, cfg, handles, listeners, sweeper, warnings>>
searchVars == <<q, at, chips, input, qHidden>>

Scenarios == {"ingest", "redaction", "retained", "guarded", "layers", "quoting", "terms", "typing"}

MCInit ==
  /\ scenario \in Scenarios
  /\ Intake!Init /\ Rules!Init /\ Layers!Init /\ Typing!Init

MCNext ==
  /\ UNCHANGED scenario
  /\ \/ /\ scenario = "ingest" /\ Intake!Next
        /\ UNCHANGED <<redactionVars, startupVars, searchVars>>
     \/ /\ scenario = "redaction" /\ Rules!Next
        /\ UNCHANGED <<ingestVars, startupVars, searchVars>>
     \/ /\ \/ scenario = "retained" /\ Retained!Next
           \/ scenario = "guarded" /\ Guarded!Next
           \/ scenario = "layers" /\ Layers!Next
        /\ UNCHANGED <<ingestVars, redactionVars, searchVars>>
     \/ /\ \/ scenario = "quoting" /\ Quoting!Next
           \/ scenario = "terms" /\ Terms!Next
           \/ scenario = "typing" /\ Typing!Next
        /\ UNCHANGED <<ingestVars, redactionVars, startupVars>>

MCSpec ==
  MCInit /\ [][MCNext]_<<scenario, ingestVars, redactionVars, startupVars, searchVars>>

-----------------------------------------------------------------------------
\* An event that echoes the correlation id of its request, or the headers the id
\* came from, gets the same id, and the same label if it names the service alike.
EventJoins == Intake!EventJoins

\* Labels are usable, bodies are cut at the cap and say so, and validation leaves
\* the builders of event records no nil pointer.
RecordsFaithful == Intake!RecordsFaithful

\* Every rule holds of the record Redact returns, or the miss of a JSON path is
\* counted.
RulesHold == Rules!RulesHold

\* The Cookie header and the slice of cookies agree after the cookie rules.
CookieViewsAgree == Rules!CookieViewsAgree

\* The dry run shows every change that Redact makes.
DiffComplete == Rules!DiffComplete

\* The process runs with the configuration of file and environment, which meets the
\* components' assumptions, listens only where the bind policy allows it, and
\* sweeps exactly when a retention bound is set.
RunningAsConfigured == Layers!RunningAsConfigured

\* Every error path of opening the database, and every shutdown, closes its handles.
CleanExit == Layers!CleanExit

\* The hidden q that the page submits is read by the server as the page's chips.
ChipsRoundTrip == Typing!ChipsRoundTrip

\* Turning typed text into chips does not change what the query means.
CommitKeepsMeaning == Typing!CommitKeepsMeaning

=============================================================================
