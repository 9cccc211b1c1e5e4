------------------------------ MODULE Redaction ------------------------------
(***************************************************************************)
(* NewRuleset, Redact and the redaction dry run (httpcatch redact --test): *)
(* one configuration, and the records that pass through it one by one.     *)
(*                                                                         *)
(* Header, parameter and cookie values are words; a regex is the set of    *)
(* the words it matches.  The value of a header is a sequence of parts     *)
(* [name, value]: a Cookie header has one for each cookie, a Set-Cookie    *)
(* header one for its cookie and then its attributes, any other header a   *)
(* single part without a name.  A body is [valid, declared, fields]:       *)
(* whether it parses as JSON, whether its content type says JSON, and the  *)
(* words at its paths (all of its text when it does not parse).            *)
(***************************************************************************)
EXTENDS Naturals, Sequences, FiniteSets, SequencesExt, FiniteSetsExt

CONSTANTS
  Null,
  Canon,       \* the canonical spelling of a key; keys that differ only in case share it
  Redacted,    \* "[REDACTED]"
  Unwritable,  \* paths at which sjson.SetBytes fails although gjson finds a value
  Configs,     \* the redaction sections of a configuration
  Records      \* the records that arrive; Cookie and Set-Cookie have at most one
               \* spelling besides the canonical one

VARIABLES
  rules,   \* the Ruleset, Null before NewRuleset and when it returned an error
  refused, \* NewRuleset returned an error
  before,  \* the record that was redacted last, Null before the first
  after,   \* what Redact returned
  errors,  \* what Redact added to redactionErrors
  diff     \* the fields the dry run prints, Null when it was not a dry run

vars == <<rules, refused, before, after, errors, diff>>

Init ==
  /\ rules = Null
  /\ refused = FALSE
  /\ before = Null
  /\ after = Null
  /\ errors = 0
  /\ diff = Null

-----------------------------------------------------------------------------
(* NewRuleset *)

CookieModes == {"redact", "strip", "allowlist"}

parseCookieMode(m) == IF m = "" THEN "redact" ELSE m

Invalid(cfg) ==
  \/ "" \in ToSet(cfg.paths)
  \/ \E i \in DOMAIN cfg.cookies : parseCookieMode(cfg.cookies[i].mode) \notin CookieModes
  \/ \E i \in DOMAIN cfg.regex : cfg.regex[i].name = "" \/ cfg.regex[i].pattern = {}

\* Names of headers and parameters are compared in lower case, names of
\* cookies as they are.
NewRuleset(cfg) ==
  /\ rules = Null /\ ~refused
  /\ refused' = Invalid(cfg)
  /\ rules' = IF Invalid(cfg) THEN Null
              ELSE [headers |-> {Canon[h] : h \in cfg.headers},
                    params |-> {Canon[p] : p \in cfg.params},
                    paths |-> cfg.paths,
                    regex |-> [i \in DOMAIN cfg.regex |-> cfg.regex[i].pattern],
                    cookies |-> [i \in DOMAIN cfg.cookies |->
                                   [mode |-> parseCookieMode(cfg.cookies[i].mode),
                                    names |-> cfg.cookies[i].names]]]
  /\ UNCHANGED <<before, after, errors, diff>>

IsUnredacted(rs) ==
  rs.headers = {} /\ rs.params = {} /\ rs.paths = <<>> /\ rs.regex = <<>> /\ rs.cookies = <<>>

-----------------------------------------------------------------------------
(* Cookie rules *)

\* The Cookie header; a part without a name stays.
applyRuleToCookieHeader(v, rule) ==
  LET matched(p) == p.name \in rule.names IN
  CASE rule.mode = "redact" ->
         [i \in DOMAIN v |-> IF matched(v[i]) THEN [v[i] EXCEPT !.value = Redacted] ELSE v[i]]
    [] rule.mode = "strip" -> SelectSeq(v, LAMBDA p : ~matched(p))
    [] rule.mode = "allowlist" -> SelectSeq(v, LAMBDA p : p.name = "" \/ matched(p))

\* An entry of Set-Cookie is dropped as a whole, <<>>, or keeps its attributes.
applyRuleToSetCookieHeader(v, rule) ==
  LET matched == v[1].name \in rule.names IN
  CASE rule.mode = "redact" /\ matched -> <<[v[1] EXCEPT !.value = Redacted]>> \o Tail(v)
    [] rule.mode = "strip" /\ matched -> <<>>
    [] rule.mode = "allowlist" /\ ~matched -> <<>>
    [] OTHER -> v

\* The canonical spelling when it is there, else another one.
findHeaderKey(h, c) ==
  LET keys == {k \in DOMAIN h : Canon[k] = c} IN
  IF c \in keys THEN c ELSE IF keys = {} THEN Null ELSE CHOOSE k \in keys : TRUE

\* The map with the values of k replaced, without k when nothing is left of them.
Put(h, k, vals) ==
  IF \A i \in DOMAIN vals : vals[i] = <<>> THEN [j \in DOMAIN h \ {k} |-> h[j]]
  ELSE [h EXCEPT ![k] = vals]

\* Mutant: the rules stop at the first that empties the header.
applyCookieRulesToHeaders_FirstRule(h, cookieRules) ==
  LET ck == findHeaderKey(h, "Cookie") IN
  IF cookieRules = <<>> \/ ck = Null THEN h
  ELSE Put(h, ck, [i \in DOMAIN h[ck] |-> applyRuleToCookieHeader(h[ck][i], cookieRules[1])])

\* The two keys are looked up once, before the rules are applied in their order.
applyCookieRulesToHeaders(h, cookieRules) ==
  LET ck == findHeaderKey(h, "Cookie")
      sk == findHeaderKey(h, "Set-Cookie")
      Cookies(m, rule) ==
        IF ck \notin DOMAIN m THEN m
        ELSE Put(m, ck, [i \in DOMAIN m[ck] |-> applyRuleToCookieHeader(m[ck][i], rule)])
      SetCookies(m, rule) ==
        IF sk \notin DOMAIN m THEN m
        ELSE Put(m, sk, SelectSeq([i \in DOMAIN m[sk] |-> applyRuleToSetCookieHeader(m[sk][i], rule)],
                                  LAMBDA v : v # <<>>))
  IN  FoldLeft(LAMBDA m, rule : SetCookies(Cookies(m, rule), rule), h, cookieRules)

\* The Cookies slice of a captured request.
redactCookieSlice(cookies, cookieRules) ==
  FoldLeft(LAMBDA cs, rule :
             LET kept == SelectSeq(cs, LAMBDA c : rule.mode = "redact"
                                         \/ (rule.mode = "strip") # (c.name \in rule.names))
             IN  [i \in DOMAIN kept |->
                    [kept[i] EXCEPT !.value = IF rule.mode = "redact" /\ kept[i].name \in rule.names
                                                THEN Redacted ELSE @]],
           cookies, cookieRules)

-----------------------------------------------------------------------------
(* The other rules *)

Blank == <<[name |-> "", value |-> Redacted]>>

\* Header rules and query rules: every value under a key that is listed.
applyRulesMap(m, names) ==
  [k \in DOMAIN m |-> IF Canon[k] \in names THEN [i \in DOMAIN m[k] |-> Blank] ELSE m[k]]

\* The paths of the rules that the body has.
Hits(b, paths) == {p \in ToSet(paths) : b.valid /\ b.fields[p] # Null}

\* The gate is the body itself, not its content type.
applyJSONPathRulesBody(b, paths) ==
  [b EXCEPT !.fields = [p \in DOMAIN b.fields |->
     IF p \in Hits(b, paths) \ Unwritable THEN Redacted ELSE b.fields[p]]]

\* Mutant: a body that does not parse is not counted.
JSONErrors_WritesOnly(b, paths) ==
  IF b = Null THEN 0 ELSE Cardinality(Hits(b, paths) \cap Unwritable)

\* What applyJSONPathRulesBody adds to redactionErrors.
JSONErrors(b, paths) ==
  IF b = Null \/ paths = <<>> THEN 0
  ELSE IF ~b.valid THEN (IF b.declared THEN 1 ELSE 0)
  ELSE Cardinality(Hits(b, paths) \cap Unwritable)

Mask(w, regex) == IF \E i \in DOMAIN regex : w \in regex[i] THEN Redacted ELSE w

applyRegexRulesBody(b, regex) ==
  [b EXCEPT !.fields = [p \in DOMAIN b.fields |-> Mask(b.fields[p], regex)]]

applyRegexRulesMap(m, regex) ==
  [k \in DOMAIN m |-> [i \in DOMAIN m[k] |->
     [j \in DOMAIN m[k][i] |-> [m[k][i][j] EXCEPT !.value = Mask(@, regex)]]]]

-----------------------------------------------------------------------------
(* Redact.  A record is its halves, each a map of headers and a body, and   *)
(* a captured request's parameters and cookies.  A captured request and a   *)
(* response event have one half; an outbound event has one or two.         *)

Body(b, rs) ==
  IF b = Null THEN Null ELSE applyRegexRulesBody(applyJSONPathRulesBody(b, rs.paths), rs.regex)

Half(h, rs) ==
  [headers |-> applyRegexRulesMap(
                 applyRulesMap(applyCookieRulesToHeaders(h.headers, rs.cookies), rs.headers),
                 rs.regex),
   body |-> Body(h.body, rs)]

redactCapturedRequest(r, rs) ==
  [r EXCEPT !.halves = <<Half(@[1], rs)>>,
            !.query = applyRegexRulesMap(applyRulesMap(@, rs.params), rs.regex),
            !.cookies = redactCookieSlice(@, rs.cookies)]

redactEvent(r, rs) == [r EXCEPT !.halves = [i \in DOMAIN @ |-> Half(@[i], rs)]]

Redact(r, rs) ==
  IF IsUnredacted(rs) THEN r
  ELSE IF r.kind = "request" THEN redactCapturedRequest(r, rs) ELSE redactEvent(r, rs)

-----------------------------------------------------------------------------
(* The dry run: one line for each field that changed.                      *)

\* The keys of a map that get a line.  Keys that norm makes equal share a line,
\* and each side of it has the values of the one that comes last in Go's
\* iteration, left[c] and right[c].
diffStringSliceMap(m, n, norm, left, right) ==
  {c \in {norm[k] : k \in DOMAIN m \cup DOMAIN n} :
     LET there == \E k \in DOMAIN n : norm[k] = c IN
     ~there \/ m[left[c]] # n[right[c]]}

\* For every key of a map one of its spellings.
Picks(m, norm) ==
  {f \in [{norm[k] : k \in DOMAIN m} -> DOMAIN m] : \A c \in DOMAIN f : norm[f[c]] = c}

\* Cookies of one name share a line, with the value of the last of them.
LastValue(cookies, name) ==
  LET at == {i \in DOMAIN cookies : cookies[i].name = name} IN
  IF at = {} THEN Null ELSE cookies[Max(at)].value

\* Mutant: a cookie that was stripped gets no line.
diffCookieSlice_Kept(b, a) ==
  {name \in {a[i].name : i \in DOMAIN a} : LastValue(b, name) # LastValue(a, name)}

diffCookieSlice(b, a) ==
  {name \in {b[i].name : i \in DOMAIN b} \cup {a[i].name : i \in DOMAIN a} :
     LastValue(b, name) # LastValue(a, name)}

Identity(m) == [k \in DOMAIN m |-> k]

diffRecords(b, a, left, right) ==
  {<<"headers", k>> : k \in diffStringSliceMap(b.halves[1].headers, a.halves[1].headers, Canon,
                                               left, right)}
  \cup {<<"query", k>> : k \in diffStringSliceMap(b.query, a.query, Identity(b.query),
                                                  Identity(b.query), Identity(a.query))}
  \cup {<<"cookies", k>> : k \in diffCookieSlice(b.cookies, a.cookies)}
  \cup (IF b.halves[1].body # a.halves[1].body THEN {<<"body", "">>} ELSE {})

-----------------------------------------------------------------------------
\* A worker redacts a record, or the dry run a sample.
Process(r, dryRun) ==
  /\ rules # Null /\ before = Null
  /\ before' = r
  /\ after' = Redact(r, rules)
  /\ errors' = IF IsUnredacted(rules) THEN 0
               ELSE MapThenSumSet(LAMBDA i : JSONErrors(r.halves[i].body, rules.paths),
                                  DOMAIN r.halves)
  /\ IF dryRun
       THEN /\ r.kind = "request"
            /\ \E left \in Picks(r.halves[1].headers, Canon) :
                 \E right \in Picks(after'.halves[1].headers, Canon) :
                   diff' = diffRecords(r, after', left, right)
       ELSE diff' = Null
  /\ UNCHANGED <<rules, refused>>

\* The next record.
Clear ==
  /\ before # Null
  /\ before' = Null /\ after' = Null /\ errors' = 0 /\ diff' = Null
  /\ UNCHANGED <<rules, refused>>

Next ==
  \/ \E cfg \in Configs : NewRuleset(cfg)
  \/ \E r \in Records, dryRun \in BOOLEAN : Process(r, dryRun)
  \/ Clear

Spec == Init /\ [][Next]_vars

-----------------------------------------------------------------------------
\* The words in the values of a map.
Words(m) ==
  UNION {UNION {{part.value : part \in ToSet(v)} : v \in ToSet(m[k])} : k \in DOMAIN m}

\* After Redact every rule holds of the whole record, whatever the earlier rules
\* made of it: rules for headers, parameters and regexes in every spelling, in
\* every value, in both halves; rules for JSON paths, unless redactionErrors has
\* grown, in every body that declares JSON.
RulesHold ==
  before # Null =>
    /\ \A i \in DOMAIN after.halves :
         LET h == after.halves[i].headers
             b == after.halves[i].body
         IN
         /\ \A k \in DOMAIN h :
              Canon[k] \in rules.headers => Words([x \in {k} |-> h[k]]) \subseteq {Redacted}
         /\ \A j \in DOMAIN rules.regex :
              /\ Words(h) \cap rules.regex[j] = {}
              /\ b # Null => \A p \in DOMAIN b.fields : b.fields[p] \notin rules.regex[j]
         /\ errors = 0 /\ b # Null /\ b.declared =>
              \A p \in ToSet(rules.paths) : b.fields[p] \in {Null, Redacted}
    /\ after.kind = "request" =>
         /\ \A k \in DOMAIN after.query : Canon[k] \in rules.params =>
              Words([x \in {k} |-> after.query[k]]) \subseteq {Redacted}
         /\ \A j \in DOMAIN rules.regex : Words(after.query) \cap rules.regex[j] = {}

\* The cookies that the values of a header name.
HeaderCookies(h) ==
  IF "Cookie" \notin DOMAIN h THEN <<>>
  ELSE SelectSeq(FlattenSeq(h["Cookie"]), LAMBDA p : p.name # "")

\* A captured request has its cookies twice, in the Cookie header and as a
\* slice.  Whatever the cookie rules, both have the same cookies with the same
\* values afterwards (unless a rule for headers or a regex, which do not look
\* at the slice, changed the header too).
CookieViewsAgree ==
  (/\ before # Null /\ before.kind = "request"
   /\ HeaderCookies(before.halves[1].headers) = before.cookies
   /\ "Cookie" \notin rules.headers
   /\ rules.regex = <<>>)
  => HeaderCookies(after.halves[1].headers) = after.cookies

SpelledOnce(h) == \A j, k \in DOMAIN h : Canon[j] = Canon[k] => j = k

\* The dry run prints "no changes" exactly when Redact changes nothing, and a
\* line for every header and every cookie that changes.  (The sample spells no
\* header twice: two spellings share a line, and its sides may be taken from
\* different ones.)
DiffComplete ==
  before # Null /\ diff # Null /\ SpelledOnce(before.halves[1].headers) =>
    /\ (diff = {}) <=> (before = after)
    /\ LET Values(r) == {<<k, r.halves[1].headers[k]>> : k \in DOMAIN r.halves[1].headers} IN
       \A k \in DOMAIN before.halves[1].headers :
         <<k, before.halves[1].headers[k]>> \notin Values(after) => <<"headers", Canon[k]>> \in diff
    /\ LET Named(r, n) == SelectSeq(r.cookies, LAMBDA c : c.name = n) IN
       \A c \in ToSet(before.cookies) :
         Named(before, c.name) # Named(after, c.name) => <<"cookies", c.name>> \in diff

=============================================================================
