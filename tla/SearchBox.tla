------------------------------ MODULE SearchBox ------------------------------
(***************************************************************************)
(* The search language as searchql.Parse and its JavaScript mirror read    *)
(* it, and the search box of the explorer page: the page parses the query  *)
(* it was asked with into chips, writes the chips back as text into the    *)
(* hidden q field, and submits that text again.                            *)
(*                                                                         *)
(* A query is a sequence of symbols: the characters the grammar looks at,  *)
(* and whole words for keys and values.                                    *)
(***************************************************************************)
EXTENDS Naturals, Sequences, SequencesExt

CONSTANTS
  Symbols,       \* the symbols that can be typed
  MaxLen,        \* bound: symbols of a query in the address bar
  Keys,          \* symbols typed on a chip that is selected
  MaxInput,      \* bound: symbols of the input and, before a key, of the hidden field
  Texts,         \* texts typed or pasted into the input at once
  ToLower,       \* strings.ToLower, on symbols
  ToUpper,       \* strings.ToUpper
  StatusFilter,  \* what parseStatusValue makes of a word; words outside are refused
  JSStatus       \* the words of StatusFilter that the mirror takes too

Quote == "\""
Back == "\\"
Space == " "
Star == "*"
Minus == "-"
Colon == ":"

Structured == {"method", "status", "source_ip", "correlation_id", "has_events"}
Indexed == {"host", "path", "service"}
KnownFields == Structured \cup Indexed \cup {"body", "headers"}
Methods == {"GET", "HEAD", "POST", "PUT", "DELETE", "CONNECT", "OPTIONS", "TRACE", "PATCH"}

VARIABLES
  q,      \* the query the next page is asked for; empty while a page is shown
  at,     \* "typing", "page", or "sent" when the form is submitted
  chips,  \* chipTerms of the page's script
  input,  \* the text of the search input
  qHidden \* the value of the hidden field, which is submitted

vars == <<q, at, chips, input, qHidden>>

Init ==
  /\ q = <<>>
  /\ at = "typing"
  /\ chips = <<>>
  /\ input = <<>>
  /\ qHidden = <<>>

-----------------------------------------------------------------------------
(* tokenize *)

\* One symbol: white space outside quotes ends a token, a quote that is not
\* escaped toggles.  Outside quotes a backslash is like any other character.
ScanChar(st, c) ==
  CASE c = Space /\ ~st.inQuote -> [st EXCEPT !.tokens = Append(@, st.tok), !.tok = <<>>]
    [] c = Quote /\ ~st.esc -> [st EXCEPT !.tok = Append(@, c), !.inQuote = ~@]
    [] OTHER -> [st EXCEPT !.tok = Append(@, c), !.esc = st.inQuote /\ c = Back]

Scan(s) ==
  FoldLeft(ScanChar, [tokens |-> <<>>, tok |-> <<>>, inQuote |-> FALSE, esc |-> FALSE],
           Append(s, Space))

\* An unclosed quote swallows the space that was appended.
Unclosed(s) == Scan(s).inQuote

tokenize(s) == SelectSeq(Scan(s).tokens, LAMBDA t : t # <<>>)

-----------------------------------------------------------------------------
(* parseValue: [ok, value, wildcard, quoted] *)

Refused == [ok |-> FALSE, value |-> <<>>, wildcard |-> "none", quoted |-> FALSE]

Unescape(s) ==
  FoldLeft(LAMBDA out, c : IF c = Quote /\ out # <<>> /\ Last(out) = Back
                             THEN Append(Front(out), Quote) ELSE Append(out, c), <<>>, s)

\* A value without quotes: stars are allowed at its two ends.
Bare(v) ==
  LET leading == v[1] = Star
      u == IF leading THEN Tail(v) ELSE v
      trailing == u # <<>> /\ Last(u) = Star
      w == IF trailing THEN Front(u) ELSE u
  IN  IF w = <<>> \/ Contains(w, Star) THEN Refused
      ELSE [ok |-> TRUE, value |-> w, quoted |-> FALSE,
            wildcard |-> IF leading THEN "substring" ELSE IF trailing THEN "prefix" ELSE "none"]

parseValue(v) ==
  IF v[1] # Quote THEN Bare(v)
  ELSE IF Len(v) < 2 \/ Last(v) # Quote THEN Refused
  ELSE [ok |-> TRUE, value |-> Unescape(SubSeq(v, 2, Len(v) - 1)), wildcard |-> "none",
        quoted |-> TRUE]

-----------------------------------------------------------------------------
(* parseToken: Go's with js = FALSE, the mirror's with js = TRUE.          *)

NoTerm == [ok |-> FALSE]

TermOf(field, name, pv, negated) ==
  [ok |-> pv.ok, field |-> field, name |-> name, value |-> pv.value,
   wildcard |-> pv.wildcard, quoted |-> pv.quoted, negated |-> negated, status |-> ""]

\* The word a value consists of.
Word(v) == IF Len(v) = 1 THEN v[1] ELSE ""

parseStatusValue(v, js) ==
  IF Word(v) \in (IF js THEN JSStatus ELSE DOMAIN StatusFilter) THEN StatusFilter[Word(v)] ELSE ""

\* The checks that depend on the field.
Finish(t, js) ==
  CASE ~t.ok \/ (t.field \in Structured /\ t.wildcard # "none") -> NoTerm
    [] t.field = "method" ->
         IF Word(t.value) # "" /\ ToUpper[Word(t.value)] \in Methods
           THEN [t EXCEPT !.value = <<ToUpper[Word(t.value)]>>] ELSE NoTerm
    [] t.field = "status" ->
         IF parseStatusValue(t.value, js) # ""
           THEN [t EXCEPT !.status = parseStatusValue(t.value, js)] ELSE NoTerm
    [] t.field = "has_events" ->
         IF Word(t.value) # "" /\ ToLower[Word(t.value)] \in {"true", "false"}
           THEN IF js THEN [t EXCEPT !.value = <<ToLower[Word(t.value)]>>] ELSE t
           ELSE NoTerm
    [] OTHER -> t

\* `header.<name>:`; the name is in its canonical spelling.
parseHeaderTerm(name, v, negated) ==
  IF name = <<>> \/ Contains(name, Star) THEN NoTerm
  ELSE TermOf("header", [i \in DOMAIN name |-> ToLower[name[i]]], parseValue(v), negated)

Keyed(key, v, negated, js) ==
  LET low == ToLower[key[1]] IN
  CASE v = <<>> -> NoTerm
    [] Len(key) = 1 /\ low \in KnownFields -> Finish(TermOf(low, <<>>, parseValue(v), negated), js)
    [] low = "header." -> parseHeaderTerm(Tail(key), v, negated)
    [] OTHER -> NoTerm

parseToken(raw, js) ==
  LET negated == raw[1] = Minus
      tok == IF negated THEN Tail(raw) ELSE raw
      colons == {i \in DOMAIN tok : tok[i] = Colon}
      idx == CHOOSE i \in colons : \A j \in colons : i <= j
  IN  CASE tok = <<>> -> NoTerm
        [] tok[1] = Quote \/ colons = {} -> TermOf("", <<>>, parseValue(tok), negated)
        [] tok[1] = Colon -> NoTerm
        [] OTHER -> Keyed(SubSeq(tok, 1, idx - 1), SubSeq(tok, idx + 1, Len(tok)), negated, js)

TermsIn(s, js) == LET toks == tokenize(s) IN [i \in DOMAIN toks |-> parseToken(toks[i], js)]

Accepts(s, js) == ~Unclosed(s) /\ \A i \in DOMAIN TermsIn(s, js) : TermsIn(s, js)[i].ok

-----------------------------------------------------------------------------
(* Chips: a term written back as text. *)

\* Mutant: quotes inside a quoted value are not escaped again.
Escape_Raw(s) == s

Escape(s) ==
  FoldLeft(LAMBDA out, c : IF c = Quote THEN out \o <<Back, Quote>> ELSE Append(out, c), <<>>, s)

chipDisplayValue(t) ==
  CASE t.status # "" -> <<t.status>>
    [] t.quoted -> <<Quote>> \o Escape(t.value) \o <<Quote>>
    [] t.wildcard = "prefix" -> t.value \o <<Star>>
    [] t.wildcard = "substring" -> <<Star>> \o t.value \o <<Star>>
    [] OTHER -> t.value

ChipKey(t) == IF t.field = "header" THEN <<"header.">> \o t.name ELSE <<t.field>>

Token(t) ==
  (IF t.negated THEN <<Minus>> ELSE <<>>)
  \o (IF t.field = "" THEN <<>> ELSE ChipKey(t) \o <<Colon>>)
  \o chipDisplayValue(t)

chipsToString(terms) ==
  FoldLeft(LAMBDA out, t : IF out = <<>> THEN Token(t) ELSE out \o <<Space>> \o Token(t),
           <<>>, terms)

\* The text without the white space around it.
Trim(s) ==
  LET word == {i \in DOMAIN s : s[i] # Space} IN
  IF word = {} THEN <<>>
  ELSE SubSeq(s, CHOOSE i \in word : \A j \in word : i <= j,
                 CHOOSE i \in word : \A j \in word : i >= j)

combinedQuery(terms, text) ==
  LET head == chipsToString(terms) IN
  IF head = <<>> THEN Trim(text)
  ELSE IF Trim(text) = <<>> THEN head ELSE head \o <<Space>> \o Trim(text)

-----------------------------------------------------------------------------
\* A query is typed into the address bar, or is a link.
Type(c) ==
  /\ at = "typing"
  /\ Len(q) < MaxLen
  /\ q' = Append(q, c)
  /\ UNCHANGED <<at, chips, input, qHidden>>

\* The script's state after a step: syncHiddenQ is the last thing in all of them.
Show(terms, text, where) ==
  /\ chips' = terms
  /\ input' = text
  /\ qHidden' = combinedQuery(terms, text)
  /\ at' = where
  /\ q' = <<>>

\* The page is loaded with q, in the hidden field even when the server refused
\* it, and wireSearch takes its chips from there.  A q that the mirror cannot
\* read leaves no chips, and the hidden field is written all the same.
Load ==
  /\ at = "typing"
  /\ Show(IF Accepts(q, TRUE) THEN TermsIn(q, TRUE) ELSE <<>>, <<>>, "page")

\* The cross of a chip, or backspace on it; the form is sent as it is then.
RemoveChip(i) ==
  /\ at = "page" /\ i \in DOMAIN chips
  /\ Show(RemoveAt(chips, i), input, "sent")

\* A click on a chip, or a key while it is selected, turns it into text in the
\* input, in place of what was there.
expandChipToInput(i, key) ==
  /\ at = "page" /\ i \in DOMAIN chips
  /\ key # <<>> => Len(qHidden) < MaxInput
  /\ Show(RemoveAt(chips, i), Token(chips[i]) \o key, "page")

\* Mutant: the last token goes into the chips too, and stays in the input.
Edited_KeepsLast(raw) ==
  LET closed == raw # <<>> /\ Last(raw) = Space
      terms == TermsIn(raw, TRUE)
      tokens == tokenize(raw)
  IN  CASE Trim(raw) = <<>> -> [chips |-> chips, input |-> <<>>]
        [] closed /\ Accepts(Trim(raw), TRUE) ->
             [chips |-> chips \o TermsIn(Trim(raw), TRUE), input |-> <<>>]
        [] ~closed /\ Accepts(raw, TRUE) /\ Len(terms) >= 2 ->
             [chips |-> chips \o terms, input |-> tokens[Len(tokens)]]
        [] OTHER -> [chips |-> chips, input |-> raw]

\* What the listener for "input" makes of the new text: white space at the end
\* commits what is before it, two or more terms commit all but the last.
Edited(raw) ==
  LET closed == raw # <<>> /\ Last(raw) = Space
      terms == TermsIn(raw, TRUE)
      tokens == tokenize(raw)
  IN  CASE Trim(raw) = <<>> -> [chips |-> chips, input |-> <<>>]
        [] closed /\ Accepts(Trim(raw), TRUE) ->
             [chips |-> chips \o TermsIn(Trim(raw), TRUE), input |-> <<>>]
        [] ~closed /\ Accepts(raw, TRUE) /\ Len(terms) >= 2 ->
             [chips |-> chips \o Front(terms), input |-> tokens[Len(tokens)]]
        [] OTHER -> [chips |-> chips, input |-> raw]

\* Text is typed or pasted at the end of the input.
TypeInput(text) ==
  /\ at = "page"
  /\ Len(qHidden) < MaxInput /\ Len(input \o text) <= MaxInput
  /\ LET e == Edited(input \o text) IN Show(e.chips, e.input, "page")

\* Enter: commitAll turns the text into chips if it can read it, and the form
\* is sent.
commitAll ==
  /\ at = "page"
  /\ IF Accepts(Trim(input), TRUE)
       THEN Show(chips \o TermsIn(Trim(input), TRUE), <<>>, "sent")
       ELSE Show(chips, input, "sent")

\* The next page is asked for what the form sent.
Navigate ==
  /\ at = "sent"
  /\ q' = qHidden
  /\ at' = "typing"
  /\ chips' = <<>> /\ input' = <<>> /\ qHidden' = <<>>

Next ==
  \/ \E c \in Symbols : Type(c)
  \/ Load
  \/ \E i \in DOMAIN chips :
       RemoveChip(i) \/ \E key \in {<<>>} \cup [1..1 -> Keys] : expandChipToInput(i, key)
  \/ \E text \in Texts : TypeInput(text)
  \/ commitAll
  \/ Navigate

Spec == Init /\ [][Next]_vars

-----------------------------------------------------------------------------
\* Two terms that both compilers treat alike: of a status term they look at the
\* filter only, of has_events at the truth value.
Meaning(t) ==
  CASE t.field = "status" -> <<t.field, t.negated, t.status>>
    [] t.field = "has_events" -> <<t.field, t.negated, ToLower[t.value[1]]>>
    [] OTHER -> <<t.field, t.negated, t.name, t.value, t.wildcard, t.quoted>>

Meanings(terms) == [i \in DOMAIN terms |-> Meaning(terms[i])]

\* What the page submits is what it shows: the server accepts the hidden q and
\* reads in it the terms of the chips, in order, and then the input's.
ChipsRoundTrip ==
  at # "typing" /\ Accepts(input, FALSE) =>
    /\ Accepts(qHidden, FALSE)
    /\ Meanings(TermsIn(qHidden, FALSE)) = Meanings(chips \o TermsIn(input, FALSE))

\* Turning text into chips on the way changes nothing about what it means: chips
\* and input are read like the chips with the whole text after them.
CommitKeepsMeaning ==
  [][\A text \in Texts :
       TypeInput(text) /\ Accepts(input \o text, TRUE) =>
         /\ Accepts(input', TRUE)
         /\ Meanings(chips' \o TermsIn(input', TRUE))
              = Meanings(chips \o TermsIn(input \o text, TRUE))]_vars

=============================================================================
