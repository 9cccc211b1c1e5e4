------------------------------- MODULE Ingest -------------------------------
(***************************************************************************)
(* How records are made from what arrives: buildRecord on the capture port *)
(* and parseAndBuild on the events API.  The two derive the service label  *)
(* and the correlation id by code of their own, and an event only finds    *)
(* its request when both come to the same id.                              *)
(*                                                                         *)
(* Texts are words; what TrimSpace and ToLower make of them and which are  *)
(* too long or hold control characters are constants.  A body is its       *)
(* length.                                                                 *)
(***************************************************************************)
EXTENDS Integers, TLC

CONSTANTS
  Null,
  Trim, ToLower,   \* strings.TrimSpace and strings.ToLower, on words
  BadLabel,        \* words with a control character or of more than 256 bytes
  BadCorr,         \* words of more than 256 bytes or not of printable ASCII
  Fresh,           \* uuid.NewString
  Inbound,         \* the requests that may arrive at the capture port
  Wire,            \* the events that may be posted, without their correlation
  BodyCap          \* body_cap; zero disables it

VARIABLES
  arrived,   \* the request as it arrived, Null before
  request,   \* the record made of it
  posted,    \* the event as it was posted, Null before
  outcome,   \* what became of it: "accepted" or the reason it was rejected for
  event      \* the record made of it, Null when it was rejected

vars == <<arrived, request, posted, outcome, event>>

Init ==
  /\ arrived = Null
  /\ request = Null
  /\ posted = Null
  /\ outcome = "none"
  /\ event = Null

-----------------------------------------------------------------------------
SanitiseServiceLabel(s) ==
  IF Trim[s] = "" \/ Trim[s] \in BadLabel THEN "" ELSE ToLower[Trim[s]]

\* A host is [name, port]; the port is stripped.
IdentifyService(h) ==
  CASE SanitiseServiceLabel(h.service) # "" ->
         [label |-> SanitiseServiceLabel(h.service), source |-> "header"]
    [] SanitiseServiceLabel(h.host.name) # "" ->
         [label |-> SanitiseServiceLabel(h.host.name), source |-> "host"]
    [] OTHER -> [label |-> "unknown", source |-> "unknown"]

\* A traceparent is [parts, version, id, hex]: the number of its parts, the first
\* two of them, and whether the second is 32 hex digits that are not all zero.
parseTraceparent(tp) ==
  IF tp # Null /\ tp.parts >= 4 /\ tp.version = "00" /\ tp.hex THEN ToLower[tp.id] ELSE Null

\* Mutant: X-Request-ID is taken as it came.
IdentifyCorrelation_Untrimmed(tp, rid) ==
  CASE parseTraceparent(tp) # Null -> [id |-> parseTraceparent(tp), source |-> "traceparent"]
    [] rid # "" -> [id |-> rid, source |-> "request_id"]
    [] OTHER -> [id |-> Fresh, source |-> "synthesized"]

IdentifyCorrelation(tp, rid) ==
  CASE parseTraceparent(tp) # Null -> [id |-> parseTraceparent(tp), source |-> "traceparent"]
    [] Trim[rid] # "" -> [id |-> Trim[rid], source |-> "request_id"]
    [] OTHER -> [id |-> Fresh, source |-> "synthesized"]

CapBody(len) ==
  IF BodyCap <= 0 \/ len <= BodyCap
    THEN [len |-> len, size |-> len, truncated |-> FALSE]
    ELSE [len |-> BodyCap, size |-> BodyCap + 1, truncated |-> TRUE]

buildRecord(h) ==
  [service |-> IdentifyService(h), corr |-> IdentifyCorrelation(h.traceparent, h.rid),
   body |-> CapBody(h.body)]

Capture(h) ==
  /\ arrived = Null
  /\ arrived' = h
  /\ request' = buildRecord(h)
  /\ UNCHANGED <<posted, outcome, event>>

-----------------------------------------------------------------------------
(* The events API.  The headers of an event (of the request half of an     *)
(* outbound one) are a JSON object: a header may be there in several       *)
(* spellings, and Go iterates over them in any order.  rids is the set of  *)
(* the values of X-Request-ID, and the first one met is used.              *)

Missing(e) ==
  \/ SanitiseServiceLabel(e.service) = ""
  \/ e.duration = Null
  \/ e.type = "response" /\ e.status = Null
  \/ e.type = "outbound" /\ e.request = Null

\* Mutant: the status of the response half is not asked for.
validateOutboundEvent_AnyResponse(e) ==
  ~Missing(e) /\ Trim[e.request.method] # "" /\ Trim[e.request.path] # ""

validateOutboundEvent(e) ==
  /\ ~Missing(e)
  /\ Trim[e.request.method] # "" /\ Trim[e.request.path] # ""
  /\ e.response # Null => e.response.status # Null

validateResponseEvent(e) == ~Missing(e)

TooLarge(len) == BodyCap > 0 /\ len > BodyCap

deriveCorrelation(explicit, tp, rid) ==
  IF Trim[explicit] # "" /\ Trim[explicit] \notin BadCorr
    THEN [id |-> Trim[explicit], source |-> "explicit"]
    ELSE IdentifyCorrelation(tp, rid)

\* Null when it dereferences a nil pointer, which is a panic.
buildResponseRecord(e, rid) ==
  IF e.status = Null \/ e.duration = Null THEN Null
  ELSE [service |-> [label |-> SanitiseServiceLabel(e.service), source |-> "explicit"],
        corr |-> deriveCorrelation(e.explicit, e.traceparent, rid),
        bodies |-> <<CapBody(e.body)>>]

buildOutboundRecord(e, rid) ==
  IF e.duration = Null \/ e.request = Null \/ (e.response # Null /\ e.response.status = Null)
  THEN Null
  ELSE [service |-> [label |-> SanitiseServiceLabel(e.service), source |-> "explicit"],
        corr |-> deriveCorrelation(e.explicit, e.traceparent, rid),
        bodies |-> IF e.response = Null THEN <<CapBody(e.request.body)>>
                   ELSE <<CapBody(e.request.body), CapBody(e.response.body)>>]

Reject(reason) == outcome' = reason /\ event' = Null

Accept(record) ==
  /\ outcome' = IF record = Null THEN "panic" ELSE "accepted"
  /\ event' = record

\* parseAndBuild of one item whose headers give the request id rid first.
parseAndBuild(e, rid) ==
  CASE ~e.json -> Reject("invalid_json")
    [] e.type = "" -> Reject("missing_type")
    [] e.type = "response" ->
         IF ~validateResponseEvent(e) THEN Reject("missing_required_field")
         ELSE IF TooLarge(e.body) THEN Reject("body_too_large")
         ELSE Accept(buildResponseRecord(e, rid))
    [] e.type = "outbound" ->
         IF ~validateOutboundEvent(e) THEN Reject("missing_required_field")
         ELSE IF TooLarge(e.request.body) \/ (e.response # Null /\ TooLarge(e.response.body))
         THEN Reject("body_too_large")
         ELSE Accept(buildOutboundRecord(e, rid))
    [] OTHER -> Reject("unknown_type")

\* The application answers the request it got.  It passes on the correlation id
\* (explicit), or the headers, or neither, or something of its own.
Post(e, explicit, tp, rids) ==
  /\ LET full == e @@ [explicit |-> explicit, traceparent |-> tp, rids |-> rids] IN
     /\ posted' = full
     /\ \E rid \in IF rids = {} THEN {""} ELSE rids : parseAndBuild(full, rid)
  /\ UNCHANGED <<arrived, request>>

\* The next pair of a request and its event.
Clear ==
  /\ posted # Null
  /\ arrived' = Null /\ request' = Null
  /\ posted' = Null /\ outcome' = "none" /\ event' = Null

-----------------------------------------------------------------------------
\* The explicit ids and request ids an application may send.
Explicits == {"", " ", request.corr.id} \cup BadCorr

RidSets == {{}, {arrived.rid}, {arrived.rid, "other"}}

Next ==
  \/ \E h \in Inbound : Capture(h)
  \/ /\ arrived # Null /\ posted = Null
     /\ \E e \in Wire, x \in Explicits, tp \in {Null, arrived.traceparent}, rids \in RidSets :
          Post(e, x, tp, rids)
  \/ Clear

Spec == Init /\ [][Next]_vars

-----------------------------------------------------------------------------
\* The event carries the id its request was given, or else the headers the
\* request had, once each.
Echoes ==
  \/ posted.explicit = request.corr.id /\ request.corr.id \notin BadCorr
  \/ /\ Trim[posted.explicit] = "" \/ Trim[posted.explicit] \in BadCorr
     /\ posted.traceparent = arrived.traceparent
     /\ posted.rids = {arrived.rid}
     /\ request.corr.source # "synthesized"

\* An event that echoes the correlation id of its request, or the headers the
\* id was derived from, is given the same id by the events API, and when it
\* names the service as the request's header did, the same label: the two
\* derivations agree, so the event is not an orphan.
EventJoins ==
  outcome = "accepted" =>
    /\ Echoes => event.corr.id = request.corr.id
    /\ posted.service = arrived.service /\ request.service.source = "header"
         => event.service.label = request.service.label

Kept(len, b) ==
  /\ b.len <= len
  /\ BodyCap > 0 => b.len <= BodyCap
  /\ b.truncated <=> b.len < len
  /\ ~b.truncated => b.size = len
  /\ b.truncated => b.size > b.len /\ b.size <= len

\* Every record says truly what arrived.  Its label is usable and never in the
\* sender's case, so that the readers group by the same word however it was
\* spelled.  A captured body is kept up to the cap, truncated says whether
\* something is missing, and body_original_size is exact or a lower bound of at
\* least one more byte; a body the events API accepts is whole.  And validation
\* leaves no nil pointer for the builders to run into.
RecordsFaithful ==
  /\ \A r \in {request, event} \ {Null} :
       LET l == r.service.label IN l # "" /\ l \notin BadLabel /\ ToLower[l] = l
  /\ request # Null => Kept(arrived.body, request.body)
  /\ outcome = "accepted" => \A i \in DOMAIN event.bodies : ~event.bodies[i].truncated
  /\ outcome # "panic"

=============================================================================
