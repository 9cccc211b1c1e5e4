----------------------------- MODULE MemorySink -----------------------------
(***************************************************************************)
(* MemorySink: a ring buffer of the newest records with an index from      *)
(* correlation id to ring position.  Workers write, admin handlers and the *)
(* metrics scrape read.  Each method holds the mutex from start to end and *)
(* is one step; what the readers do with two calls is two steps.           *)
(***************************************************************************)
EXTENDS Integers, Sequences, FiniteSets

CONSTANTS
  Records,    \* the records that may be written; ids are unique
  NoRecord,   \* nil: an empty place of the ring, or nothing found
  Kind,       \* the kind of each record: "request", "response" or "outbound"
  Corr,       \* RecordCorrelationID of each record
  Readers,    \* goroutines that read
  Capacity    \* memory_capacity after NewMemorySink raised it to at least 1

Corrs == {Corr[r] : r \in Records}
Positions == 0..(Capacity - 1)
NoPos == -1   \* no entry in corrIdx

ASSUME MemoryAssumption ==
  /\ NoRecord \notin Records
  /\ Kind \in [Records -> {"request", "response", "outbound"}]
  /\ DOMAIN Corr = Records
  /\ Capacity \in Nat \ {0}

VARIABLES
  buf, head, size, corrIdx,   \* the fields of MemorySink
  calls,    \* the reader is between its calls of Len and Recent
  len,      \* what Len returned to each reader
  got,      \* what the last call returned to each reader
  written,  \* history: the records written so far
  stable    \* history: the records that were there throughout a reader's calls

ring == <<buf, head, size, corrIdx>>
vars == <<ring, calls, len, got, written, stable>>

Init ==
  /\ buf = [i \in Positions |-> NoRecord]
  /\ head = 0
  /\ size = 0
  /\ corrIdx = [k \in Corrs |-> NoPos]
  /\ calls = [c \in Readers |-> FALSE]
  /\ len = [c \in Readers |-> 0]
  /\ got = [c \in Readers |-> <<>>]
  /\ written = {}
  /\ stable = [c \in Readers |-> {}]

-----------------------------------------------------------------------------
Lesser(m, n) == IF m < n THEN m ELSE n

\* The place of the i-th newest record: Recent goes backwards from head.
At(i) == (head - i + Capacity) % Capacity

Recent(n) == [i \in 1..Lesser(n, size) |-> buf[At(i)]]

Contents == Recent(size)

InRing == {buf[At(i)] : i \in 1..size}

After(pos) == (pos + 1) % Capacity

\* Mutant: the entry of an evicted record's correlation id goes even when a
\* newer record has taken it over.
Unindex_Always(pos) ==
  IF size = Capacity THEN [corrIdx EXCEPT ![Corr[buf[pos]]] = NoPos] ELSE corrIdx

\* The index without the entry that points at the record about to be evicted.
Unindex(pos) ==
  IF size = Capacity /\ corrIdx[Corr[buf[pos]]] = pos
    THEN [corrIdx EXCEPT ![Corr[buf[pos]]] = NoPos]
    ELSE corrIdx

Write(r) ==
  /\ r \notin written
  /\ buf' = [buf EXCEPT ![head] = r]
  /\ corrIdx' = [Unindex(head) EXCEPT ![Corr[r]] = head]
  /\ head' = After(head)
  /\ size' = IF size < Capacity THEN size + 1 ELSE size
  /\ written' = written \cup {r}
  /\ UNCHANGED <<calls, len, got, stable>>

ByCorrelationID(c, k) ==
  /\ ~calls[c]
  /\ got' = [got EXCEPT ![c] = IF corrIdx[k] = NoPos THEN <<NoRecord>>
                               ELSE <<buf[corrIdx[k]]>>]
  /\ stable' = [stable EXCEPT ![c] = {}]
  /\ UNCHANGED <<ring, calls, len, written>>

\* s.Recent(s.Len()), with which ReadRoots, ReadDetail, AggregateRoots,
\* ServicesSeen, ServiceStats and OrphanCounts begin: Len and Recent lock the
\* mutex one after the other, and a Write can come between them.
CallLen(c) ==
  /\ ~calls[c]
  /\ calls' = [calls EXCEPT ![c] = TRUE]
  /\ len' = [len EXCEPT ![c] = size]
  /\ stable' = [stable EXCEPT ![c] = InRing]
  /\ UNCHANGED <<ring, got, written>>

CallRecent(c) ==
  /\ calls[c]
  /\ calls' = [calls EXCEPT ![c] = FALSE]
  /\ got' = [got EXCEPT ![c] = Recent(len[c])]
  /\ stable' = [stable EXCEPT ![c] = @ \cap InRing]
  /\ UNCHANGED <<ring, len, written>>

Next ==
  \/ \E r \in Records : Write(r)
  \/ \E c \in Readers :
       \/ \E k \in Corrs : ByCorrelationID(c, k)
       \/ CallLen(c) \/ CallRecent(c)

Spec == Init /\ [][Next]_vars

-----------------------------------------------------------------------------
\* The fields of the sink stay in range, and the places in use hold records.
TypeOK ==
  /\ buf \in [Positions -> Records \cup {NoRecord}]
  /\ head \in Positions
  /\ size \in 0..Capacity
  /\ corrIdx \in [Corrs -> Positions \cup {NoPos}]
  /\ calls \in [Readers -> BOOLEAN]
  /\ len \in [Readers -> 0..Capacity]
  /\ got \in [Readers -> Seq(Records \cup {NoRecord})]
  /\ written \subseteq Records
  /\ stable \in [Readers -> SUBSET Records]

\* corrIdx is accurate: a correlation id has an entry exactly when a record in
\* the ring carries it, and the entry is the place of the newest such record.
IndexAccurate ==
  \A k \in Corrs :
    LET carriers == {i \in 1..size : Corr[buf[At(i)]] = k} IN
    \/ carriers = {} /\ corrIdx[k] = NoPos
    \/ \E i \in carriers : corrIdx[k] = At(i) /\ \A j \in carriers : i <= j

Log == INSTANCE RecentLog WITH recent <- Contents

\* Every call of Write, Recent and ByCorrelationID does to the ring what the
\* same call does to a list of the newest Capacity records.
ImplementsRecentLog == Log!Spec

-----------------------------------------------------------------------------
(* OrphanCounts over a snapshot s. *)

RequestCorrs(s) == {Corr[s[i]] : i \in {j \in 1..Len(s) : Kind[s[j]] = "request"}}

Orphans(s, kind) ==
  {s[i] : i \in {j \in 1..Len(s) : Kind[s[j]] = kind /\
                                   Corr[s[j]] \notin RequestCorrs(s)}}

\* An event that OrphanCounts counts has no request in the ring: none that was
\* there throughout the call, at least.
OrphanMeansNoRequest ==
  \A c \in Readers :
    ~calls[c] /\ stable[c] # {} =>
      \A kind \in {"response", "outbound"} : \A e \in Orphans(got[c], kind) :
        ~ \E r \in stable[c] : Kind[r] = "request" /\ Corr[r] = Corr[e]

=============================================================================
