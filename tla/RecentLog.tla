----------------------------- MODULE RecentLog -----------------------------
(***************************************************************************)
(* What MemorySink promises: the newest Capacity records, newest first.    *)
(* Each call is one step.                                                  *)
(***************************************************************************)
EXTENDS Naturals, Sequences

CONSTANTS
  Records,    \* the records that may be written
  NoRecord,   \* the answer when nothing is found
  Corr,       \* the correlation id of each record
  Readers,    \* goroutines that read
  Capacity    \* how many records are kept

VARIABLES
  recent,     \* the records kept, newest first
  got         \* the answer each reader got last

Lesser(m, n) == IF m < n THEN m ELSE n

\* The n newest records.
Newest(n) == [i \in 1..Lesser(n, Len(recent)) |-> recent[i]]

Init ==
  /\ recent = <<>>
  /\ got = [c \in Readers |-> <<>>]

\* The new record goes in front; the oldest falls off a full list.
Write(r) ==
  /\ recent' = [i \in 1..Lesser(Len(recent) + 1, Capacity) |->
                  IF i = 1 THEN r ELSE recent[i - 1]]
  /\ UNCHANGED got

Look(c) ==
  /\ \E n \in 0..Capacity : got' = [got EXCEPT ![c] = Newest(n)]
  /\ UNCHANGED recent

\* A reader gets the newest record with some correlation id, or nothing.
Find(c, k) ==
  LET carriers == {i \in 1..Len(recent) : Corr[recent[i]] = k} IN
  /\ \/ carriers = {} /\ got' = [got EXCEPT ![c] = <<NoRecord>>]
     \/ \E i \in carriers : /\ \A j \in carriers : i <= j
                            /\ got' = [got EXCEPT ![c] = <<recent[i]>>]
  /\ UNCHANGED recent

Next ==
  \/ \E r \in Records : Write(r)
  \/ \E c \in Readers : Look(c) \/ \E r \in Records : Find(c, Corr[r])

Spec == Init /\ [][Next]_<<recent, got>>

=============================================================================
