----------------------------- MODULE SinkProofs -----------------------------
(***************************************************************************)
(* The two sinks that keep records.  MemorySink, for every capacity, set of *)
(* records and set of correlation ids: the index is accurate and the ring is *)
(* a RecentLog.  The sweeper of the SQLite sink, for any rows, policy, clock *)
(* bound and number of restarts: TxAgrees is inductive, and with it rows   *)
(* leave the database by whole sweeps only.                                *)
(***************************************************************************)
EXTENDS MemorySink, Retention, FiniteSetTheorems, TLAPS

\* The places in use hold records.
RingFilled == \A i \in 1..size : buf[At(i)] \in Records

-----------------------------------------------------------------------------
(* Arithmetic of the ring. *)

\* Remainders of the numbers that occur.
LEMMA Modulo ==
  ASSUME NEW c \in Nat \ {0}, NEW a \in 0..(2 * c - 1)
  PROVE  a % c = IF a < c THEN a ELSE a - c
OBVIOUS

\* The i-th newest record is i places before head.
LEMMA AtValue ==
  ASSUME head \in Positions, NEW i \in 1..Capacity
  PROVE  /\ At(i) = IF i <= head THEN head - i ELSE head - i + Capacity
         /\ At(i) \in Positions
<1>1. Capacity \in Nat \ {0} BY MemoryAssumption DEF MemoryAssumption
<1>2. head - i + Capacity \in 0..(2 * Capacity - 1) BY <1>1 DEF Positions
<1> DEFINE a == head - i + Capacity
<1>3. a % Capacity = IF a < Capacity THEN a ELSE a - Capacity
  <2> HIDE DEF a
  <2>1. a \in 0..(2 * Capacity - 1) BY <1>2 DEF a
  <2>2. QED BY <1>1, <2>1, Modulo, Zenon
<1>4. QED BY <1>1, <1>2, <1>3 DEF At, Positions

\* Different records have different places, and only the oldest record of a
\* full ring has the place at head.
LEMMA AtInjective ==
  ASSUME head \in Positions, NEW i \in 1..Capacity, NEW j \in 1..Capacity
  PROVE  /\ At(i) = At(j) => i = j
         /\ At(i) = head <=> i = Capacity
<1>1. Capacity \in Nat \ {0} BY MemoryAssumption DEF MemoryAssumption
<1>2. QED BY <1>1, AtValue DEF Positions

\* A write makes the i-th newest record the (i+1)-th.
LEMMA AtShift ==
  ASSUME head \in Positions, head' = After(head)
  PROVE  /\ head' \in Positions
         /\ At(1)' = head
         /\ \A i \in 1..(Capacity - 1) : At(i + 1)' = At(i)
<1>1. Capacity \in Nat \ {0} BY MemoryAssumption DEF MemoryAssumption
<1>2. head' = IF head + 1 < Capacity THEN head + 1 ELSE head + 1 - Capacity
  <2> DEFINE a == head + 1
  <2>1. a \in 0..(2 * Capacity - 1) BY <1>1 DEF Positions
  <2>2. a % Capacity = IF a < Capacity THEN a ELSE a - Capacity
    <3> HIDE DEF a
    <3>1. QED BY <1>1, <2>1, Modulo
  <2>3. QED BY <1>1, <2>2 DEF After, Positions
<1>3. head' \in Positions BY <1>1, <1>2 DEF Positions
<1>4. ASSUME NEW i \in 1..Capacity
      PROVE  At(i)' = IF i <= head' THEN head' - i ELSE head' - i + Capacity
  <2>1. head' - i + Capacity \in 0..(2 * Capacity - 1)
    BY <1>1, <1>3 DEF Positions
  <2>2. QED BY <1>1, <1>3, <2>1, Modulo DEF At, Positions
<1>5. At(1)' = head BY <1>1, <1>2, <1>4 DEF Positions
<1>6. ASSUME NEW i \in 1..(Capacity - 1) PROVE At(i + 1)' = At(i)
  <2>1. i \in 1..Capacity /\ i + 1 \in 1..Capacity BY <1>1
  <2>2. At(i) = IF i <= head THEN head - i ELSE head - i + Capacity
    BY <2>1, AtValue
  <2>3. At(i + 1)' = IF i + 1 <= head' THEN head' - (i + 1)
                     ELSE head' - (i + 1) + Capacity
    BY <2>1, <1>4
  <2>4. QED BY <1>1, <1>2, <2>2, <2>3 DEF Positions
<1>7. QED BY <1>3, <1>5, <1>6

-----------------------------------------------------------------------------
(* The ring after a write. *)

\* size grows up to the capacity.
SizeAfter == IF size < Capacity THEN size + 1 ELSE size

\* The new record is the newest; every other place in use moves down by one and
\* still holds what it held.
LEMMA WrittenRing ==
  ASSUME TypeOK, NEW r \in Records, Write(r)
  PROVE  /\ At(1)' = head /\ buf'[At(1)'] = r
         /\ \A i \in 2..size' : /\ i - 1 \in 1..size /\ i - 1 < Capacity
                                /\ At(i)' = At(i - 1)
                                /\ buf'[At(i)'] = buf[At(i - 1)]
         /\ size' \in 1..Capacity
<1>1. Capacity \in Nat \ {0} BY MemoryAssumption DEF MemoryAssumption
<1>2. /\ At(1)' = head
      /\ \A i \in 1..(Capacity - 1) : At(i + 1)' = At(i)
  BY AtShift DEF Write, TypeOK
<1>3. buf'[head] = r BY DEF Write, TypeOK
<1>4. size \in 0..Capacity /\ size' = SizeAfter
  BY DEF Write, TypeOK, SizeAfter
<1>5. size' \in 1..Capacity BY <1>1, <1>4 DEF SizeAfter
<1>6. ASSUME NEW i \in 2..size'
      PROVE  /\ i - 1 \in 1..size /\ i - 1 < Capacity
             /\ At(i)' = At(i - 1) /\ buf'[At(i)'] = buf[At(i - 1)]
  <2>1. i - 1 \in 1..size /\ i - 1 \in 1..(Capacity - 1) /\ i - 1 < Capacity
    BY <1>1, <1>4 DEF SizeAfter
  <2>2. (i - 1) + 1 = i BY <1>5
  <2>3. At(i)' = At(i - 1) BY <1>2, <2>1, <2>2
  <2>4. At(i - 1) \in Positions /\ At(i - 1) # head
    BY <1>1, <2>1, AtValue, AtInjective DEF TypeOK
  <2>5. buf'[At(i - 1)] = buf[At(i - 1)] BY <2>4 DEF Write, TypeOK
  <2>6. QED BY <2>1, <2>3, <2>5
<1>7. QED BY <1>2, <1>3, <1>5, <1>6

\* A reader's answer is a sequence of records.
LEMMA RecentType ==
  ASSUME TypeOK, RingFilled, NEW n \in 0..Capacity
  PROVE  Recent(n) \in Seq(Records \cup {NoRecord})
<1>1. Capacity \in Nat \ {0} BY MemoryAssumption DEF MemoryAssumption
<1>2. Lesser(n, size) \in Nat /\ 1..Lesser(n, size) \subseteq 1..size
  BY <1>1 DEF Lesser, TypeOK
<1>3. \A i \in 1..Lesser(n, size) : buf[At(i)] \in Records
  BY <1>2 DEF RingFilled
<1>4. QED BY <1>2, <1>3 DEF Recent

\* The index without an entry is still an index.
LEMMA UnindexType ==
  ASSUME TypeOK
  PROVE  Unindex(head) \in [Corrs -> Positions \cup {NoPos}]
BY DEF Unindex, TypeOK

-----------------------------------------------------------------------------
\* The types, and that the places in use hold records, are preserved; what
\* ByCorrelationID returns is a record because the index is accurate.
LEMMA TypeStep ==
  ASSUME TypeOK, RingFilled, IndexAccurate, [Next]_vars
  PROVE  TypeOK' /\ RingFilled'
<1> USE DEF ring
<1>1. Capacity \in Nat \ {0} BY MemoryAssumption DEF MemoryAssumption
<1>2. ASSUME UNCHANGED ring PROVE RingFilled'
  BY <1>2 DEF RingFilled, At
<1>3. InRing \subseteq Records BY DEF InRing, RingFilled
<1>4. ASSUME NEW r \in Records, Write(r) PROVE TypeOK' /\ RingFilled'
  <2>1. head' \in Positions BY <1>4, AtShift DEF Write, TypeOK
  <2>2. size' \in 0..Capacity /\ size' \in 1..Capacity
    BY <1>1, <1>4, WrittenRing
  <2>3. buf' \in [Positions -> Records \cup {NoRecord}]
    BY <1>4 DEF Write, TypeOK
  <2>4. corrIdx' \in [Corrs -> Positions \cup {NoPos}]
    BY <1>4, UnindexType DEF Write, TypeOK
  <2>5. TypeOK' BY <1>4, <2>1, <2>2, <2>3, <2>4 DEF Write, TypeOK
  <2>6. ASSUME NEW i \in 1..size' PROVE buf'[At(i)'] \in Records
    <3>1. CASE i = 1 BY <1>4, <3>1, WrittenRing
    <3>2. CASE i # 1
      <4>1. i \in 2..size' BY <2>2, <3>2
      <4>2. QED BY <1>4, <4>1, WrittenRing DEF RingFilled
    <3>3. QED BY <3>1, <3>2
  <2>7. QED BY <2>5, <2>6 DEF RingFilled
<1>5. ASSUME NEW c \in Readers, NEW k \in Corrs, ByCorrelationID(c, k)
      PROVE  TypeOK' /\ RingFilled'
  <2>1. CASE corrIdx[k] = NoPos
    <3>1. <<NoRecord>> \in Seq(Records \cup {NoRecord}) OBVIOUS
    <3>2. QED BY <1>2, <1>5, <2>1, <3>1 DEF ByCorrelationID, TypeOK
  <2>2. CASE corrIdx[k] # NoPos
    <3>1. buf[corrIdx[k]] \in Records
      BY <1>5, <2>2 DEF IndexAccurate, RingFilled
    <3>2. <<buf[corrIdx[k]]>> \in Seq(Records \cup {NoRecord}) BY <3>1
    <3>3. QED BY <1>2, <1>5, <2>2, <3>2 DEF ByCorrelationID, TypeOK
  <2>3. QED BY <2>1, <2>2
<1>6. ASSUME NEW c \in Readers, CallLen(c) PROVE TypeOK' /\ RingFilled'
  BY <1>2, <1>3, <1>6 DEF CallLen, TypeOK
<1>7. ASSUME NEW c \in Readers, CallRecent(c) PROVE TypeOK' /\ RingFilled'
  <2>1. len[c] \in 0..Capacity BY DEF TypeOK
  <2>2. Recent(len[c]) \in Seq(Records \cup {NoRecord}) BY <2>1, RecentType
  <2>3. QED BY <1>2, <1>3, <1>7, <2>2 DEF CallRecent, TypeOK
<1>8. CASE UNCHANGED vars BY <1>2, <1>8 DEF vars, TypeOK
<1>9. QED BY <1>4, <1>5, <1>6, <1>7, <1>8 DEF Next

\* The index stays accurate.  After a write of r, the entry of r's correlation id
\* is r's place; that of the evicted record is gone unless a newer record of the
\* same id has it; every other entry is untouched and its record one older.
LEMMA IndexStep ==
  ASSUME TypeOK, RingFilled, IndexAccurate, [Next]_vars
  PROVE  IndexAccurate'
<1> USE DEF ring
<1>1. Capacity \in Nat \ {0} BY MemoryAssumption DEF MemoryAssumption
<1>2. CASE UNCHANGED ring BY <1>2 DEF IndexAccurate, At
<1>3. ASSUME NEW r \in Records, Write(r) PROVE IndexAccurate'
  <2> SUFFICES ASSUME NEW k \in Corrs
               PROVE  LET now == {i \in 1..size' : Corr[buf'[At(i)']] = k} IN
                      \/ now = {} /\ corrIdx'[k] = NoPos
                      \/ \E i \in now : corrIdx'[k] = At(i)'
                                        /\ \A j \in now : i <= j
    BY DEF IndexAccurate
  <2> DEFINE old == {i \in 1..size : Corr[buf[At(i)]] = k}
             now == {i \in 1..size' : Corr[buf'[At(i)']] = k}
  <2>1. size \in 0..Capacity /\ size' \in 1..Capacity
    BY <1>3, WrittenRing DEF TypeOK
  <2>2. size' = IF size < Capacity THEN size + 1 ELSE size BY <1>3 DEF Write
  <2>3. At(1)' = head /\ buf'[At(1)'] = r BY <1>3, WrittenRing
  <2>4. \A i \in 2..size' : /\ i - 1 \in 1..size /\ i - 1 < Capacity
                            /\ At(i)' = At(i - 1)
                            /\ buf'[At(i)'] = buf[At(i - 1)]
    BY <1>3, WrittenRing
  <2>5. corrIdx'[k] = IF k = Corr[r] THEN head ELSE Unindex(head)[k]
    BY <1>3, UnindexType DEF Write
  <2>6. CASE k = Corr[r]
    <3>1. 1 \in now BY <2>1, <2>3, <2>6
    <3>2. \A j \in now : 1 <= j BY <2>1
    <3>3. QED BY <2>3, <2>5, <2>6, <3>1, <3>2
  <2>7. CASE k # Corr[r]
    <3>1. \A j \in now : j \in 2..size' /\ j - 1 \in old
      <4> SUFFICES ASSUME NEW j \in now PROVE j \in 2..size' /\ j - 1 \in old
        OBVIOUS
      <4>1. j # 1 BY <2>3, <2>7
      <4>2. j \in 2..size' BY <2>1, <4>1
      <4>3. QED BY <2>4, <4>2
    <3>2. \A i \in old : i + 1 <= size' => i + 1 \in now
      <4> SUFFICES ASSUME NEW i \in old, i + 1 <= size' PROVE i + 1 \in now
        OBVIOUS
      <4>1. i + 1 \in 2..size' /\ (i + 1) - 1 = i BY <2>1
      <4>2. buf'[At(i + 1)'] = buf[At(i)] BY <2>4, <4>1
      <4>3. QED BY <4>1, <4>2
    <3>3. CASE old = {} /\ corrIdx[k] = NoPos
      <4>1. now = {} BY <3>1, <3>3
      <4>2. Unindex(head)[k] \in {corrIdx[k], NoPos} BY DEF Unindex, TypeOK
      <4>3. QED BY <2>5, <2>7, <3>3, <4>1, <4>2
    <3>4. ASSUME NEW i \in old, corrIdx[k] = At(i), \A j \in old : i <= j
          PROVE  \/ now = {} /\ corrIdx'[k] = NoPos
                 \/ \E m \in now : corrIdx'[k] = At(m)' /\ \A j \in now : m <= j
      <4>1. i \in 1..Capacity BY <1>1, <2>1
      <4>2. CASE i = Capacity
        <5>1. size = Capacity /\ size' = Capacity BY <1>1, <2>1, <2>2, <4>2
        <5>2. At(i) = head BY <4>1, <4>2, AtInjective DEF TypeOK
        <5>3. k = Corr[buf[head]] BY <5>2
        <5>4. Unindex(head)[k] = NoPos
          BY <3>4, <5>1, <5>2, <5>3 DEF Unindex, TypeOK
        <5>5. now = {} BY <2>1, <3>1, <3>4, <4>2, <5>1
        <5>6. QED BY <2>5, <2>7, <5>4, <5>5
      <4>3. CASE i # Capacity
        <5>1. i + 1 <= size' BY <1>1, <2>1, <2>2, <4>1, <4>3
        <5>2. i + 1 \in now BY <3>2, <5>1
        <5>3. At(i) # head BY <4>1, <4>3, AtInjective DEF TypeOK
        <5>4. Unindex(head)[k] = corrIdx[k]
          BY <3>4, <5>3 DEF Unindex, TypeOK
        <5>5. At(i + 1)' = At(i)
          <6>1. i + 1 \in 2..size' /\ (i + 1) - 1 = i BY <2>1, <5>1
          <6>2. QED BY <2>4, <6>1
        <5>6. \A j \in now : i + 1 <= j BY <2>1, <3>1, <3>4
        <5>7. QED BY <2>5, <2>7, <3>4, <5>2, <5>4, <5>5, <5>6
      <4>4. QED BY <4>2, <4>3
    <3>5. QED BY <3>3, <3>4 DEF IndexAccurate
  <2>8. QED BY <2>6, <2>7
<1>4. ASSUME NEW c \in Readers,
             (\E k \in Corrs : ByCorrelationID(c, k)) \/ CallLen(c) \/ CallRecent(c)
      PROVE  UNCHANGED ring
  BY <1>4 DEF ByCorrelationID, CallLen, CallRecent
<1>5. QED BY <1>2, <1>3, <1>4 DEF Next, vars

\* The fields stay in range, the places in use hold records and the correlation
\* index is accurate, whatever the capacity and the order of the calls.
THEOREM MemoryTypeCorrect == Spec => [](TypeOK /\ RingFilled /\ IndexAccurate)
<1>1. Init => TypeOK /\ RingFilled /\ IndexAccurate
  <2> SUFFICES ASSUME Init PROVE TypeOK /\ RingFilled /\ IndexAccurate
    OBVIOUS
  <2>1. Capacity \in Nat \ {0} BY MemoryAssumption DEF MemoryAssumption
  <2>2. 1..size = {} BY DEF Init
  <2>3. <<>> \in Seq(Records \cup {NoRecord}) OBVIOUS
  <2>4. TypeOK BY <2>1, <2>3 DEF Init, TypeOK, Positions
  <2>5. RingFilled BY <2>2 DEF RingFilled
  <2>6. IndexAccurate BY <2>2 DEF Init, IndexAccurate
  <2>7. QED BY <2>4, <2>5, <2>6
<1>2. TypeOK /\ RingFilled /\ IndexAccurate /\ [Next]_vars
        => TypeOK' /\ RingFilled' /\ IndexAccurate'
  BY TypeStep, IndexStep
<1>3. QED BY <1>1, <1>2, PTL DEF Spec

-----------------------------------------------------------------------------
(* The ring implements RecentLog. *)

\* What the list in RecentLog is when it is read off the ring.
LEMMA ContentsValue ==
  ASSUME TypeOK
  PROVE  /\ Contents = [i \in 1..size |-> buf[At(i)]]
         /\ Len(Contents) = size
         /\ size \in Nat
<1>1. Capacity \in Nat \ {0} BY MemoryAssumption DEF MemoryAssumption
<1>2. size \in Nat BY <1>1 DEF TypeOK
<1>3. Lesser(size, size) = size BY <1>2 DEF Lesser
<1>4. Contents = [i \in 1..size |-> buf[At(i)]] BY <1>3 DEF Contents, Recent
<1>5. QED BY <1>2, <1>4

\* A write puts the record in front of the list.
LEMMA WriteImplements ==
  ASSUME TypeOK, TypeOK', NEW r \in Records, Write(r)
  PROVE  Log!Write(r)
<1>1. Capacity \in Nat \ {0} BY MemoryAssumption DEF MemoryAssumption
<1>2. /\ Contents = [i \in 1..size |-> buf[At(i)]] /\ Len(Contents) = size
      /\ size \in 0..Capacity
  BY ContentsValue DEF TypeOK
<1>3. Contents' = [i \in 1..size' |-> buf'[At(i)']]
  <2>1. size' \in Nat BY <1>1 DEF TypeOK
  <2>2. (size' < size') = FALSE BY <2>1
  <2>3. QED BY <2>2 DEF Contents, Recent, Lesser
<1>4. size' = Log!Lesser(Len(Contents) + 1, Capacity)
  BY <1>1, <1>2 DEF Write, Log!Lesser
<1>5. ASSUME NEW i \in 1..size'
      PROVE  buf'[At(i)'] = IF i = 1 THEN r ELSE Contents[i - 1]
  <2>1. CASE i = 1 BY <2>1, WrittenRing
  <2>2. CASE i # 1
    <3>1. size' \in Nat BY <1>1 DEF TypeOK
    <3>2. i \in 2..size' BY <2>2, <3>1
    <3>3. i - 1 \in 1..size /\ buf'[At(i)'] = buf[At(i - 1)] BY <3>2, WrittenRing
    <3>4. QED BY <1>2, <2>2, <3>3
  <2>3. QED BY <2>1, <2>2
<1>6. Contents' = [i \in 1..Log!Lesser(Len(Contents) + 1, Capacity) |->
                     IF i = 1 THEN r ELSE Contents[i - 1]]
  BY <1>3, <1>4, <1>5
<1>7. QED BY <1>6 DEF Log!Write, Write

\* Recent answers with the newest records of the list.
LEMMA RecentImplements ==
  ASSUME TypeOK, NEW c \in Readers, CallRecent(c)
  PROVE  Log!Look(c)
<1>1. Capacity \in Nat \ {0} BY MemoryAssumption DEF MemoryAssumption
<1>2. /\ Contents = [i \in 1..size |-> buf[At(i)]] /\ Len(Contents) = size
      /\ size \in Nat
  BY ContentsValue
<1>3. len[c] \in 0..Capacity BY DEF TypeOK
<1>4. 1..Lesser(len[c], size) \subseteq 1..size
  BY <1>1, <1>2, <1>3 DEF Lesser
<1>5. Recent(len[c]) = Log!Newest(len[c])
  BY <1>2, <1>4 DEF Recent, Log!Newest, Lesser, Log!Lesser
<1>6. UNCHANGED Contents
  BY DEF CallRecent, ring, Contents, Recent, Lesser, At
<1>7. QED BY <1>3, <1>5, <1>6, Zenon DEF CallRecent, Log!Look

\* ByCorrelationID answers with the newest record of that correlation id.
LEMMA FindImplements ==
  ASSUME TypeOK, IndexAccurate, NEW c \in Readers, NEW k \in Corrs,
         ByCorrelationID(c, k)
  PROVE  Log!Find(c, k)
<1> DEFINE carriers == {i \in 1..Len(Contents) : Corr[Contents[i]] = k}
<1>1. /\ Contents = [i \in 1..size |-> buf[At(i)]] /\ Len(Contents) = size
  BY ContentsValue
<1>2. carriers = {i \in 1..size : Corr[buf[At(i)]] = k} BY <1>1, Zenon
<1>3. UNCHANGED Contents
  BY DEF ByCorrelationID, ring, Contents, Recent, Lesser, At
<1>4. CASE carriers = {} /\ corrIdx[k] = NoPos
  BY <1>3, <1>4 DEF ByCorrelationID, Log!Find
<1>5. ASSUME NEW i \in carriers, corrIdx[k] = At(i), \A j \in carriers : i <= j
      PROVE  Log!Find(c, k)
  <2>1. At(i) # NoPos
    <3>1. Capacity \in Nat \ {0} BY MemoryAssumption DEF MemoryAssumption
    <3>2. i \in 1..size BY <1>2
    <3>3. i \in 1..Capacity BY <3>1, <3>2 DEF TypeOK
    <3>4. At(i) \in Positions BY <3>3, AtValue DEF TypeOK
    <3>5. QED BY <3>1, <3>4 DEF Positions, NoPos
  <2>2. buf[corrIdx[k]] = Contents[i] BY <1>1, <1>2, <1>5
  <2>3. got' = [got EXCEPT ![c] = <<Contents[i]>>]
    BY <1>5, <2>1, <2>2 DEF ByCorrelationID
  <2>4. QED BY <1>3, <1>5, <2>3 DEF Log!Find
<1>6. QED BY <1>2, <1>4, <1>5 DEF IndexAccurate

\* The ring with its index implements the list of the newest records, for every
\* capacity: each call is the abstract call or leaves the list and the answers
\* alone.
THEOREM RingImplementsLog == Spec => ImplementsRecentLog
<1>1. Init => Log!Init
  <2> SUFFICES ASSUME Init PROVE Contents = <<>> /\ got = [c \in Readers |-> <<>>]
    BY DEF Log!Init
  <2>1. Contents = <<>> BY DEF Init, Contents, Recent, Lesser
  <2>2. QED BY <2>1 DEF Init
<1>2. TypeOK /\ TypeOK' /\ IndexAccurate /\ [Next]_vars
        => [Log!Next]_<<Contents, got>>
  <2> SUFFICES ASSUME TypeOK, TypeOK', IndexAccurate, [Next]_vars
               PROVE  [Log!Next]_<<Contents, got>>
    OBVIOUS
  <2>1. ASSUME NEW r \in Records, Write(r) PROVE Log!Next
    BY <2>1, WriteImplements DEF Log!Next
  <2>2. ASSUME NEW c \in Readers, NEW k \in Corrs, ByCorrelationID(c, k)
        PROVE  Log!Next
    <3>1. PICK r \in Records : k = Corr[r] BY DEF Corrs
    <3>2. Log!Find(c, Corr[r]) BY <2>2, <3>1, FindImplements
    <3>3. QED BY <3>2 DEF Log!Next
  <2>3. ASSUME NEW c \in Readers, CallRecent(c) PROVE Log!Next
    BY <2>3, RecentImplements DEF Log!Next
  <2>4. ASSUME UNCHANGED ring, UNCHANGED got PROVE UNCHANGED <<Contents, got>>
    BY <2>4 DEF ring, Contents, Recent, Lesser, At
  <2>5. ASSUME NEW c \in Readers, CallLen(c) PROVE UNCHANGED <<Contents, got>>
    BY <2>4, <2>5 DEF CallLen
  <2>6. CASE UNCHANGED vars BY <2>4, <2>6 DEF vars
  <2>7. QED BY <2>1, <2>2, <2>3, <2>5, <2>6 DEF Next
<1>3. QED BY <1>1, <1>2, MemoryTypeCorrect, PTL DEF Spec, ImplementsRecentLog, Log!Spec

-----------------------------------------------------------------------------
(* The retention sweeper. *)

\* A set of rows has a natural number of members, which the count policy needs.
LEMMA RowsFinite ==
  ASSUME NEW S \in SUBSET Rows
  PROVE  IsFiniteSet(S) /\ Cardinality(S) \in Nat
BY RetentionAssumption, FS_Subset, FS_CardinalityType DEF RetentionAssumption

\* The policy bounds the age or the number of rows, not both.
LEMMA PolicyBounds ==
  ASSUME policy \in Policies
  PROVE  MaxAge \in Nat /\ MaxCount \in Nat /\ (MaxAge = 0) # (MaxCount = 0)
BY RetentionAssumption DEF RetentionAssumption, MaxAge, MaxCount

\* A cutoff that is a retention age in the past stays so.
LEMMA LaterStill ==
  ASSUME NEW c \in Int, NEW t \in Int, NEW u \in Int, NEW age \in Nat, c <= t - age, t <= u
  PROVE  c <= u - age
OBVIOUS

\* A DELETE leaves a subset of the table that the policy describes: all and only
\* the rows with a timestamp from the cutoff on, or the newest MaxCount.
LEMMA SurvivorsTrim ==
  ASSUME policy \in Policies,
         NEW t \in SUBSET Rows, NEW before \in SUBSET Rows, NEW after \in SUBSET Rows,
         NEW c \in Int, MaxAge > 0 => c <= clock - MaxAge,
         NEW k \in Survivors(before \cap t, c), after \cap t = k
  PROVE  Trimmed(t, before, after, c)
<1>1. CASE MaxAge > 0
  <2>1. k = {r \in before \cap t : stamp[r] >= c}
    BY <1>1 DEF Survivors
  <2>2. MaxCount = 0
    BY <1>1, PolicyBounds
  <2> QED BY <2>1, <2>2 DEF Trimmed
<1>2. CASE ~(MaxAge > 0)
  <2>1. /\ k \subseteq before \cap t
        /\ \/ Cardinality(k) = MaxCount
           \/ k = before \cap t /\ Cardinality(k) < MaxCount
        /\ \A r \in k : \A s \in (before \cap t) \ k : stamp[s] <= stamp[r]
    BY <1>2 DEF Survivors, Newest
  <2>2. Cardinality(k) \in Nat /\ MaxCount \in Nat
    BY <2>1, RowsFinite, PolicyBounds
  <2>3. /\ Cardinality(after \cap t) <= MaxCount
        /\ after \cap t # before \cap t => Cardinality(after \cap t) = MaxCount
    <3>1. Cardinality(after \cap t) = Cardinality(k)
      OBVIOUS
    <3>2. /\ Cardinality(k) <= MaxCount
          /\ k # before \cap t => Cardinality(k) = MaxCount
      BY <2>1, <2>2
    <3> QED BY <3>1, <3>2
  <2>4. (before \ after) \cap t = (before \cap t) \ k
    OBVIOUS
  <2> QED BY <1>2, <2>1, <2>3, <2>4 DEF Trimmed
<1> QED BY <1>1, <1>2

\* What a DELETE has left stays right while time passes and records are captured:
\* the timestamps of stored rows do not change.
LEMMA TrimmedStable ==
  ASSUME policy \in Policies, NEW t, NEW before, NEW after, NEW c \in Int,
         Trimmed(t, before, after, c), clock \in Int, clock' \in Int, clock <= clock',
         \A r \in before \cup after : stamp'[r] = stamp[r]
  PROVE  /\ after \cap t \subseteq before \cap t
         /\ MaxAge > 0 =>
              /\ c <= clock' - MaxAge
              /\ \A r \in before \cap t : r \in after <=> stamp'[r] >= c
         /\ MaxCount > 0 =>
              /\ Cardinality(after \cap t) <= MaxCount
              /\ after \cap t # before \cap t => Cardinality(after \cap t) = MaxCount
              /\ \A r \in after \cap t : \A s \in (before \ after) \cap t : stamp'[s] <= stamp'[r]
<1>1. MaxAge \in Nat
  BY PolicyBounds
<1>2. after \cap t \subseteq before \cap t
  BY DEF Trimmed
<1>3. ASSUME MaxAge > 0
      PROVE  /\ c <= clock' - MaxAge
             /\ \A r \in before \cap t : r \in after <=> stamp'[r] >= c
  <2>1. c <= clock - MaxAge
    BY <1>3 DEF Trimmed
  <2>2. \A r \in before \cap t : r \in after <=> stamp[r] >= c
    BY <1>3 DEF Trimmed
  <2>3. c <= clock' - MaxAge
    BY <1>1, <2>1, LaterStill
  <2>4. \A r \in before \cap t : r \in after <=> stamp'[r] >= c
    BY <2>2
  <2> QED BY <2>3, <2>4
<1>4. ASSUME MaxCount > 0
      PROVE  /\ Cardinality(after \cap t) <= MaxCount
             /\ after \cap t # before \cap t => Cardinality(after \cap t) = MaxCount
             /\ \A r \in after \cap t : \A s \in (before \ after) \cap t :
                  stamp'[s] <= stamp'[r]
  <2>1. \A r \in after \cap t : \A s \in (before \ after) \cap t : stamp[s] <= stamp[r]
    BY <1>4 DEF Trimmed
  <2>2. \A r \in after \cap t : \A s \in (before \ after) \cap t : stamp'[s] <= stamp'[r]
    BY <2>1
  <2> QED BY <1>4, <2>2 DEF Trimmed
<1> QED BY <1>2, <1>3, <1>4

\* The parts of TxAgrees besides the types.
Stamped == \A r \in db \cup tx \cup queued : stamp[r] \in 0..clock

InStep ==
  /\ conn = "tx" <=> sweep \in {"begun", "requests", "events"}
  /\ sweep = "begun" => tx = db
  /\ sweep = "requests" => /\ Trimmed(Requests, db, tx, cutoff)
                           /\ tx \cap Events = db \cap Events
  /\ sweep = "events" => \A t \in Tables : Trimmed(t, db, tx, cutoff)

\* The same for both tables of the sweep under way: a step that leaves the rows,
\* the transaction and the sweeper alone and only adds timestamps or time.
LEMMA SweepStable ==
  ASSUME TxAgrees, UNCHANGED <<policy, db, tx, cutoff, sweep, conn>>,
         clock' \in Int, clock <= clock',
         \A r \in Rows : stamp[r] # Never => stamp'[r] = stamp[r]
  PROVE  InStep'
<1>0. policy \in Policies /\ MaxAge' = MaxAge /\ MaxCount' = MaxCount
  BY DEF TxAgrees, RetentionTypeOK, MaxAge, MaxCount
<1>1. clock \in Int /\ cutoff \in Int
  BY <1>0, PolicyBounds, RetentionAssumption DEF RetentionAssumption, TxAgrees, RetentionTypeOK
<1>2. \A r \in db \cup tx : stamp'[r] = stamp[r]
  BY DEF TxAgrees, RetentionTypeOK, Never
<1>3. ASSUME NEW t, Trimmed(t, db, tx, cutoff)
      PROVE  Trimmed(t, db, tx, cutoff)'
  <2> HIDE DEF TxAgrees
  <2>1. /\ tx \cap t \subseteq db \cap t
        /\ MaxAge > 0 =>
             /\ cutoff <= clock' - MaxAge
             /\ \A r \in db \cap t : r \in tx <=> stamp'[r] >= cutoff
        /\ MaxCount > 0 =>
             /\ Cardinality(tx \cap t) <= MaxCount
             /\ tx \cap t # db \cap t => Cardinality(tx \cap t) = MaxCount
             /\ \A r \in tx \cap t : \A s \in (db \ tx) \cap t : stamp'[s] <= stamp'[r]
    BY <1>0, <1>1, <1>2, <1>3, TrimmedStable
  <2> QED BY <1>0, <2>1 DEF Trimmed
<1>4. sweep = "requests" => Trimmed(Requests, db, tx, cutoff)'
  BY <1>3, Zenon DEF TxAgrees
<1>5. sweep = "events" => \A t \in Tables : Trimmed(t, db, tx, cutoff)'
  BY <1>3, Zenon DEF TxAgrees
<1> QED BY <1>4, <1>5, Zenon DEF TxAgrees, InStep

-----------------------------------------------------------------------------
\* The first DELETE: captured_requests is trimmed, events not yet.
LEMMA DeleteRequestsTrims ==
  ASSUME TxAgrees, DeleteRequests
  PROVE  /\ cutoff' \in -MaxAge..MaxTime
         /\ tx' \subseteq tx /\ tx \subseteq Rows
         /\ Trimmed(Requests, db, tx, cutoff)'
         /\ tx' \cap Events = db' \cap Events
<1>0. /\ MaxAge \in Nat /\ MaxTime \in Nat /\ Requests \subseteq Rows
      /\ clock \in 0..MaxTime /\ tx \subseteq Rows /\ tx = db /\ policy \in Policies
  BY RetentionAssumption, PolicyBounds
     DEF RetentionAssumption, TxAgrees, RetentionTypeOK, DeleteRequests
<1>p. MaxAge' = MaxAge /\ MaxCount' = MaxCount
  BY DEF DeleteRequests, MaxAge, MaxCount
<1>1. cutoff' = clock - MaxAge /\ db' = db /\ clock' = clock /\ stamp' = stamp
  BY DEF DeleteRequests
<1>2. PICK k \in Survivors(tx \cap Requests, cutoff') : tx' = (tx \cap Events) \cup k
  BY DEF DeleteRequests
<1>3. k \subseteq tx \cap Requests
  BY <1>2 DEF Survivors, Newest
<1>4. /\ tx' \subseteq tx /\ tx' \cap Requests = k /\ tx' \cap Events = db \cap Events
  BY <1>0, <1>2, <1>3 DEF Events
<1>5. cutoff' \in Int /\ cutoff' <= clock - MaxAge /\ cutoff' \in -MaxAge..MaxTime
  BY <1>0, <1>1
<1>6. Trimmed(Requests, db, tx', cutoff')
  <2>1. k \in Survivors(db \cap Requests, cutoff')
    BY <1>0, <1>2
  <2> QED BY <1>0, <1>4, <1>5, <2>1, SurvivorsTrim
<1> QED BY <1>0, <1>p, <1>1, <1>4, <1>5, <1>6 DEF Trimmed

\* The second DELETE: both tables are trimmed, by the cutoff of the first.
LEMMA DeleteEventsTrims ==
  ASSUME TxAgrees, DeleteEvents
  PROVE  /\ tx' \subseteq tx /\ tx \subseteq Rows
         /\ \A t \in Tables : Trimmed(t, db, tx, cutoff)'
<1>0. /\ MaxAge \in Nat /\ MaxTime \in Nat /\ Requests \subseteq Rows
      /\ clock \in Int /\ cutoff \in Int /\ tx \subseteq Rows /\ db \subseteq Rows
      /\ Trimmed(Requests, db, tx, cutoff) /\ tx \cap Events = db \cap Events
      /\ policy \in Policies
  BY RetentionAssumption, PolicyBounds
     DEF RetentionAssumption, TxAgrees, RetentionTypeOK, DeleteEvents
<1>p. MaxAge' = MaxAge /\ MaxCount' = MaxCount
  BY DEF DeleteEvents, MaxAge, MaxCount
<1>1. cutoff' = cutoff /\ db' = db /\ clock' = clock /\ stamp' = stamp
  BY DEF DeleteEvents
<1>2. PICK k \in Survivors(tx \cap Events, cutoff) : tx' = (tx \cap Requests) \cup k
  BY DEF DeleteEvents
<1>3. k \subseteq tx \cap Events
  BY <1>2 DEF Survivors, Newest
<1>4. tx' \subseteq tx /\ tx' \cap Events = k /\ tx' \cap Requests = tx \cap Requests
  BY <1>0, <1>2, <1>3 DEF Events
<1>5. MaxAge > 0 => cutoff <= clock - MaxAge
  BY <1>0 DEF Trimmed
<1>6. Trimmed(Events, db, tx', cutoff)
  <2>1. k \in Survivors(db \cap Events, cutoff)
    BY <1>0, <1>2
  <2>2. Events \in SUBSET Rows
    BY DEF Events
  <2> QED BY <1>0, <1>4, <1>5, <2>1, <2>2, SurvivorsTrim
<1>7. Trimmed(Requests, db, tx', cutoff)
  <2>1. \A r \in db \cap Requests : r \in tx' <=> r \in tx
    BY <1>4
  <2>2. (db \ tx') \cap Requests = (db \ tx) \cap Requests
    BY <1>4
  <2> QED BY <1>0, <1>4, <2>1, <2>2 DEF Trimmed
<1> QED BY <1>p, <1>1, <1>4, <1>0, <1>6, <1>7 DEF Trimmed, Tables

-----------------------------------------------------------------------------
\* The steps that concern neither the transaction nor the sweeper.
Aside ==
  /\ UNCHANGED <<policy, db, tx, cutoff, sweep, conn>>
  /\ Tick \/ (\E r \in Rows : Capture(r)) \/ Cancel \/ Close \/ UNCHANGED retentionVars

\* Next, sorted by what a step does to the sweep.
LEMMA SweeperCases ==
  ASSUME [RetentionNext]_retentionVars
  PROVE  \/ Aside \/ (\E r \in Rows : Insert(r)) \/ BeginTx \/ DeleteRequests \/ DeleteEvents
         \/ Commit \/ Abort \/ Checkpoint \/ Stop \/ Restart
<1>1. ASSUME Tick \/ (\E r \in Rows : Capture(r)) \/ Cancel \/ Close \/ UNCHANGED retentionVars
      PROVE  Aside
  BY <1>1, Zenon DEF Aside, Tick, Capture, Cancel, Close, retentionVars
<1> QED BY <1>1, Zenon DEF RetentionNext

\* Every step keeps the types.
LEMMA RetentionTypeStep ==
  ASSUME TxAgrees, [RetentionNext]_retentionVars
  PROVE  RetentionTypeOK' /\ MaxAge' = MaxAge /\ MaxCount' = MaxCount
<1>0. /\ MaxAge \in Nat /\ MaxTime \in Nat /\ MaxCrashes \in Nat
      /\ RetentionTypeOK /\ clock \in Int
  BY RetentionAssumption, PolicyBounds DEF RetentionAssumption, TxAgrees, RetentionTypeOK
<1>p. policy' = policy /\ MaxAge' = MaxAge /\ MaxCount' = MaxCount
  BY Zenon DEF RetentionNext, retentionVars, Tick, Capture, Insert, BeginTx, DeleteRequests,
               DeleteEvents, Commit, Abort, Checkpoint, Stop, Cancel, Close, Restart, MaxAge,
               MaxCount
<1> USE <1>p
<1>1. CASE Tick
  <2>1. clock' \in 0..MaxTime
    BY <1>0, <1>1 DEF Tick, RetentionTypeOK
  <2> QED BY <1>0, <1>1, <2>1, Zenon DEF Tick, RetentionTypeOK
<1>2. ASSUME NEW r \in Rows, Capture(r) PROVE RetentionTypeOK'
  <2>1. stamp' \in [Rows -> 0..MaxTime \cup {Never}] /\ queued' \subseteq Rows
    BY <1>0, <1>2 DEF Capture, RetentionTypeOK
  <2> QED BY <1>0, <1>2, <2>1, Zenon DEF Capture, RetentionTypeOK
<1>3. ASSUME NEW r \in Rows, Insert(r) PROVE RetentionTypeOK'
  <2>1. queued' \subseteq Rows /\ db' \subseteq Rows
    BY <1>0, <1>3 DEF Insert, RetentionTypeOK
  <2> QED BY <1>0, <1>3, <2>1, Zenon DEF Insert, RetentionTypeOK
<1>4. CASE DeleteRequests
  <2>1. cutoff' \in -MaxAge..MaxTime /\ tx' \subseteq Rows
    BY <1>4, DeleteRequestsTrims
  <2> QED BY <1>0, <1>4, <2>1, Zenon DEF DeleteRequests, RetentionTypeOK
<1>5. CASE DeleteEvents
  <2>1. tx' \subseteq Rows
    BY <1>5, DeleteEventsTrims
  <2> QED BY <1>0, <1>5, <2>1, Zenon DEF DeleteEvents, RetentionTypeOK
<1>6. 0 \in -MaxAge..MaxTime
  BY <1>0
<1>7. CASE Restart
  <2>1. crashes' \in 0..MaxCrashes
    BY <1>0, <1>7 DEF Restart, RetentionTypeOK
  <2> QED BY <1>0, <1>6, <1>7, <2>1, Zenon DEF Restart, EndTx, RetentionTypeOK
<1>8. CASE BeginTx \/ Commit \/ Abort
  BY <1>0, <1>6, <1>8, Zenon DEF BeginTx, Commit, Abort, EndTx, RetentionTypeOK
<1>9. CASE Checkpoint \/ Stop \/ Cancel \/ Close \/ UNCHANGED retentionVars
  BY <1>0, <1>9, Zenon DEF Checkpoint, Stop, Cancel, Close, retentionVars, RetentionTypeOK
<1> QED
  BY <1>1, <1>2, <1>3, <1>4, <1>5, <1>7, <1>8, <1>9, Zenon DEF RetentionNext

\* The timestamps of stored rows stay, and are not of the future.
LEMMA StampedStep ==
  ASSUME TxAgrees, [RetentionNext]_retentionVars
  PROVE  /\ Stamped' /\ clock' \in Int /\ clock <= clock'
         /\ \A r \in Rows : stamp[r] # Never => stamp'[r] = stamp[r]
<1>0. RetentionTypeOK /\ Stamped /\ clock \in 0..MaxTime /\ MaxTime \in Nat
  BY RetentionAssumption DEF RetentionAssumption, TxAgrees, RetentionTypeOK, Stamped
<1>1. CASE Tick
  BY <1>0, <1>1 DEF Tick, Stamped
<1>2. ASSUME NEW r \in Rows, Capture(r)
      PROVE  /\ Stamped' /\ clock' \in Int /\ clock <= clock'
             /\ \A s \in Rows : stamp[s] # Never => stamp'[s] = stamp[s]
  <2>1. stamp'[r] = clock /\ \A s \in Rows \ {r} : stamp'[s] = stamp[s]
    BY <1>0, <1>2 DEF Capture, RetentionTypeOK
  <2>2. /\ clock' = clock /\ stamp[r] = Never /\ db' = db /\ tx' = tx /\ queued' = queued \cup {r}
        /\ db \cup tx \cup queued \subseteq Rows
    BY <1>0, <1>2 DEF Capture, RetentionTypeOK
  <2> QED BY <1>0, <2>1, <2>2 DEF Stamped
<1>3. ASSUME clock' = clock, stamp' = stamp,
             (db \cup tx \cup queued)' \subseteq db \cup tx \cup queued
      PROVE  /\ Stamped' /\ clock' \in Int /\ clock <= clock'
             /\ \A s \in Rows : stamp[s] # Never => stamp'[s] = stamp[s]
  BY <1>0, <1>3 DEF Stamped
<1>4. ASSUME NEW r \in Rows, Insert(r)
      PROVE  /\ clock' = clock /\ stamp' = stamp
             /\ (db \cup tx \cup queued)' \subseteq db \cup tx \cup queued
  BY <1>4 DEF Insert
<1>5. CASE DeleteRequests
  BY <1>3, <1>5, DeleteRequestsTrims, Zenon DEF DeleteRequests
<1>6. CASE DeleteEvents
  BY <1>3, <1>6, DeleteEventsTrims, Zenon DEF DeleteEvents
<1>7. CASE BeginTx \/ Commit \/ Abort \/ Restart
  BY <1>3, <1>7 DEF BeginTx, Commit, Abort, Restart, EndTx
<1>8. CASE Checkpoint \/ Stop \/ Cancel \/ Close \/ UNCHANGED retentionVars
  BY <1>3, <1>8 DEF Checkpoint, Stop, Cancel, Close, retentionVars
<1> QED BY <1>1, <1>2, <1>3, <1>4, <1>5, <1>6, <1>7, <1>8, Zenon DEF RetentionNext

\* The transaction stays in step with the sweeper.
LEMMA InStepStep ==
  ASSUME TxAgrees, [RetentionNext]_retentionVars PROVE InStep'
<1>0. InStep
  BY Zenon DEF TxAgrees, InStep
<1>1. CASE Aside
  BY <1>1, StampedStep, SweepStable, Zenon DEF Aside
<1>2. ASSUME NEW r \in Rows, Insert(r) PROVE InStep'
  <2>1. UNCHANGED <<policy, tx, cutoff, sweep, conn>>
    BY <1>2, Zenon DEF Insert
  <2>2. CASE conn = "free"
    BY <1>0, <2>1, <2>2 DEF InStep
  <2>3. CASE conn # "free"
    <3>1. db' = db
      BY <1>2, <2>3, Zenon DEF Insert
    <3> QED BY <2>1, <3>1, StampedStep, SweepStable, Zenon
  <2> QED BY <2>2, <2>3
<1>3. CASE DeleteRequests
  <2>1. sweep' = "requests" /\ conn' = "tx"
    BY <1>0, <1>3 DEF DeleteRequests, InStep
  <2> QED BY <1>3, <2>1, DeleteRequestsTrims DEF InStep
<1>4. CASE DeleteEvents
  <2>1. sweep' = "events" /\ conn' = "tx"
    BY <1>0, <1>4 DEF DeleteEvents, InStep
  <2> QED BY <1>4, <2>1, DeleteEventsTrims DEF InStep
<1>5. CASE BeginTx \/ Commit \/ Abort \/ Restart
  BY <1>5 DEF BeginTx, Commit, Abort, Restart, EndTx, InStep
<1>6. CASE Checkpoint \/ Stop
  BY <1>0, <1>6 DEF Checkpoint, Stop, InStep
<1> QED BY <1>1, <1>2, <1>3, <1>4, <1>5, <1>6, SweeperCases, Zenon

\* The transaction of a sweep differs from the committed rows by the DELETEs it
\* has run, and holds the connection: in every instance of the sweeper.
THEOREM TransactionAgrees == RetentionSpec => []TxAgrees
<1>1. RetentionInit => TxAgrees
  <2> SUFFICES ASSUME RetentionInit PROVE TxAgrees
    OBVIOUS
  <2>1. MaxAge \in Nat /\ MaxTime \in Nat /\ MaxCrashes \in Nat
    BY RetentionAssumption, PolicyBounds DEF RetentionAssumption, RetentionInit
  <2>2. RetentionTypeOK
    <3>1. 0 \in -MaxAge..MaxTime /\ 0 \in 0..MaxTime /\ 0 \in 0..MaxCrashes
      BY <2>1
    <3>2. stamp \in [Rows -> 0..MaxTime \cup {Never}]
      BY DEF RetentionInit
    <3> QED BY <3>1, <3>2, Zenon DEF RetentionInit, RetentionTypeOK
  <2> QED BY <2>2 DEF RetentionInit, TxAgrees
<1>2. TxAgrees /\ [RetentionNext]_retentionVars => TxAgrees'
  BY RetentionTypeStep, StampedStep, InStepStep, Zenon DEF TxAgrees, Stamped, InStep
<1> QED BY <1>1, <1>2, PTL DEF RetentionSpec

\* Rows leave the database by whole sweeps only, both tables trimmed with one
\* cutoff, whatever fails, is cancelled, closed or killed.
THEOREM SweepsAreWhole == RetentionSpec => TrimIsWhole
<1>1. TxAgrees /\ [RetentionNext]_retentionVars => (db \ db' # {} => WholeTrim(db, db'))
  <2> SUFFICES ASSUME TxAgrees, [RetentionNext]_retentionVars, db \ db' # {}
               PROVE  WholeTrim(db, db')
    OBVIOUS
  <2>1. Commit
    BY DEF RetentionNext, retentionVars, Tick, Capture, Insert, BeginTx, DeleteRequests,
           DeleteEvents, Abort, Checkpoint, Stop, Cancel, Close, Restart
  <2>2. \A t \in Tables : Trimmed(t, db, tx, cutoff)
    BY <2>1, Zenon DEF Commit, TxAgrees
  <2>3. cutoff \in -MaxAge..MaxTime /\ db' = tx
    BY <2>1 DEF Commit, TxAgrees, RetentionTypeOK
  <2> QED BY <2>2, <2>3 DEF WholeTrim
<1> QED BY <1>1, TransactionAgrees, PTL DEF RetentionSpec, TrimIsWhole

=============================================================================
