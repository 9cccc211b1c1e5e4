---------------------------- MODULE MCMemorySink ----------------------------
(* Small instances of MemorySink for TLC. *)
EXTENDS MemorySink, TLC

CONSTANTS q1, q2, e1, e2, o1, ka, kb

AllRecords == {q1, q2, e1, e2, o1}
FewRecords == {q1, e1, o1}

MCKind == [r \in Records |->
             IF r \in {q1, q2} THEN "request"
             ELSE IF r \in {e1, e2} THEN "response" ELSE "outbound"]
MCCorr == [r \in Records |-> IF r \in {q1, e1, e2} THEN ka ELSE kb]

=============================================================================
