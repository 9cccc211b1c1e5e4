--------------------------- MODULE MCInspectRoots ---------------------------
(* Instances of InspectRoots: rows with a tie in the timestamp. *)
EXTENDS InspectRoots

Row(t, i) == [ts |-> t, id |-> i]

\* Two rows share a timestamp, and ids do not follow the timestamps.
FourRows == {Row(1, 4), Row(2, 1), Row(2, 3), Row(3, 2)}

MatchingOfFour == {r \in FourRows : r.id # 2}

Both == {"memory", "sqlite"}
=============================================================================
