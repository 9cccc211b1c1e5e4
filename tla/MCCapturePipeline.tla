------------------------- MODULE MCCapturePipeline -------------------------
(* Small instances of CapturePipeline for TLC. *)
EXTENDS CapturePipeline, TLC

\* A body refused as a whole, a valid batch of two, a batch with a bad item.
AllBatches == {<<>>, <<"ok", "ok">>, <<"ok", "bad">>}

SingleEvent == {<<"ok">>}

AllSinks == <<"stdout", "memory", "sqlite">>

OneSink == <<"sqlite">>

\* A second capture arrives only where no POST does: a capture and a batch race for
\* the queue, or two captures race for it and for the counters.
OneKind ==
  \/ Cardinality({h \in Captures : hpc[h] # "new"}) <= 1
  \/ \A p \in Posts : hpc[p] = "new"

MCSpec == Init /\ [][Next /\ OneKind']_vars

\* Captures are alike where all are unlabelled and synthesized.
Symmetry == Permutations(Workers) \cup Permutations(Captures)

=============================================================================
