--------------------------- MODULE MetricsScrape ---------------------------
(***************************************************************************)
(* The capture pipeline together with a scrape of GET /metrics.  Collect    *)
(* loads the atomic counters one after the other while the handlers and    *)
(* workers go on adding to them.                                           *)
(***************************************************************************)
EXTENDS CapturePipeline

VARIABLES
  reads,   \* how many counters the running Collect has loaded, 0 when none runs
  seen     \* the values it has loaded

scrapeVars == <<reads, seen>>

\* The order of the loads.  Counters the pipeline model does not tell apart
\* (one ingested and one rejected counter for all types and reasons) are one
\* load; gauges, the authentication counters and the sink errors are left out.
CollectOrder == <<"captured", "dropped", "bodyReadErrors", "withoutCorrelation",
                  "withoutService", "panics", "ingested", "rejected",
                  "eventsDropped">>

ScrapeInit ==
  /\ Init
  /\ reads = 0
  /\ seen = [c \in Counters |-> 0]

Collect ==
  /\ phase # "exited"
  /\ reads = 0 => adminOpen
  /\ reads < Len(CollectOrder)
  /\ seen' = [seen EXCEPT ![CollectOrder[reads + 1]] = count[CollectOrder[reads + 1]]]
  /\ reads' = reads + 1
  /\ UNCHANGED vars

ScrapeNext == (Next /\ UNCHANGED scrapeVars) \/ Collect

ScrapeSpec == ScrapeInit /\ [][ScrapeNext]_<<vars, scrapeVars>>

-----------------------------------------------------------------------------
\* What captureHandler promises the dashboards: no scrape shows more requests
\* without a service or a correlation id than requests captured.
PossibleRatios ==
  reads = Len(CollectOrder) =>
    /\ seen["withoutService"] <= seen["captured"]
    /\ seen["withoutCorrelation"] <= seen["captured"]

=============================================================================
