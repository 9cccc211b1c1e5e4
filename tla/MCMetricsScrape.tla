-------------------------- MODULE MCMetricsScrape --------------------------
(* A small instance of MetricsScrape for TLC. *)
EXTENDS MetricsScrape

OneSink == <<"memory">>

=============================================================================
