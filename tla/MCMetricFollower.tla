-------------------------- MODULE MCMetricFollower --------------------------
(* An instance whose bounds are all in the configuration.                  *)
EXTENDS MetricFollower
=============================================================================
