--------------------------- MODULE MC_Telemetry ----------------------------
(* Model-checking instances of the metrics reporter.                       *)
EXTENDS Telemetry

\* Two hosts, so that one can be evicted while the other stays active.
TwoHosts == {"h1", "h2"}

\* One host.
OneHost == {"h1"}
====
