---------------------------- MODULE MCTelemetry ----------------------------
(* Telemetry for TLC.  The producers' clocks are behind UTC, the server's  *)
(* is ahead of it.  The patterns > and events.> overlap: both select an    *)
(* event.                                                                  *)
EXTENDS Telemetry

Behind == {-2}
Overlapping == <<">", "events.>">>
Chosen == [p \in {">", "logs.>", "events.>"} |->
             CASE p = ">" -> Kinds
               [] p = "logs.>" -> Kinds \ {"event"}
               [] p = "events.>" -> {"event"}]
=============================================================================
