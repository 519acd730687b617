------------------------------ MODULE ProcessesMC ------------------------------
(* A TLC instance of three components that do not share state: McpServer,     *)
(* AnalyzerClient and Telemetry.  The first state chooses the one that moves. *)
EXTENDS McpServer, AnalyzerClient, Telemetry, TLC

VARIABLE subject

processesVars == <<subject, mcpVars, clientVars, telemetryVars>>

Init == /\ subject \in {"server", "client", "telemetry"}
        /\ McpInit /\ ClientInit /\ TelemetryInit
        /\ subject # "server" => runtime = NoOne

ServerMoves == /\ subject = "server" /\ McpNext
               /\ UNCHANGED <<subject, clientVars, telemetryVars>>
ClientMoves == /\ subject = "client" /\ ClientNext
               /\ UNCHANGED <<subject, mcpVars, telemetryVars>>
TelemetryMoves == /\ subject = "telemetry" /\ TelemetryNext
                  /\ UNCHANGED <<subject, mcpVars, clientVars>>

Next == ServerMoves \/ ClientMoves \/ TelemetryMoves

\* Fairness of a component is stated of its steps in its own behaviors.
Spec ==
  /\ Init /\ [][Next]_processesVars
  /\ subject = "server" => McpFairness
  /\ subject = "client" => ClientFairness

\* Calls of the server and runs of the analyzer come to their end.
CallsAndRunsEnd == <>[](NoneWaits /\ (subject = "client" => RunOver))
=============================================================================
