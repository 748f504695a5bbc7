--------------------------- MODULE MCRequestPath ---------------------------
(***************************************************************************)
(* An instance of RequestPath for TLC: one worker with one place in its    *)
(* queue, three requests for it and a tool call beside them.               *)
(***************************************************************************)
EXTENDS RequestPath

CONSTANTS x1, x2, x3, t1

TextRequests == {x1, x2, x3}
ToolRequests == {t1}
\* the judges and the telemetry do not meet
Settings == {{"deadline", "judges"}, {"deadline", "telemetry"}, {"judges"}}
=============================================================================
