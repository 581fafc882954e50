---------------------------- MODULE MCHeartbeat ----------------------------
(* Heartbeat for TLC, in seconds: timers of 1 s and 2 s, a logger that      *)
(* loops at least every second, a timeout of 4 s.                           *)
EXTENDS Heartbeat

MCPeriod == [temperature |-> 1, light |-> 2, logger |-> 1]
=============================================================================
