---------------------------- MODULE MCRtosLogger ----------------------------
(* RtosLogger for TLC: the four tasks at the priorities main creates them with. *)
EXTENDS RtosLogger

MCTasks == {"led", "temp", "log", "alert"}
MCBase == [t \in MCTasks |-> IF t = "alert" THEN 2 ELSE 1]
=============================================================================
