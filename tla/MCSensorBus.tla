---------------------------- MODULE MCSensorBus ----------------------------
(* SensorBus for TLC: two threads that may both read either sensor, as the  *)
(* socket thread does; a timer handler is one that happens to read one.     *)
EXTENDS SensorBus, TLC

CONSTANTS r1, r2

MCUsers == {r1, r2}
=============================================================================
