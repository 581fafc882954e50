---------------------- MODULE LogPipelineSerialProofs ----------------------
(***************************************************************************)
(* The outage of a sensor whose handlers do not overlap: its LED is lit    *)
(* and its record handed over.  With overlapping handlers neither holds    *)
(* (run pipeline_lost_alert), so both theorems assume one handler thread   *)
(* per sensor.                                                             *)
(***************************************************************************)
EXTENDS LogPipelineProofs

(* No two handler threads of one sensor. *)
Serial == \A g, h \in Handlers : SensorOf(g) = SensorOf(h) => g = h

(* What is known of an outage once it has been announced. *)
Lit(s) == error_status[s] # 0 => led[s] = 1
Announced(s) == error_status[s] # 0 /\ open[s] => last[s] = OutageLevel(s)

(* Where a handler stands in an outage: before its test it may have raised    *)
(* the counter from 0 to 1, and owes LED and record until it has sent.        *)
Outage(h) ==
    LET s == SensorOf(h) IN
    /\ hpc[h] \in {"off", "read", "load", "store", "recover", "flag"} => Lit(s) /\ Announced(s)
    /\ hpc[h] = "store" => seen[h] = error_status[s]
    /\ hpc[h] = "test" => (error_status[s] # 1 => Lit(s) /\ Announced(s))
    /\ hpc[h] \in {"send", "sending"} =>
          Lit(s) /\ (error_status[s] # 0 => msg[h] = OutageLevel(s))

(* A sensor without a handler has no outage. *)
Orphan(s) == (\A h \in Handlers : SensorOf(h) # s) => error_status[s] = 0

OInv ==
    /\ \A h \in Handlers : Outage(h)
    /\ \A s \in Sensors : Orphan(s)
-----------------------------------------------------------------------------
LEMMA OutageInit == Init => OInv
  BY DEF Init, OInv, Outage, Orphan, Lit, Announced, SensorOf, Sensors

LEMMA SensorIs == \A h \in Handlers : SensorOf(h) \in Sensors
  BY DEF SensorOf, Sensors

(* A step that moves no handler of a sensor and leaves its outage alone. *)
LEMMA OutageKept ==
  ASSUME NEW h \in Handlers, Outage(h), NEW s, s = SensorOf(h),
         hpc'[h] = hpc[h], seen'[h] = seen[h], msg'[h] = msg[h],
         error_status'[s] = error_status[s], led'[s] = led[s], last'[s] = last[s],
         open'[s] => open[s]
  PROVE  Outage(h)'
  BY DEF Outage, Lit, Announced

(* A process that starts again has counted no failure. *)
LEMMA OutageStarts == TypeOK /\ Started => OInv'
  BY SensorIs DEF Started, OInv, Outage, Orphan, Lit, Announced

(* The step of a handler touches the outage of its own sensor only. *)
LEMMA OutageHandled ==
  ASSUME Serial, TypeOK, OInv, NEW h \in Handlers, Expire(h) \/ Handle(h)
  PROVE  OInv'
<1> DEFINE s == SensorOf(h)
<1>1. s \in Sensors /\ Outage(h)
  BY SensorIs DEF OInv
<1>2. /\ \A x \in Sensors \ {s} :
            /\ error_status'[x] = error_status[x] /\ led'[x] = led[x]
            /\ last'[x] = last[x] /\ open'[x] = open[x]
      /\ \A g \in Handlers \ {h} :
            hpc'[g] = hpc[g] /\ seen'[g] = seen[g] /\ msg'[g] = msg[g]
  <2> USE <1>1 DEF TypeOK, Step, Compose, sensor, handler, logger, history
  <2>1. CASE Expire(h)
    BY <2>1 DEF Expire
  <2>2. CASE Read(h) \/ Load(h) \/ Store(h) \/ Test(h) \/ Led_on(h)
    BY <2>2 DEF Read, Load, Store, Test, First_failure, Later_failure, Led_on
  <2>3. CASE Recover(h) \/ Led_off(h) \/ Reset(h)
    BY <2>3 DEF Recover, Led_off, Reset
  <2>4. CASE Mq_send(h) \/ Enqueue(h) \/ Set_flag(h)
    BY <2>4 DEF Mq_send, Enqueue, Set_flag
  <2> QED
    BY <2>1, <2>2, <2>3, <2>4 DEF Handle
<1>3. \A g \in Handlers \ {h} : Outage(g)'
  <2> SUFFICES ASSUME NEW g \in Handlers \ {h} PROVE Outage(g)'
    OBVIOUS
  <2>1. SensorOf(g) \in Sensors \ {s}
    BY SensorIs DEF Serial
  <2> QED
    BY <1>2, <2>1, OutageKept DEF OInv
<1>4. \A x \in Sensors : Orphan(x)'
  BY <1>2 DEF Orphan, OInv
<1>5. Outage(h)'
  <2> USE <1>1 DEF TypeOK, Step, Compose, sensor, handler, logger, history, Outage, Lit, Announced
  <2>1. CASE Expire(h)
    BY <2>1 DEF Expire
  <2>2. CASE Read(h)
    BY <2>2 DEF Read
  <2>3. CASE Load(h)
    BY <2>3 DEF Load
  <2>4. CASE Store(h)
    BY <2>4 DEF Store
  <2>5. CASE Test(h)
    BY <2>5 DEF Test, First_failure, Later_failure
  <2>6. CASE Led_on(h)
    BY <2>6 DEF Led_on
  <2>7. CASE Recover(h) \/ Led_off(h)
    BY <2>7 DEF Recover, Led_off
  <2>8. CASE Reset(h)
    BY <2>8 DEF Reset
  <2>9. CASE Mq_send(h)
    BY <2>9 DEF Mq_send
  <2>10. CASE Enqueue(h)
    BY <2>10 DEF Enqueue
  <2>11. CASE Set_flag(h)
    BY <2>11 DEF Set_flag
  <2> QED
    BY <2>1, <2>2, <2>3, <2>4, <2>5, <2>6, <2>7, <2>8, <2>9, <2>10, <2>11 DEF Handle
<1> QED
  BY <1>3, <1>4, <1>5 DEF OInv

LEMMA OutageNext == Serial /\ TypeOK /\ OInv /\ [Next]_vars => OInv'
<1> SUFFICES ASSUME Serial, TypeOK, OInv, [Next]_vars PROVE OInv'
  OBVIOUS
<1>1. ASSUME UNCHANGED <<sensor, handler, last>>,
             \A s \in Sensors : open'[s] => open[s]
      PROVE  OInv'
  BY <1>1, SensorIs, OutageKept DEF OInv, Orphan, sensor, handler
<1>2. CASE \E h \in Handlers : Expire(h) \/ Handle(h)
  BY <1>2, OutageHandled
<1>3. CASE Logger
  BY <1>1, <1>3 DEF Logger, Loop, Check, Clear, Receive, Log, history
<1>4. CASE \E s \in Sensors : Disarm(s) \/ Close(s)
  BY <1>1, <1>4 DEF Disarm, Close, TypeOK, history
<1>5. CASE Interrupt \/ UNCHANGED vars
  BY <1>1, <1>5 DEF Interrupt, vars, history
<1>6. CASE Restart \/ Abort
  BY <1>6, OutageStarts DEF Restart, Abort
<1> QED
  BY <1>2, <1>3, <1>4, <1>5, <1>6 DEF Next

(* What the outage logic keeps when the handlers of a sensor do not overlap.   *)
THEOREM OutageInvariant == ASSUME Serial PROVE Spec => []OInv
<1>1. Init => OInv
  BY OutageInit
<1>2. TypeOK /\ OInv /\ [Next]_vars => OInv'
  BY OutageNext
<1> QED
  BY <1>1, <1>2, TypeCorrect, PTL DEF Spec

LEMMA QuietOutage == OInv => OutageLit /\ OutageAnnounced
<1> SUFFICES ASSUME OInv, NEW s \in Sensors, Quiet(s), error_status[s] # 0
             PROVE  led[s] = 1 /\ (open[s] => last[s] = OutageLevel(s))
  BY DEF OutageLit, OutageAnnounced
<1>1. PICK h \in Handlers : SensorOf(h) = s
  BY DEF OInv, Orphan
<1> QED
  BY <1>1 DEF OInv, Outage, Quiet, Lit, Announced

(* The LED of a failing sensor is lit whenever its handler is not running      *)
(* (light.c:94, temperature.c:103), through recoveries, interrupts, restarts   *)
(* and aborts, for any number of expiries.                                     *)
THEOREM OutagesLit == ASSUME Serial PROVE Spec => []OutageLit
  BY OutageInvariant, QuietOutage, PTL

(* The record of an outage is the last one the failing sensor's handler has    *)
(* handed over (light.c:102, temperature.c:112).                                *)
THEOREM OutagesAnnounced == ASSUME Serial PROVE Spec => []OutageAnnounced
  BY OutageInvariant, QuietOutage, PTL
=============================================================================
