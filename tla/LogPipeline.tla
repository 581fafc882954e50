---------------------------- MODULE LogPipeline ----------------------------
(***************************************************************************)
(* From a timer expiry to a line of the log file (Project 1).              *)
(*                                                                         *)
(* Each expiry of a sensor's timer starts a new thread in the sensor's     *)
(* handler.  The handler reads the sensor, keeps the static error_status   *)
(* and the sensor's LED, hands a record to the sensor's POSIX message      *)
(* queue with a blocking mq_send and then sets the sensor's flag.  The one *)
(* logger thread polls the two flags, clears a flag it finds set, takes    *)
(* one record with a blocking mq_receive and writes it.  The queues are    *)
(* kernel objects nobody unlinks: they outlive the process.                *)
(***************************************************************************)
EXTENDS Naturals, Sequences, FiniteSets

CONSTANTS
    TempHandlers,   \* threads that run temperature_handler
    LightHandlers,  \* threads that run light_handler
    Capacity,       \* mq_maxmsg of either queue
    MaxExpiries     \* bound: timer expiries in a behaviour

Handlers == TempHandlers \cup LightHandlers

ASSUME PipelineAssumption ==
    /\ TempHandlers \cap LightHandlers = {}
    /\ IsFiniteSet(Handlers)
    /\ Capacity \in Nat \ {0}
    /\ MaxExpiries \in Nat

Sensors == {"Light", "Temper"}
Levels  == {"DATA", "ALERT", ""}

SensorOf(h) == IF h \in TempHandlers THEN "Temper" ELSE "Light"

(* The level of the record a first failure hands over: light_handler clears *)
(* the level and does not write one.                                        *)
OutageLevel(s) == IF s = "Temper" THEN "ALERT" ELSE ""

VARIABLES
    exit_flag,      \* set by SIGINT or by the heartbeat
    expiries,       \* bound counter
    armed,          \* the sensor's timer exists
    open,           \* the sensor's sending descriptor is open
    queue,          \* the sensor's message queue (survives the process)
    flag,           \* light_flag, temperature_flag
    error_status,   \* the handler's static counter; 2 stands for two or more
    led,            \* GREEN for light, RED for temperature
    hpc, seen, msg, \* per handler: control point, loaded counter, record level
    lpc, at, taken, \* logger: control point, queue it is at, record in hand
    journal,        \* the records in the log file, per sensor
    last,           \* history: level of the record last handed to the queue
    life            \* history: toggled whenever the process starts anew

sensor  == <<error_status, led>>
handler == <<hpc, seen, msg>>
logger  == <<lpc, at, taken, journal>>
history == <<last, life>>
vars == <<exit_flag, expiries, armed, open, queue, flag, sensor, handler, logger, history>>

HandlerPoints == {"off", "read", "load", "store", "test", "led_on",
                  "recover", "led_off", "reset", "send", "sending", "flag"}
LoggerPoints == {"loop", "check", "clear", "receive", "log", "done"}

TypeOK ==
    /\ exit_flag \in BOOLEAN
    /\ expiries \in 0..MaxExpiries
    /\ armed \in [Sensors -> BOOLEAN]
    /\ open \in [Sensors -> BOOLEAN]
    /\ queue \in [Sensors -> Seq(Levels)]
    /\ \A s \in Sensors : Len(queue[s]) <= Capacity
    /\ flag \in [Sensors -> BOOLEAN]
    /\ error_status \in [Sensors -> 0..2]
    /\ led \in [Sensors -> 0..1]
    /\ hpc \in [Handlers -> HandlerPoints]
    /\ seen \in [Handlers -> 0..2]
    /\ msg \in [Handlers -> Levels]
    /\ lpc \in LoggerPoints
    /\ at \in Sensors
    /\ taken \in Levels
    /\ journal \in [Sensors -> Seq(Levels)]
    /\ last \in [Sensors -> Levels]
    /\ life \in BOOLEAN

(* What every start of the process sets up: the main thread has created the *)
(* queues, the timers and the logger.                                       *)
Started ==
    /\ exit_flag' = FALSE
    /\ armed' = [s \in Sensors |-> TRUE]
    /\ open' = [s \in Sensors |-> TRUE]
    /\ flag' = [s \in Sensors |-> FALSE]
    /\ error_status' = [s \in Sensors |-> 0]
    /\ hpc' = [h \in Handlers |-> "off"]
    /\ seen' = [h \in Handlers |-> 0]
    /\ msg' = [h \in Handlers |-> "DATA"]
    /\ lpc' = "loop"
    /\ at' = "Light"
    /\ taken' = "DATA"
    /\ life' = ~life

Init ==
    /\ exit_flag = FALSE
    /\ expiries = 0
    /\ armed = [s \in Sensors |-> TRUE]
    /\ open = [s \in Sensors |-> TRUE]
    /\ queue = [s \in Sensors |-> <<>>]
    /\ flag = [s \in Sensors |-> FALSE]
    /\ error_status = [s \in Sensors |-> 0]
    /\ led = [s \in Sensors |-> 0]
    /\ hpc = [h \in Handlers |-> "off"]
    /\ seen = [h \in Handlers |-> 0]
    /\ msg = [h \in Handlers |-> "DATA"]
    /\ lpc = "loop"
    /\ at = "Light"
    /\ taken = "DATA"
    /\ journal = [s \in Sensors |-> <<>>]
    /\ last = [s \in Sensors |-> "DATA"]
    /\ life = TRUE
-----------------------------------------------------------------------------
(* temperature_handler and light_handler *)

Step(h, from, to) == hpc[h] = from /\ hpc' = [hpc EXCEPT ![h] = to]
Compose(h, level) == msg' = [msg EXCEPT ![h] = level]

Expire(h) ==
    /\ armed[SensorOf(h)]
    /\ expiries < MaxExpiries
    /\ Step(h, "off", "read")
    /\ expiries' = expiries + 1
    /\ UNCHANGED <<exit_flag, armed, open, queue, flag, sensor, seen, msg, logger, history>>

(* temp_main or Light_main returns, with EXIT_FAILURE or with EXIT_SUCCESS. *)
Read(h) ==
    /\ Step(h, "read", "load") \/ Step(h, "read", "recover")
    /\ UNCHANGED <<exit_flag, expiries, armed, open, queue, flag, sensor, seen, msg, logger, history>>

(* error_status++ is a load and a store; handlers of one sensor may overlap. *)
Load(h) ==
    /\ Step(h, "load", "store")
    /\ seen' = [seen EXCEPT ![h] = error_status[SensorOf(h)]]
    /\ UNCHANGED <<exit_flag, expiries, armed, open, queue, flag, sensor, msg, logger, history>>

Store(h) ==
    /\ Step(h, "store", "test")
    /\ error_status' = [error_status EXCEPT ![SensorOf(h)] = IF seen[h] = 2 THEN 2 ELSE seen[h] + 1]
    /\ UNCHANGED <<exit_flag, expiries, armed, open, queue, flag, led, seen, msg, logger, history>>

First_failure(h) ==
    /\ error_status[SensorOf(h)] = 1
    /\ Step(h, "test", "led_on")
Later_failure(h) ==
    /\ error_status[SensorOf(h)] # 1
    /\ Step(h, "test", "off")

(* Mutated: the outage is announced at the second failure. *)
Test_second(h) ==
    /\ IF error_status[SensorOf(h)] = 2 THEN Step(h, "test", "led_on") ELSE Step(h, "test", "off")
    /\ UNCHANGED <<exit_flag, expiries, armed, open, queue, flag, sensor, seen, msg, logger, history>>

Test(h) ==
    /\ First_failure(h) \/ Later_failure(h)
    /\ UNCHANGED <<exit_flag, expiries, armed, open, queue, flag, sensor, seen, msg, logger, history>>

Led_on(h) ==
    /\ Step(h, "led_on", "send")
    /\ led' = [led EXCEPT ![SensorOf(h)] = 1]
    /\ Compose(h, OutageLevel(SensorOf(h)))
    /\ UNCHANGED <<exit_flag, expiries, armed, open, queue, flag, error_status, seen, logger, history>>

(* The sensor was read: if (error_status != 0) the LED goes off. *)
Recover(h) ==
    /\ IF error_status[SensorOf(h)] # 0 THEN Step(h, "recover", "led_off")
                                        ELSE Step(h, "recover", "reset")
    /\ UNCHANGED <<exit_flag, expiries, armed, open, queue, flag, sensor, seen, msg, logger, history>>

Led_off(h) ==
    /\ Step(h, "led_off", "reset")
    /\ led' = [led EXCEPT ![SensorOf(h)] = 0]
    /\ UNCHANGED <<exit_flag, expiries, armed, open, queue, flag, error_status, seen, msg, logger, history>>

(* Mutated: error_status is not reset when the sensor is back. *)
Reset_missing(h) ==
    /\ Step(h, "reset", "send")
    /\ Compose(h, "DATA")
    /\ UNCHANGED <<exit_flag, expiries, armed, open, queue, flag, sensor, seen, logger, history>>

Reset(h) ==
    /\ Step(h, "reset", "send")
    /\ error_status' = [error_status EXCEPT ![SensorOf(h)] = 0]
    /\ Compose(h, "DATA")
    /\ UNCHANGED <<exit_flag, expiries, armed, open, queue, flag, led, seen, logger, history>>

(* mq_send on a closed descriptor fails and the handler closes it once more; *)
(* on an open one the record waits in the kernel while the queue is full.    *)
Mq_send(h) ==
    /\ IF open[SensorOf(h)] THEN Step(h, "send", "sending") ELSE Step(h, "send", "off")
    /\ UNCHANGED <<exit_flag, expiries, armed, open, queue, flag, sensor, seen, msg, logger, history>>

(* Mutated: mq_send does not wait for room (O_NONBLOCK on a growing queue). *)
Enqueue_unbounded(h) ==
    LET s == SensorOf(h) IN
    /\ Step(h, "sending", "flag")
    /\ queue' = [queue EXCEPT ![s] = Append(@, msg[h])]
    /\ last' = [last EXCEPT ![s] = msg[h]]
    /\ UNCHANGED <<exit_flag, expiries, armed, open, flag, sensor, seen, msg, logger, life>>

Enqueue(h) ==
    LET s == SensorOf(h) IN
    /\ Step(h, "sending", "flag")
    /\ Len(queue[s]) < Capacity
    /\ queue' = [queue EXCEPT ![s] = Append(@, msg[h])]
    /\ last' = [last EXCEPT ![s] = msg[h]]
    /\ UNCHANGED <<exit_flag, expiries, armed, open, flag, sensor, seen, msg, logger, life>>

Set_flag(h) ==
    /\ Step(h, "flag", "off")
    /\ flag' = [flag EXCEPT ![SensorOf(h)] = TRUE]
    /\ UNCHANGED <<exit_flag, expiries, armed, open, queue, sensor, seen, msg, logger, history>>

Handle(h) ==
    \/ Read(h) \/ Load(h) \/ Store(h) \/ Test(h) \/ Led_on(h)
    \/ Recover(h) \/ Led_off(h) \/ Reset(h)
    \/ Mq_send(h) \/ Enqueue(h) \/ Set_flag(h)
-----------------------------------------------------------------------------
(* logging_thread *)

(* Mutated: a record of light ends the round. *)
Go_on_short == lpc' = "loop" /\ UNCHANGED at

(* After the light queue comes the temperature queue, then the loop test. *)
Go_on ==
    IF at = "Light" THEN lpc' = "check" /\ at' = "Temper"
                    ELSE lpc' = "loop" /\ UNCHANGED at

Loop ==
    /\ lpc = "loop"
    /\ IF exit_flag THEN lpc' = "done" /\ UNCHANGED at
                    ELSE lpc' = "check" /\ at' = "Light"
    /\ UNCHANGED <<exit_flag, expiries, armed, open, queue, flag, sensor, handler, taken, journal, history>>

Check ==
    /\ lpc = "check"
    /\ IF flag[at] THEN lpc' = "clear" /\ UNCHANGED at ELSE Go_on
    /\ UNCHANGED <<exit_flag, expiries, armed, open, queue, flag, sensor, handler, taken, journal, history>>

(* Mutated: the flag is not cleared. *)
Clear_forgotten ==
    /\ lpc = "clear"
    /\ lpc' = "receive"
    /\ UNCHANGED <<exit_flag, expiries, armed, open, queue, flag, sensor, handler, at, taken, journal, history>>

Clear ==
    /\ lpc = "clear"
    /\ flag' = [flag EXCEPT ![at] = FALSE]
    /\ lpc' = "receive"
    /\ UNCHANGED <<exit_flag, expiries, armed, open, queue, sensor, handler, at, taken, journal, history>>

Receive ==
    /\ lpc = "receive"
    /\ queue[at] # <<>>
    /\ taken' = Head(queue[at])
    /\ queue' = [queue EXCEPT ![at] = Tail(@)]
    /\ lpc' = "log"
    /\ UNCHANGED <<exit_flag, expiries, armed, open, flag, sensor, handler, at, journal, history>>

(* Mutated: the logger leaves at the exit flag, with the record in its hand.    *)
Log_unless_exiting ==
    /\ lpc = "log"
    /\ IF exit_flag
       THEN lpc' = "done" /\ UNCHANGED <<at, journal>>
       ELSE journal' = [journal EXCEPT ![at] = Append(@, taken)] /\ Go_on
    /\ UNCHANGED <<exit_flag, expiries, armed, open, queue, flag, sensor, handler, taken, history>>

Log ==
    /\ lpc = "log"
    /\ journal' = [journal EXCEPT ![at] = Append(@, taken)]
    /\ Go_on
    /\ UNCHANGED <<exit_flag, expiries, armed, open, queue, flag, sensor, handler, taken, history>>

Logger == Loop \/ Check \/ Clear \/ Receive \/ Log
-----------------------------------------------------------------------------
(* light_function and temperature_function leave their busy loop: the timer  *)
(* is deleted (handlers already running go on), then the descriptor closed.  *)
Disarm(s) ==
    /\ exit_flag
    /\ armed[s]
    /\ armed' = [armed EXCEPT ![s] = FALSE]
    /\ UNCHANGED <<exit_flag, expiries, open, queue, flag, sensor, handler, logger, history>>

Close(s) ==
    /\ ~armed[s]
    /\ open[s]
    /\ open' = [open EXCEPT ![s] = FALSE]
    /\ UNCHANGED <<exit_flag, expiries, armed, queue, flag, sensor, handler, logger, history>>

(* intHandler *)
Interrupt ==
    /\ ~exit_flag
    /\ exit_flag' = TRUE
    /\ UNCHANGED <<expiries, armed, open, queue, flag, sensor, handler, logger, history>>

(* main has joined the three threads: the process ends and is started again.  *)
(* The queues and the LEDs keep what they hold.                               *)
Joined == lpc = "done" /\ \A s \in Sensors : ~open[s]
Restart ==
    /\ Joined
    /\ Started
    /\ UNCHANGED <<expiries, queue, led, journal, last>>

(* exit(1) of the socket thread ends the process at any point. *)
Abort ==
    /\ Started
    /\ UNCHANGED <<expiries, queue, led, journal, last>>

Next ==
    \/ \E h \in Handlers : Expire(h) \/ Handle(h)
    \/ Logger
    \/ \E s \in Sensors : Disarm(s) \/ Close(s)
    \/ Interrupt \/ Restart \/ Abort

Spec == Init /\ [][Next]_vars

(* Every runnable thread runs. *)
Fairness ==
    /\ \A h \in Handlers : WF_vars(Handle(h))
    /\ WF_vars(Logger)
    /\ \A s \in Sensors : WF_vars(Disarm(s)) /\ WF_vars(Close(s))

FairSpec == Spec /\ Fairness
-----------------------------------------------------------------------------
(* Properties *)

(* The logger never waits in mq_receive: every flag it cleared stood for a     *)
(* record still in the queue, whatever the senders did between its test, its   *)
(* clear and its receive, and across restarts.                                 *)
ReceiveNeverBlocks == lpc = "receive" => queue[at] # <<>>

(* The records reach the file as LogChannel promises: the one the logger holds  *)
(* between mq_receive and logging_function is written, unless the process dies. *)
Channel ==
    INSTANCE LogChannel
    WITH waiting <- queue, hand <- IF lpc = "log" THEN <<at, taken>> ELSE <<>>
Channel_Spec == Channel!Spec

(* A flag that is set is served, unless the logger has left its loop: neither   *)
(* queue's receive holds up the other's.                                       *)
FlagServed == \A s \in Sensors : flag[s] ~> ~flag[s] \/ lpc = "done"

(* main's joins return: after the interrupt the three threads end. *)
ShutdownCompletes == exit_flag ~> (Joined \/ ~exit_flag)

Quiet(s) == \A h \in Handlers : SensorOf(h) = s => hpc[h] = "off"

(* While a sensor fails and no handler of it is running, its LED is lit.        *)
OutageLit == \A s \in Sensors : Quiet(s) /\ error_status[s] # 0 => led[s] = 1

(* And the record of its outage is the last one handed over.                   *)
OutageAnnounced ==
    \A s \in Sensors :
        Quiet(s) /\ open[s] /\ error_status[s] # 0 => last[s] = OutageLevel(s)

(* light.h, "light timer handler which logs the light value periodically by    *)
(* adding new light value to the light queue": a handler gets its record into  *)
(* the queue (or the process is told to exit).                                 *)
SenderGetsThrough ==
    \A h \in Handlers : hpc[h] = "sending" ~> (hpc[h] # "sending" \/ exit_flag)

=============================================================================
