----------------------------- MODULE SensorBus -----------------------------
(***************************************************************************)
(* The I2C bus of the sensor monitor (Project 1): the temperature and the  *)
(* light timer handlers and the socket thread read their sensors through   *)
(* temp_main and Light_main, which share one mutex (bus_lock), one global  *)
(* descriptor (file) and, inside each device, one register pointer that a  *)
(* "select" write moves and the next read uses.                            *)
(*                                                                         *)
(* An exchange is the pair of bus transactions the drivers always issue    *)
(* together: the write that selects a register, then the transfer.  Each   *)
(* transaction is one step, so callers interleave between them.            *)
(***************************************************************************)
EXTENDS Naturals, Sequences

CONSTANTS
    TempUsers,      \* threads that may call temp_main
    LightUsers,     \* threads that may call Light_main
    NoOne,          \* the owner of a free mutex
    MaxFds          \* descriptors the process may still open (RLIMIT_NOFILE)

Threads == TempUsers \cup LightUsers

ASSUME BusAssumption ==
    /\ NoOne \notin Threads
    /\ MaxFds \in Nat

Sensors == {"Temper", "Light"}
Users(s) == IF s = "Temper" THEN TempUsers ELSE LightUsers

-----------------------------------------------------------------------------
(* The exchanges of each driver function, in program order.  "left" counts  *)
(* the exchanges of that function from this one to its last.                *)

Registers == {"none", "TMPSensor_Register", "Command_Reg", "Timing_Reg", "Sensor_ID",
              "Data_Low0", "Data_High0", "Data_Low1", "Data_High1"}

Get(fn, reg, left) == [fn |-> fn, kind |-> "get", reg |-> reg, left |-> left]
Put(fn, reg, left) == [fn |-> fn, kind |-> "put", reg |-> reg, left |-> left]

Read_Temperature == << Get("Read_Temperature", "TMPSensor_Register", 1) >>

(* It falls off its end without a return when both puts succeed; the makefile   *)
(* builds at -O0, where the caller then sees the 0 write_timing returned last.  *)
write_control == Put("Turn_on_Light_sensor", "Command_Reg", 2)
write_timing  == Put("Turn_on_Light_sensor", "Timing_Reg", 1)
Turn_on_Light_sensor == << write_control, write_timing >>

Check_PowerUp  == << Get("Check_PowerUp", "Command_Reg", 1) >>
Read_Sensor_ID == << Get("Read_Sensor_ID", "Sensor_ID", 1) >>

Read_Data(flag) ==
    IF flag = 1 THEN << Get("Read_Data(1)", "Data_Low0", 2), Get("Read_Data(1)", "Data_High0", 1) >>
                ELSE << Get("Read_Data(2)", "Data_Low1", 2), Get("Read_Data(2)", "Data_High1", 1) >>

Dialogue(s) ==
    IF s = "Temper" THEN Read_Temperature
    ELSE Turn_on_Light_sensor \o Check_PowerUp \o Read_Sensor_ID
            \o Read_Data(1) \o Read_Data(2)

(* The registers a complete reading of s consists of. *)
Asked(s) == { Dialogue(s)[i].reg : i \in { j \in 1..Len(Dialogue(s)) :
                                              Dialogue(s)[j].kind = "get" } }
-----------------------------------------------------------------------------
VARIABLES
    lock,       \* owner of bus_lock
    file,       \* the device the global descriptor is bound to
    fds,        \* descriptors I2C_init has opened and nobody closes
    pointer,    \* register pointer of each device
    acks,       \* does the device acknowledge its address (is it plugged in)?
    claimed,    \* devices a kernel driver owns: ioctl(I2C_SLAVE) refuses them
    pc, call, step, got, lost, ret, \* per caller: control point, sensor, exchange,
                \* registers read, channels Read_Data gave up on, exit status
    away        \* history: the device was silent at some time during this call

shared == <<file, fds, pointer>>
local  == <<call, step, got, lost, ret>>
vars   == <<lock, shared, acks, claimed, pc, local, away>>

Points == {"idle", "lock", "init", "select", "transfer", "compute", "unlock"}

TypeOK ==
    /\ lock \in Threads \cup {NoOne}
    /\ file \in Sensors \cup {"none"}
    /\ fds \in 0..MaxFds
    /\ pointer \in [Sensors -> Registers]
    /\ acks \in [Sensors -> BOOLEAN]
    /\ claimed \in SUBSET Sensors
    /\ pc \in [Threads -> Points]
    /\ call \in [Threads -> Sensors]
    /\ step \in [Threads -> Nat]
    /\ \A t \in Threads : step[t] \in 1..Len(Dialogue(call[t]))
    /\ got \in [Threads -> SUBSET Registers]
    /\ lost \in [Threads -> SUBSET {1, 2}]
    /\ ret \in [Threads -> {"none", "EXIT_SUCCESS", "EXIT_FAILURE"}]
    /\ away \in [Threads -> BOOLEAN]

Init ==
    /\ lock = NoOne
    /\ file = "none"
    /\ fds = 0
    /\ pointer = [s \in Sensors |-> "none"]
    /\ acks = [s \in Sensors |-> TRUE]
    /\ claimed \in SUBSET Sensors
    /\ pc = [t \in Threads |-> "idle"]
    /\ call = [t \in Threads |-> "Temper"]
    /\ step = [t \in Threads |-> 1]
    /\ got = [t \in Threads |-> {}]
    /\ lost = [t \in Threads |-> {}]
    /\ ret = [t \in Threads |-> "none"]
    /\ away = [t \in Threads |-> FALSE]
-----------------------------------------------------------------------------
Now(t) == Dialogue(call[t])[step[t]]

Goto(t, l) == pc' = [pc EXCEPT ![t] = l]

(* The exit paths of temp_main and Light_main: perror, unlock, return. *)
Give_up(t) ==
    /\ ret' = [ret EXCEPT ![t] = "EXIT_FAILURE"]
    /\ Goto(t, "unlock")
    /\ UNCHANGED <<call, step, got, lost>>

(* Light_main's exit after Read_Sensor_ID fails: it returns and keeps the mutex. *)
Give_up_holding(t) ==
    /\ ret' = [ret EXCEPT ![t] = "EXIT_FAILURE"]
    /\ Goto(t, "idle")
    /\ UNCHANGED <<call, step, got, lost>>

(* Mutated: Advance runs one exchange past the last. *)
Advance_past_end(t, n) ==
    IF step[t] + n <= Len(Dialogue(call[t])) + 1
    THEN /\ step' = [step EXCEPT ![t] = @ + n]
         /\ Goto(t, "select")
    ELSE /\ Goto(t, "compute")
         /\ UNCHANGED step

(* Go on with the exchange n places further on, or leave the driver. *)
Advance(t, n) ==
    IF step[t] + n <= Len(Dialogue(call[t]))
    THEN /\ step' = [step EXCEPT ![t] = @ + n]
         /\ Goto(t, "select")
    ELSE /\ Goto(t, "compute")
         /\ UNCHANGED step

(* Read_Data returns EXIT_FAILURE (the number 1) as if it were the channel's value. *)
Channel(fn) == IF fn = "Read_Data(1)" THEN 1 ELSE 2
Substitute(t) ==
    /\ lost' = [lost EXCEPT ![t] = @ \cup {Channel(Now(t).fn)}]
    /\ Advance(t, Now(t).left)
    /\ UNCHANGED <<call, got, ret>>

(* Mutated: Check_PowerUp's exit path forgets the unlock as well. *)
Nack_two_leaks(t) ==
    CASE Now(t).fn \in {"Read_Data(1)", "Read_Data(2)"}        -> Substitute(t)
      [] Now(t).fn \in {"Read_Sensor_ID", "Check_PowerUp"}     -> Give_up_holding(t)
      [] OTHER                                                 -> Give_up(t)

(* The device did not acknowledge a byte: what the driver function does then. *)
Nack(t) ==
    CASE Now(t).fn \in {"Read_Data(1)", "Read_Data(2)"} -> Substitute(t)
      [] Now(t).fn = "Read_Sensor_ID"                   -> Give_up_holding(t)
      [] OTHER                                          -> Give_up(t)
-----------------------------------------------------------------------------
(* A handler or the socket thread calls temp_main or Light_main. *)
Call(t, s) ==
    /\ pc[t] = "idle"
    /\ t \in Users(s)
    /\ Goto(t, "lock")
    /\ call' = [call EXCEPT ![t] = s]
    /\ step' = [step EXCEPT ![t] = 1]
    /\ got' = [got EXCEPT ![t] = {}]
    /\ lost' = [lost EXCEPT ![t] = {}]
    /\ ret' = [ret EXCEPT ![t] = "none"]
    /\ away' = [away EXCEPT ![t] = ~acks[s]]
    /\ UNCHANGED <<lock, shared, acks, claimed>>

(* Mutated: the call does not wait for the mutex. *)
Lock_unguarded(t) ==
    /\ pc[t] = "lock"
    /\ lock' = t
    /\ Goto(t, "init")
    /\ UNCHANGED <<shared, acks, claimed, local, away>>

(* pthread_mutex_lock(&bus_lock) *)
Lock(t) ==
    /\ pc[t] = "lock"
    /\ lock = NoOne
    /\ lock' = t
    /\ Goto(t, "init")
    /\ UNCHANGED <<shared, acks, claimed, local, away>>

(* open() finds no free descriptor: file becomes -1. *)
Open_fails(t) ==
    /\ fds = MaxFds
    /\ file' = "none"
    /\ Give_up(t)
    /\ UNCHANGED <<fds, pointer>>

(* open() and then ioctl(I2C_SLAVE); nothing ever closes the descriptor. *)
Open_succeeds(t) ==
    /\ fds < MaxFds
    /\ fds' = fds + 1
    /\ IF call[t] \in claimed
       THEN /\ file' = "none"
            /\ Give_up(t)
       ELSE /\ file' = call[t]
            /\ Goto(t, "select")
            /\ UNCHANGED local
    /\ UNCHANGED pointer

I2C_init(t) ==
    /\ pc[t] = "init"
    /\ Open_fails(t) \/ Open_succeeds(t)
    /\ UNCHANGED <<lock, acks, claimed, away>>

(* A transaction succeeds on a bound descriptor whose device is there. *)
Answers == file # "none" /\ acks[file]

(* I2C_Write_Byte of a register address to the device behind file. *)
Select(t) ==
    /\ pc[t] = "select"
    /\ IF Answers
       THEN /\ pointer' = [pointer EXCEPT ![file] = Now(t).reg]
            /\ Goto(t, "transfer")
            /\ UNCHANGED local
       ELSE /\ Nack(t)
            /\ UNCHANGED pointer
    /\ UNCHANGED <<lock, file, fds, acks, claimed, away>>

(* I2C_Read_Word or I2C_Read_Byte_Data takes the register the device points at; *)
(* I2C_Write_Byte puts the data byte.                                           *)
Transfer(t) ==
    /\ pc[t] = "transfer"
    /\ IF Answers
       THEN /\ got' = [got EXCEPT ![t] = IF Now(t).kind = "get" THEN @ \cup {pointer[file]} ELSE @]
            /\ Advance(t, 1)
            /\ UNCHANGED <<call, lost, ret>>
       ELSE Nack(t)
    /\ UNCHANGED <<lock, shared, acks, claimed, away>>

(* Mutated: a zero reading of the temperature sensor is a failure too. *)
Compute_zero_fails(t) ==
    /\ pc[t] = "compute"
    /\ ret' \in { [ret EXCEPT ![t] = r] : r \in {"EXIT_SUCCESS", "EXIT_FAILURE"} }
    /\ Goto(t, "unlock")
    /\ UNCHANGED <<lock, shared, acks, claimed, call, step, got, lost, away>>

(* The tail of Read_Temperature and of Read_Light_Sensor: a zero channel 0 (a    *)
(* sensor in the dark) is reported as a failure.                                *)
Compute(t) ==
    /\ pc[t] = "compute"
    /\ \/ ret' = [ret EXCEPT ![t] = "EXIT_SUCCESS"]
       \/ /\ call[t] = "Light"
          /\ 1 \notin lost[t]
          /\ ret' = [ret EXCEPT ![t] = "EXIT_FAILURE"]
    /\ Goto(t, "unlock")
    /\ UNCHANGED <<lock, shared, acks, claimed, call, step, got, lost, away>>

(* Mutated: return without the unlock. *)
Unlock_forgotten(t) ==
    /\ pc[t] = "unlock"
    /\ Goto(t, "idle")
    /\ UNCHANGED <<lock, shared, acks, claimed, local, away>>

(* pthread_mutex_unlock(&bus_lock) and return. *)
Unlock(t) ==
    /\ pc[t] = "unlock"
    /\ lock' = NoOne
    /\ Goto(t, "idle")
    /\ UNCHANGED <<shared, acks, claimed, local, away>>

(* The cable of a sensor is pulled, or pushed in again. *)
Unplug(s) ==
    /\ acks[s]
    /\ acks' = [acks EXCEPT ![s] = FALSE]
    /\ away' = [t \in Threads |-> away[t] \/ (call[t] = s /\ pc[t] # "idle")]
    /\ UNCHANGED <<lock, shared, claimed, pc, local>>

Plug(s) ==
    /\ ~acks[s]
    /\ acks' = [acks EXCEPT ![s] = TRUE]
    /\ UNCHANGED <<lock, shared, claimed, pc, local, away>>

Proceed(t) ==
    \/ Lock(t)
    \/ I2C_init(t)
    \/ Select(t)
    \/ Transfer(t)
    \/ Compute(t)
    \/ Unlock(t)

Next ==
    \/ \E t \in Threads : Proceed(t)
    \/ \E t \in Threads, s \in Sensors : Call(t, s)
    \/ \E s \in Sensors : Unplug(s) \/ Plug(s)

Spec == Init /\ [][Next]_vars

(* The kernel schedules every runnable thread. *)
FairSpec == Spec /\ \A t \in Threads : WF_vars(Proceed(t))
-----------------------------------------------------------------------------
(* Properties *)

Returned(t) == pc[t] = "idle" /\ ret[t] # "none"
Inside == {"init", "select", "transfer", "compute", "unlock"}

(* What a successful reading consists of came from the registers its caller    *)
(* selected on its own device, all of them unless Read_Data gave up on some:   *)
(* two callers between their select and their read would mix them up.          *)
NoForeignData ==
    \A t \in Threads : Returned(t) /\ ret[t] = "EXIT_SUCCESS" =>
        /\ got[t] \subseteq Asked(call[t])
        /\ (lost[t] = {} => got[t] = Asked(call[t]))

(* A caller that failed had a reason: its sensor was silent at some time of    *)
(* the call, or claimed by a driver, or the descriptors ran out, or (light)    *)
(* channel 0 read as zero although every exchange of the call succeeded.       *)
FailureExplained ==
    \A t \in Threads : Returned(t) /\ ret[t] = "EXIT_FAILURE" =>
        \/ away[t]
        \/ call[t] \in claimed
        \/ fds = MaxFds
        \/ call[t] = "Light" /\ got[t] = Asked("Light")

(* The mutex outlives a call on one path only: Light_main's return when the    *)
(* sensor was lost inside Read_Sensor_ID.                                      *)
LostInSensorID(t) ==
    /\ call[t] = "Light"
    /\ Now(t).fn = "Read_Sensor_ID"
    /\ ret[t] = "EXIT_FAILURE"
    /\ away[t]
OnlyIdPathKeepsLock ==
    \A t \in Threads : lock = t /\ pc[t] = "idle" => LostInSensorID(t)

(* While one caller is between selecting a register and transferring it, no    *)
(* other caller moves that register pointer or rebinds the shared descriptor.  *)
SelectionHolds ==
    [][\A t \in Threads :
          pc[t] = "transfer" /\ pc'[t] = "transfer" => UNCHANGED <<file, pointer>>]_vars

(* A caller inside the bus leaves it again and gives the mutex back, unless it *)
(* leaves through that path: no step of a call waits for another caller.       *)
BusComesBack ==
    \A t \in Threads :
        pc[t] \in Inside ~> lock # t \/ (pc[t] = "idle" /\ LostInSensorID(t))

(* What the rest of the monitor builds on: every caller waits for bus_lock,    *)
(* spends a descriptor, and leaves with a status; the exchanges in between     *)
(* are its own affair.                                                         *)
Phase(l) == CASE l = "lock" -> "waiting" [] l = "init" -> "entered" [] l = "unlock" -> "leaving"
              [] l \in {"select", "transfer", "compute"} -> "talking" [] OTHER -> "idle"
Calls == INSTANCE BusCalls WITH phase <- [t \in Threads |-> Phase(pc[t])]
Calls_Spec == Calls!CallSpec

(* Comment of Light_main at light.c:191, "return the I2C bus mutex": a caller  *)
(* that has returned does not hold bus_lock.                                   *)
LockReturned == \A t \in Threads : Returned(t) => lock # t

=============================================================================
