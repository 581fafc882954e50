------------------------------ MODULE BusCalls ------------------------------
(***************************************************************************)
(* What a caller of temp_main or Light_main sees of the bus: it waits for  *)
(* bus_lock, spends a descriptor, and comes back with an exit status; a    *)
(* call for the light sensor may come back without having given bus_lock   *)
(* back.  SensorBus, with every exchange of the drivers, implements this;  *)
(* SocketServer is built on it.                                            *)
(***************************************************************************)
EXTENDS Naturals

CONSTANTS
    TempUsers,      \* threads that may call temp_main
    LightUsers,     \* threads that may call Light_main
    NoOne,          \* the owner of a free mutex
    MaxFds          \* descriptors the process may still open (RLIMIT_NOFILE)

Threads == TempUsers \cup LightUsers
Sensors == {"Temper", "Light"}
Users(s) == IF s = "Temper" THEN TempUsers ELSE LightUsers

ASSUME CallsAssumption ==
    /\ NoOne \notin Threads
    /\ MaxFds \in Nat

VARIABLES
    lock,       \* owner of bus_lock
    fds,        \* descriptors in use
    phase,      \* per caller: where it is
    call,       \* per caller: the sensor it asked for last
    ret         \* per caller: the exit status of its last call

callVars == <<lock, fds, phase, call, ret>>

Phases == {"idle", "waiting", "entered", "talking", "leaving"}
Statuses == {"none", "EXIT_SUCCESS", "EXIT_FAILURE"}

CallTypeOK ==
    /\ lock \in Threads \cup {NoOne}
    /\ fds \in 0..MaxFds
    /\ phase \in [Threads -> Phases]
    /\ call \in [Threads -> Sensors]
    /\ ret \in [Threads -> Statuses]

CallInit ==
    /\ lock = NoOne
    /\ fds = 0
    /\ phase = [t \in Threads |-> "idle"]
    /\ call = [t \in Threads |-> "Temper"]
    /\ ret = [t \in Threads |-> "none"]

MoveTo(t, p) == phase' = [phase EXCEPT ![t] = p]
Returns(t, r) == ret' = [ret EXCEPT ![t] = r]

(* temp_main(...) or Light_main(...) is called. *)
Begin(t, s) ==
    /\ phase[t] = "idle"
    /\ t \in Users(s)
    /\ MoveTo(t, "waiting")
    /\ call' = [call EXCEPT ![t] = s]
    /\ Returns(t, "none")
    /\ UNCHANGED <<lock, fds>>

(* pthread_mutex_lock(&bus_lock) *)
Enter(t) ==
    /\ phase[t] = "waiting"
    /\ lock = NoOne
    /\ lock' = t
    /\ MoveTo(t, "entered")
    /\ UNCHANGED <<fds, call, ret>>

(* I2C_init: no descriptor is left, or one is spent and the device is or is    *)
(* not bound to it.                                                            *)
Bind(t) ==
    /\ phase[t] = "entered"
    /\ \/ fds = MaxFds /\ UNCHANGED fds /\ MoveTo(t, "leaving") /\ Returns(t, "EXIT_FAILURE")
       \/ /\ fds < MaxFds
          /\ fds' = fds + 1
          /\ \/ MoveTo(t, "leaving") /\ Returns(t, "EXIT_FAILURE")
             \/ MoveTo(t, "talking") /\ UNCHANGED ret
    /\ UNCHANGED <<lock, call>>

(* The exchanges end: well, badly, or in Read_Sensor_ID's exit, which returns  *)
(* without unlocking.                                                          *)
Conclude(t) ==
    /\ phase[t] = "talking"
    /\ \/ MoveTo(t, "leaving") /\ \E r \in {"EXIT_SUCCESS", "EXIT_FAILURE"} : Returns(t, r)
       \/ call[t] = "Light" /\ MoveTo(t, "idle") /\ Returns(t, "EXIT_FAILURE")
    /\ UNCHANGED <<lock, fds, call>>

(* pthread_mutex_unlock(&bus_lock) and return. *)
Leave(t) ==
    /\ phase[t] = "leaving"
    /\ lock' = NoOne
    /\ MoveTo(t, "idle")
    /\ UNCHANGED <<fds, call, ret>>

Work(t) == Enter(t) \/ Bind(t) \/ Conclude(t) \/ Leave(t)

CallNext == \E t \in Threads : Work(t) \/ \E s \in Sensors : Begin(t, s)

CallSpec == CallInit /\ [][CallNext]_callVars

(* Past the lock a caller owns it, and nobody else is past it. *)
OwnerInside ==
    \A t \in Threads : phase[t] \in {"entered", "talking", "leaving"} => lock = t
=============================================================================
