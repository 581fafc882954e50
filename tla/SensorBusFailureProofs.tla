----------------------- MODULE SensorBusFailureProofs -----------------------
(***************************************************************************)
(* For any number of threads and descriptors: why a call fails, which call *)
(* keeps bus_lock, and that SensorBus implements BusCalls.                 *)
(*                                                                         *)
(* FailureExplained and OnlyIdPathKeepsLock speak of calls that are over.  *)
(* What is inductive follows the call: a device that is silent now has     *)
(* been noticed as silent by every call under way, a channel was given up  *)
(* only because of that, and a status that says failure has its reason     *)
(* from the step that set it on.                                           *)
(***************************************************************************)
EXTENDS SensorBusProofs

Watched(t) == pc[t] # "idle" /\ ~acks[call[t]] => away[t]
Noticed(t) == lost[t] # {} => away[t]
Kept(t) == lock = t /\ pc[t] = "idle" => LostInSensorID(t)

Reason(t) ==
    \/ away[t]
    \/ call[t] \in claimed
    \/ fds = MaxFds
    \/ call[t] = "Light" /\ got[t] = Asked("Light")
Reasoned(t) == ret[t] = "EXIT_FAILURE" => Reason(t)

Excused == \A t \in Threads : Watched(t) /\ Noticed(t) /\ Kept(t) /\ Reasoned(t)

-----------------------------------------------------------------------------
(* Read_Sensor_ID is called by Light_main only. *)
LEMMA IdOfLight ==
    ASSUME TypeOK, NEW t \in Threads, Now(t).fn = "Read_Sensor_ID"
    PROVE  call[t] = "Light"
<1>1. call[t] \in Sensors /\ step[t] \in 1..Len(Dialogue(call[t]))
  BY DEF TypeOK
<1>2. Dialogue("Temper")[1].fn = "Read_Temperature" /\ Len(Dialogue("Temper")) = 1
  BY SMT DEF Dialogue, Read_Temperature, Get
<1>3. \A i \in 1..1 : i = 1
  BY SMT
<1>4. CASE call[t] = "Temper"
  <2>1. step[t] = 1
    BY <1>1, <1>2, <1>3, <1>4, Zenon
  <2>2. Now(t).fn = "Read_Temperature"
    BY <1>2, <1>4, <2>1, Zenon DEF Now
  <2> QED BY <2>2, SMT
<1> QED BY <1>1, <1>4 DEF Sensors

(* What a step of a caller leaves alone. *)
LEMMA StepFrame ==
    ASSUME TypeOK, Owned, NEW t \in Threads, Proceed(t)
    PROVE  /\ UNCHANGED <<acks, claimed, away, call>>
           /\ fds = MaxFds => fds' = MaxFds
           /\ \A u \in Threads : u # t /\ lock' = u => lock = u
<1> USE BusAssumption DEF BusAssumption
<1>1. UNCHANGED <<acks, claimed, away>>
  BY DEF Proceed, Lock, I2C_init, Select, Transfer, Compute, Unlock
<1>2. call' = call
  BY Zenon DEF Proceed, Lock, I2C_init, Open_fails, Open_succeeds, Select, Transfer, Compute,
               Unlock, Nack, Substitute, Give_up, Give_up_holding, local
<1>3. fds = MaxFds => fds' = MaxFds
  BY SMT DEF Proceed, Lock, I2C_init, Open_fails, Open_succeeds, Select, Transfer, Compute,
             Unlock, shared, TypeOK
<1>4. \A u \in Threads : u # t /\ lock' = u => lock = u
  <2>1. lock' \in {lock, t, NoOne}
    BY DEF Proceed, Lock, I2C_init, Select, Transfer, Compute, Unlock
  <2> QED BY <2>1
<1> QED BY <1>1, <1>2, <1>3, <1>4

(* The device of a caller whose transaction was not acknowledged is away. *)
LEMMA NackIsAway ==
    ASSUME TypeOK, Owned, Excused, NEW t \in Threads, pc[t] \in {"select", "transfer"}, ~Answers
    PROVE  away[t]
<1>1. file = call[t] /\ call[t] \in Sensors
  BY DEF Owned, Bound, TypeOK
<1>2. ~acks[call[t]]
  BY <1>1, SMT DEF Answers, Sensors
<1> QED BY <1>2 DEF Excused, Watched

(* A step of t keeps Excused if it keeps t's part. *)
LEMMA OneExcused ==
    ASSUME TypeOK, Owned, Excused, NEW t \in Threads, Proceed(t),
           Noticed(t)' /\ Kept(t)' /\ Reasoned(t)', pc[t] # "idle"
    PROVE  Excused'
<1> USE StepFrame
<1>1. Watched(t)'
  BY Zenon DEF Excused, Watched
<1>2. ASSUME NEW u \in Threads, u # t
      PROVE  Watched(u)' /\ Noticed(u)' /\ Kept(u)' /\ Reasoned(u)'
  <2>1. Apart(t, u)
    BY <1>2, OthersKeep
  <2>2. Watched(u) /\ Noticed(u) /\ Kept(u) /\ Reasoned(u)
    BY DEF Excused
  <2>3. Watched(u)' /\ Noticed(u)'
    BY <2>1, <2>2, Zenon DEF Apart, Watched, Noticed
  <2>4. Reasoned(u)'
    <3>1. UNCHANGED <<away, claimed, call>> /\ (fds = MaxFds => fds' = MaxFds)
      BY Zenon
    <3>2. Reason(u) => Reason(u)'
      BY <2>1, <3>1 DEF Apart, Reason
    <3> QED BY <2>1, <2>2, <3>2 DEF Apart, Reasoned
  <2>5. Kept(u)'
    BY <1>2, <2>1, <2>2, Zenon DEF Apart, Kept, LostInSensorID, Now
  <2> QED BY <2>3, <2>4, <2>5
<1> QED BY <1>1, <1>2, Zenon DEF Excused

(* A transaction that is not acknowledged: the caller has a reason, and keeps  *)
(* the mutex only inside Read_Sensor_ID.                                       *)
LEMMA NackExcused ==
    ASSUME TypeOK, Owned, Excused, NEW t \in Threads, pc[t] \in {"select", "transfer"},
           Proceed(t), ~Answers, Nack(t)
    PROVE  Excused'
<1>1. away[t] /\ away'[t] /\ call' = call
  BY NackIsAway, StepFrame
<1>2. Noticed(t)' /\ Reasoned(t)'
  BY <1>1, Zenon DEF Noticed, Reasoned, Reason
<1>3. Kept(t)'
  <2>1. CASE Substitute(t) \/ Give_up(t)
    <3>1. pc'[t] # "idle"
      BY <2>1, Zenon DEF Substitute, Advance, Give_up, Goto, TypeOK
    <3> QED BY <3>1 DEF Kept
  <2>2. CASE Now(t).fn = "Read_Sensor_ID" /\ Give_up_holding(t)
    <3>1. ret'[t] = "EXIT_FAILURE" /\ UNCHANGED <<call, step>>
      BY <2>2, Zenon DEF Give_up_holding, TypeOK
    <3>2. call[t] = "Light"
      BY <2>2, IdOfLight
    <3> QED BY <1>1, <2>2, <3>1, <3>2, Zenon DEF Kept, LostInSensorID, Now
  <2> QED BY <2>1, <2>2, SMT DEF Nack
<1> QED BY <1>2, <1>3, OneExcused

LEMMA ExcusedStep == ASSUME TypeOK, Owned, IInv, Excused, [Next]_vars PROVE Excused'
<1>1. ASSUME NEW t \in Threads, NEW s \in Sensors, Call(t, s) PROVE Excused'
  <2>1. /\ pc'[t] = "lock" /\ call'[t] = s /\ lost'[t] = {} /\ ret'[t] = "none"
        /\ away'[t] = ~acks[s] /\ UNCHANGED <<lock, acks, claimed, fds>>
    BY <1>1, Zenon DEF Call, Goto, shared, TypeOK
  <2>2. Watched(t)' /\ Noticed(t)' /\ Kept(t)' /\ Reasoned(t)'
    BY <2>1, Zenon DEF Watched, Noticed, Kept, Reasoned
  <2>3. ASSUME NEW u \in Threads, u # t
        PROVE  Watched(u)' /\ Noticed(u)' /\ Kept(u)' /\ Reasoned(u)'
    <3>1. Apart(t, u) /\ call'[u] = call[u] /\ away'[u] = away[u]
      BY <1>1, <2>3, Zenon DEF Call, Goto, Apart, TypeOK
    <3> QED BY <2>1, <3>1, Zenon DEF Apart, Excused, Watched, Noticed, Kept, Reasoned, Reason,
                                     LostInSensorID, Now
  <2> QED BY <2>2, <2>3, Zenon DEF Excused
<1>2. ASSUME NEW t \in Threads, Lock(t) PROVE Excused'
  <2>1. pc[t] = "lock" /\ pc'[t] = "init" /\ UNCHANGED <<fds, claimed, local, away>> /\ Proceed(t)
    BY <1>2, Zenon DEF Lock, Goto, shared, Proceed, TypeOK
  <2>2. Noticed(t)' /\ Kept(t)' /\ Reasoned(t)'
    BY <2>1, Zenon DEF local, Excused, Noticed, Kept, Reasoned, Reason
  <2> QED BY <2>1, <2>2, OneExcused
<1>3. ASSUME NEW t \in Threads, I2C_init(t) PROVE Excused'
  <2>1. pc[t] = "init" /\ Proceed(t) /\ pc'[t] # "idle" /\ UNCHANGED <<lost, away>>
    BY <1>3, Zenon DEF I2C_init, Open_fails, Open_succeeds, Give_up, Goto, local, Proceed, TypeOK
  <2>2. Reasoned(t)'
    <3>1. CASE Open_fails(t)
      <4>1. fds' = MaxFds
        BY <3>1 DEF Open_fails
      <4> QED BY <4>1 DEF Reasoned, Reason
    <3>2. CASE Open_succeeds(t) /\ call[t] \in claimed
      <4>1. call'[t] \in claimed'
        BY <1>3, <3>2, <2>1, StepFrame
      <4> QED BY <4>1 DEF Reasoned, Reason
    <3>3. CASE Open_succeeds(t) /\ call[t] \notin claimed
      <4>1. ret'[t] = "none"
        BY <2>1, <3>3 DEF Open_succeeds, local, IInv, Gathered, Fresh
      <4> QED BY <4>1, SMT DEF Reasoned
    <3> QED BY <1>3, <3>1, <3>2, <3>3 DEF I2C_init
  <2>3. Noticed(t)' /\ Kept(t)'
    BY <2>1 DEF Excused, Noticed, Kept
  <2> QED BY <2>1, <2>2, <2>3, OneExcused
<1>4. ASSUME NEW t \in Threads, Select(t) PROVE Excused'
  <2>1. pc[t] = "select" /\ Proceed(t)
    BY <1>4 DEF Select, Proceed
  <2>2. CASE ~Answers
    <3>1. Nack(t) /\ pc[t] \in {"select", "transfer"}
      BY <1>4, <2>1, <2>2 DEF Select
    <3> QED BY <2>1, <2>2, <3>1, NackExcused
  <2>3. CASE Answers
    <3>1. pc'[t] = "transfer" /\ UNCHANGED <<local, away, fds, claimed>>
      BY <1>4, <2>3, Zenon DEF Select, Goto, TypeOK
    <3>2. Noticed(t)' /\ Kept(t)' /\ Reasoned(t)'
      BY <3>1, Zenon DEF local, Excused, Noticed, Kept, Reasoned, Reason
    <3> QED BY <2>1, <3>2, OneExcused
  <2> QED BY <2>2, <2>3
<1>5. ASSUME NEW t \in Threads, Transfer(t) PROVE Excused'
  <2>1. pc[t] = "transfer" /\ Proceed(t)
    BY <1>5 DEF Transfer, Proceed
  <2>2. CASE ~Answers
    <3>1. Nack(t) /\ pc[t] \in {"select", "transfer"}
      BY <1>5, <2>1, <2>2 DEF Transfer
    <3> QED BY <2>1, <2>2, <3>1, NackExcused
  <2>3. CASE Answers
    <3>1. pc'[t] # "idle" /\ UNCHANGED <<lost, ret, away>>
      BY <1>5, <2>3, Zenon DEF Transfer, Advance, Goto, TypeOK
    <3>2. ret[t] = "none"
      BY <2>1, Zenon DEF IInv, Gathered, Underway
    <3>3. ret'[t] # "EXIT_FAILURE"
      BY <3>1, <3>2
    <3>4. Noticed(t)' /\ Kept(t)' /\ Reasoned(t)'
      BY <3>1, <3>3, Zenon DEF Excused, Noticed, Kept, Reasoned
    <3> QED BY <2>1, <3>4, OneExcused
  <2> QED BY <2>2, <2>3
<1>6. ASSUME NEW t \in Threads, Compute(t) PROVE Excused'
  <2>1. /\ pc[t] = "compute" /\ Proceed(t) /\ pc'[t] = "unlock"
        /\ UNCHANGED <<call, got, lost, away>>
    BY <1>6, Zenon DEF Compute, Goto, Proceed, TypeOK
  <2>2. Reasoned(t)'
    <3>1. CASE ret' = [ret EXCEPT ![t] = "EXIT_SUCCESS"]
      BY <3>1, SMT DEF Reasoned, TypeOK
    <3>2. CASE call[t] = "Light"
      <4>1. CASE lost[t] # {}
        BY <2>1, <4>1 DEF Excused, Noticed, Reasoned, Reason
      <4>2. CASE lost[t] = {}
        <5>1. got[t] = Done("Light", Len(Dialogue("Light")))
          BY <2>1, <3>2, <4>2 DEF IInv, Gathered, Complete, Collected
        <5>2. "Light" \in Sensors
          BY DEF Sensors
        <5>3. got'[t] = Asked("Light") /\ call'[t] = "Light"
          BY <2>1, <3>2, <5>1, <5>2, DoneFacts
        <5> QED BY <5>3 DEF Reasoned, Reason
      <4> QED BY <4>1, <4>2
    <3> QED BY <1>6, <3>1, <3>2 DEF Compute
  <2>3. Noticed(t)' /\ Kept(t)'
    BY <2>1 DEF Excused, Noticed, Kept
  <2> QED BY <2>1, <2>2, <2>3, OneExcused
<1>7. ASSUME NEW t \in Threads, Unlock(t) PROVE Excused'
  <2>1. /\ pc[t] = "unlock" /\ Proceed(t) /\ lock' = NoOne
        /\ UNCHANGED <<fds, claimed, local, away>>
    BY <1>7 DEF Unlock, shared, Proceed
  <2>2. Kept(t)'
    BY <2>1, BusAssumption DEF BusAssumption, Kept
  <2>3. Noticed(t)' /\ Reasoned(t)'
    BY <2>1, Zenon DEF local, Excused, Noticed, Reasoned, Reason
  <2> QED BY <2>1, <2>2, <2>3, OneExcused
<1>8. ASSUME NEW s \in Sensors, Unplug(s) PROVE Excused'
  <2>1. /\ UNCHANGED <<lock, fds, claimed, pc, local>>
        /\ acks' = [acks EXCEPT ![s] = FALSE]
    BY <1>8 DEF Unplug, shared
  <2>2. ASSUME NEW t \in Threads
        PROVE  /\ away[t] => away'[t]
               /\ call[t] = s /\ pc[t] # "idle" => away'[t]
               /\ call[t] # s => acks'[call[t]] = acks[call[t]]
    BY <1>8, <2>1, Zenon DEF Unplug, TypeOK
  <2>3. ASSUME NEW t \in Threads
        PROVE  Watched(t)' /\ Noticed(t)' /\ Kept(t)' /\ Reasoned(t)'
    <3>1. Watched(t) /\ Noticed(t) /\ Kept(t) /\ Reasoned(t)
      BY DEF Excused
    <3> QED BY <2>1, <2>2, <3>1, Zenon DEF local, Watched, Noticed, Kept, Reasoned, Reason,
                                           LostInSensorID, Now
  <2> QED BY <2>3, Zenon DEF Excused
<1>9. ASSUME NEW s \in Sensors, Plug(s) PROVE Excused'
  <2>1. UNCHANGED <<lock, fds, claimed, pc, local, away>>
    BY <1>9 DEF Plug, shared
  <2>2. ASSUME NEW t \in Threads PROVE acks[call[t]] => acks'[call[t]]
    BY <1>9, SMT DEF Plug, TypeOK
  <2>3. ASSUME NEW t \in Threads
        PROVE  Watched(t)' /\ Noticed(t)' /\ Kept(t)' /\ Reasoned(t)'
    <3>1. Watched(t) /\ Noticed(t) /\ Kept(t) /\ Reasoned(t)
      BY DEF Excused
    <3> QED BY <2>1, <2>2, <3>1, Zenon DEF local, Watched, Noticed, Kept, Reasoned, Reason,
                                           LostInSensorID, Now
  <2> QED BY <2>3, Zenon DEF Excused
<1>10. CASE UNCHANGED vars
  BY <1>10, Zenon DEF vars, shared, local, Excused, Watched, Noticed, Kept, Reasoned, Reason,
                      LostInSensorID, Now
<1> QED BY <1>1, <1>2, <1>3, <1>4, <1>5, <1>6, <1>7, <1>8, <1>9, <1>10 DEF Next, Proceed

LEMMA ExcusedAlways == Spec => [](TypeOK /\ Owned /\ IInv /\ Excused)
<1>1. Init => Excused
  <2> SUFFICES ASSUME Init PROVE Excused
    OBVIOUS
  <2> USE BusAssumption DEF BusAssumption
  <2> QED BY SMT DEF Init, Excused, Watched, Noticed, Kept, Reasoned
<1> QED BY <1>1, ExcusedStep, Invariant, PTL DEF Spec

(* A call that failed had one of four reasons (temperature.c:165-187,          *)
(* light.c:150-195): nothing another caller does makes a reading fail, except  *)
(* by using up the descriptors.                                                *)
THEOREM FailuresHaveReasons == Spec => []FailureExplained
<1>1. Excused => FailureExplained
  BY DEF Excused, Reasoned, Reason, FailureExplained
<1> QED BY <1>1, ExcusedAlways, PTL

(* bus_lock outlives a call on the path of light.c:178-183 and on no other of  *)
(* the exits of temp_main and Light_main.                                      *)
THEOREM LockLeaksOnce == Spec => []OnlyIdPathKeepsLock
<1>1. Excused => OnlyIdPathKeepsLock
  BY DEF Excused, Kept, OnlyIdPathKeepsLock
<1> QED BY <1>1, ExcusedAlways, PTL
-----------------------------------------------------------------------------
(* SensorBus implements BusCalls *)

(* One caller's move is one move of its phase, or none. *)
LEMMA PhaseMoves ==
    ASSUME TypeOK, NEW t \in Threads, NEW l \in Points, Goto(t, l)
    PROVE  /\ [u \in Threads |-> Phase(pc'[u])]
                = [[u \in Threads |-> Phase(pc[u])] EXCEPT ![t] = Phase(l)]
           /\ pc'[t] = l
<1>1. pc' = [pc EXCEPT ![t] = l] /\ pc \in [Threads -> Points]
  BY Zenon DEF Goto, TypeOK
<1>2. \A u \in Threads : pc'[u] = IF u = t THEN l ELSE pc[u]
  BY <1>1, Zenon
<1> HIDE DEF Phase
<1> QED BY <1>2

(* A move inside the dialogue is none. *)
LEMMA PhaseStays ==
    ASSUME TypeOK, NEW t \in Threads, NEW l \in {"select", "transfer", "compute"}, Goto(t, l),
           pc[t] \in {"select", "transfer", "compute"}
    PROVE  [u \in Threads |-> Phase(pc'[u])] = [u \in Threads |-> Phase(pc[u])]
<1>1. Phase(pc[t]) = "talking" /\ Phase(l) = "talking"
  BY SMT DEF Phase
<1>2. l \in Points
  BY DEF Points
<1>3. [u \in Threads |-> Phase(pc'[u])]
        = [[u \in Threads |-> Phase(pc[u])] EXCEPT ![t] = Phase(l)]
  BY <1>2, PhaseMoves
<1> HIDE DEF Phase
<1> QED BY <1>1, <1>3, Zenon

LEMMA PhaseValues ==
    /\ Phase("idle") = "idle" /\ Phase("lock") = "waiting" /\ Phase("init") = "entered"
    /\ Phase("unlock") = "leaving" /\ Phase("select") = "talking"
    /\ Phase("transfer") = "talking" /\ Phase("compute") = "talking"
BY SMT DEF Phase

LEMMA AdvanceStays ==
    ASSUME TypeOK, NEW t \in Threads, NEW n, Advance(t, n),
           pc[t] \in {"select", "transfer", "compute"}
    PROVE  [u \in Threads |-> Phase(pc'[u])] = [u \in Threads |-> Phase(pc[u])]
<1>1. Goto(t, "select") \/ Goto(t, "compute")
  BY DEF Advance
<1> QED BY <1>1, PhaseStays, Zenon

(* What BusCalls sees of a transaction that is not acknowledged. *)
LEMMA NackConcludes ==
    ASSUME TypeOK, NEW t \in Threads, pc[t] \in {"select", "transfer"}, Nack(t),
           UNCHANGED <<lock, fds>>
    PROVE  Calls!Conclude(t) \/ UNCHANGED Calls!callVars
<1> USE PhaseValues
<1>1. CASE Substitute(t)
  <2>1. [u \in Threads |-> Phase(pc'[u])] = [u \in Threads |-> Phase(pc[u])]
    BY <1>1, AdvanceStays, Zenon DEF Substitute
  <2> QED BY <1>1, <2>1, Zenon DEF Substitute, Calls!callVars
<1>2. CASE Give_up(t)
  <2>1. Calls!MoveTo(t, "leaving")
    BY <1>2, PhaseMoves, Zenon DEF Give_up, Points, Calls!MoveTo
  <2> QED BY <1>2, <2>1, Zenon DEF Give_up, Calls!Conclude, Calls!Returns
<1>3. CASE Now(t).fn = "Read_Sensor_ID" /\ Give_up_holding(t)
  <2>1. Calls!MoveTo(t, "idle")
    BY <1>3, PhaseMoves, Zenon DEF Give_up_holding, Points, Calls!MoveTo
  <2> QED BY <1>3, <2>1, IdOfLight, Zenon DEF Give_up_holding, Calls!Conclude, Calls!Returns
<1> QED BY <1>1, <1>2, <1>3, SMT DEF Nack

LEMMA CallsStep == ASSUME TypeOK, Owned, [Next]_vars PROVE [Calls!CallNext]_(Calls!callVars)
<1> USE PhaseValues
<1>0. Calls!Threads = Threads /\ Calls!Sensors = Sensors /\ \A s : Calls!Users(s) = Users(s)
  BY DEF Calls!Threads, Threads, Calls!Sensors, Sensors, Calls!Users, Users
<1>1. ASSUME NEW t \in Threads, Calls!Work(t) PROVE Calls!CallNext
  BY <1>0, <1>1 DEF Calls!CallNext
<1>2. ASSUME NEW t \in Threads, NEW s \in Sensors, Call(t, s) PROVE Calls!CallNext
  <2>1. Calls!MoveTo(t, "waiting")
    BY <1>2, PhaseMoves, Zenon DEF Call, Points, Calls!MoveTo
  <2>2. Calls!Begin(t, s)
    BY <1>0, <1>2, <2>1, Zenon DEF Call, shared, Calls!Begin, Calls!Returns
  <2> QED BY <1>0, <2>2, Zenon DEF Calls!CallNext
<1>3. ASSUME NEW t \in Threads, Lock(t) PROVE Calls!CallNext
  <2>1. Calls!MoveTo(t, "entered")
    BY <1>3, PhaseMoves, Zenon DEF Lock, Points, Calls!MoveTo
  <2>2. Calls!Enter(t)
    BY <1>3, <2>1, Zenon DEF Lock, shared, local, Calls!Enter
  <2> QED BY <1>1, <2>2 DEF Calls!Work
<1>4. ASSUME NEW t \in Threads, I2C_init(t) PROVE Calls!CallNext
  <2>1. Give_up(t) => Calls!MoveTo(t, "leaving") /\ Calls!Returns(t, "EXIT_FAILURE") /\ call' = call
    BY PhaseMoves, Zenon DEF Give_up, Points, Calls!MoveTo, Calls!Returns
  <2>2. Goto(t, "select") => Calls!MoveTo(t, "talking")
    BY PhaseMoves, Zenon DEF Points, Calls!MoveTo
  <2>3. Phase(pc[t]) = "entered" /\ UNCHANGED lock
    BY <1>4, Zenon DEF I2C_init
  <2>4. CASE Open_fails(t)
    BY <1>1, <2>1, <2>3, <2>4, Zenon DEF Open_fails, Calls!Bind, Calls!Work
  <2>5. CASE Open_succeeds(t)
    BY <1>1, <2>1, <2>2, <2>3, <2>5, Zenon DEF Open_succeeds, local, Calls!Bind, Calls!Work
  <2> QED BY <1>4, <2>4, <2>5 DEF I2C_init
<1>5. ASSUME NEW t \in Threads, Select(t) PROVE [Calls!CallNext]_(Calls!callVars)
  <2>1. pc[t] = "select" /\ UNCHANGED <<lock, fds>>
    BY <1>5 DEF Select
  <2>2. CASE Answers
    <3>1. Goto(t, "transfer") /\ UNCHANGED local
      BY <1>5, <2>2, Zenon DEF Select
    <3>2. [u \in Threads |-> Phase(pc'[u])] = [u \in Threads |-> Phase(pc[u])]
      BY <2>1, <3>1, PhaseStays
    <3> QED BY <2>1, <3>1, <3>2, Zenon DEF local, Calls!callVars
  <2>3. CASE ~Answers
    <3>1. Nack(t)
      BY <1>5, <2>3, Zenon DEF Select
    <3> QED BY <1>1, <2>1, <3>1, NackConcludes, Zenon DEF Calls!Work
  <2> QED BY <2>2, <2>3
<1>6. ASSUME NEW t \in Threads, Transfer(t) PROVE [Calls!CallNext]_(Calls!callVars)
  <2>1. pc[t] = "transfer" /\ UNCHANGED <<lock, fds>>
    BY <1>6 DEF Transfer, shared
  <2>2. CASE Answers
    <3>1. Advance(t, 1) /\ UNCHANGED <<call, ret>>
      BY <1>6, <2>2, Zenon DEF Transfer
    <3>2. [u \in Threads |-> Phase(pc'[u])] = [u \in Threads |-> Phase(pc[u])]
      BY <2>1, <3>1, AdvanceStays
    <3> QED BY <2>1, <3>1, <3>2, Zenon DEF Calls!callVars
  <2>3. CASE ~Answers
    <3>1. Nack(t)
      BY <1>6, <2>3, Zenon DEF Transfer
    <3> QED BY <1>1, <2>1, <3>1, NackConcludes, Zenon DEF Calls!Work
  <2> QED BY <2>2, <2>3
<1>7. ASSUME NEW t \in Threads, Compute(t) PROVE Calls!CallNext
  <2>1. Calls!MoveTo(t, "leaving")
    BY <1>7, PhaseMoves, Zenon DEF Compute, Points, Calls!MoveTo
  <2>2. \E r \in {"EXIT_SUCCESS", "EXIT_FAILURE"} : Calls!Returns(t, r)
    BY <1>7, Zenon DEF Compute, Calls!Returns
  <2>3. Calls!Conclude(t)
    BY <1>7, <2>1, <2>2, Zenon DEF Compute, shared, Calls!Conclude
  <2> QED BY <1>1, <2>3 DEF Calls!Work
<1>8. ASSUME NEW t \in Threads, Unlock(t) PROVE Calls!CallNext
  <2>1. Calls!MoveTo(t, "idle")
    BY <1>8, PhaseMoves, Zenon DEF Unlock, Points, Calls!MoveTo
  <2>2. Calls!Leave(t)
    BY <1>8, <2>1, Zenon DEF Unlock, shared, local, Calls!Leave
  <2> QED BY <1>1, <2>2 DEF Calls!Work
<1>9. CASE \E s \in Sensors : Unplug(s) \/ Plug(s)
  BY <1>9, Zenon DEF Unplug, Plug, shared, local, Calls!callVars
<1>10. CASE UNCHANGED vars
  BY <1>10, Zenon DEF vars, shared, local, Calls!callVars
<1> QED BY <1>2, <1>3, <1>4, <1>5, <1>6, <1>7, <1>8, <1>9, <1>10 DEF Next, Proceed

(* temp_main and Light_main promise their callers what BusCalls says: the      *)
(* socket server and the handlers are modelled on top of it.                   *)
THEOREM ImplementsCalls == Spec => Calls_Spec
<1>1. Init => Calls!CallInit
  <2> SUFFICES ASSUME Init PROVE Calls!CallInit
    OBVIOUS
  <2>1. \A t \in Threads : Phase(pc[t]) = "idle"
    BY PhaseValues, Zenon DEF Init
  <2>2. [t \in Threads |-> Phase(pc[t])] = [t \in Threads |-> "idle"]
    BY <2>1, Zenon
  <2>3. Calls!Threads = Threads
    BY DEF Calls!Threads, Threads
  <2> HIDE DEF Phase
  <2> QED BY <2>2, <2>3, Zenon DEF Init, Calls!CallInit
<1>2. TypeOK /\ Owned /\ [Next]_vars => [Calls!CallNext]_(Calls!callVars)
  BY CallsStep
<1> QED BY <1>1, <1>2, Invariant, PTL DEF Spec, Calls_Spec, Calls!CallSpec
=============================================================================
