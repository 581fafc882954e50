-------------------------- MODULE SensorBusProofs --------------------------
(***************************************************************************)
(* For any number of threads and descriptors: the type invariant of        *)
(* SensorBus, that bus_lock keeps a selected register selected until it is *)
(* transferred, and that a successful reading holds its caller's registers *)
(* only.                                                                   *)
(*                                                                         *)
(* NoForeignData speaks of finished calls.  What is inductive follows the  *)
(* call: who is past the lock owns it, so file and the register pointer    *)
(* are still what this caller made them, and what it has collected are the *)
(* registers of the exchanges behind it.                                   *)
(***************************************************************************)
EXTENDS SensorBus, TLAPS

Reads(s) == { j \in 1..Len(Dialogue(s)) : Dialogue(s)[j].kind = "get" }

(* The registers the first k exchanges with s read. *)
Done(s, k) == { Dialogue(s)[i].reg : i \in { j \in Reads(s) : j <= k } }

Collected(t, k) ==
    /\ got[t] \subseteq Done(call[t], k)
    /\ lost[t] = {} => got[t] = Done(call[t], k)

Holder == \A t \in Threads : pc[t] \in Inside => lock = t

Bound == \A t \in Threads : pc[t] \in {"select", "transfer"} => file = call[t]

Selected == \A t \in Threads : pc[t] = "transfer" => pointer[call[t]] = Now(t).reg

Fresh(t) == pc[t] \in {"lock", "init"} =>
    step[t] = 1 /\ got[t] = {} /\ lost[t] = {} /\ ret[t] = "none"
Underway(t) == pc[t] \in {"select", "transfer"} =>
    Collected(t, step[t] - 1) /\ ret[t] = "none"
Complete(t) == pc[t] = "compute" \/ ret[t] = "EXIT_SUCCESS" =>
    Collected(t, Len(Dialogue(call[t])))

Gathered == \A t \in Threads : Fresh(t) /\ Underway(t) /\ Complete(t)

Owned == Holder /\ Bound

IInv == Selected /\ Gathered

-----------------------------------------------------------------------------
(* The dialogues: one exchange of the temperature sensor, eight of the light   *)
(* sensor, whose "left" never points back.                                     *)
LEMMA DialogueFacts ==
    \A s \in Sensors :
        /\ Len(Dialogue(s)) \in Nat \ {0}
        /\ \A i \in 1..Len(Dialogue(s)) :
              /\ Dialogue(s)[i].reg \in Registers
              /\ Dialogue(s)[i].left \in Nat \ {0}
              /\ i + Dialogue(s)[i].left <= Len(Dialogue(s)) + 1
<1>1. Len(Dialogue("Temper")) = 1 /\ Len(Dialogue("Light")) = 8
  BY SMT DEF Dialogue, Read_Temperature, Turn_on_Light_sensor, Check_PowerUp, Read_Sensor_ID, Read_Data
<1>2. /\ Dialogue("Temper")[1].reg \in Registers
      /\ Dialogue("Temper")[1].left = 1
  BY SMT DEF Dialogue, Read_Temperature, Get, Registers
<1>3. \A i \in 1..8 : Dialogue("Light")[i].reg \in Registers
  BY SMT DEF Dialogue, Turn_on_Light_sensor, Check_PowerUp, Read_Sensor_ID, Read_Data,
             Get, Put, write_control, write_timing, Registers
<1>4. \A i \in 1..8 : /\ Dialogue("Light")[i].left \in Nat \ {0}
                      /\ i + Dialogue("Light")[i].left <= 9
  BY SMT DEF Dialogue, Turn_on_Light_sensor, Check_PowerUp, Read_Sensor_ID, Read_Data,
             Get, Put, write_control, write_timing
<1> DEFINE Sound(s) ==
        /\ Len(Dialogue(s)) \in Nat \ {0}
        /\ \A i \in 1..Len(Dialogue(s)) :
              /\ Dialogue(s)[i].reg \in Registers
              /\ Dialogue(s)[i].left \in Nat \ {0}
              /\ i + Dialogue(s)[i].left <= Len(Dialogue(s)) + 1
<1>5. Sound("Temper")
  <2>1. \A i \in 1..1 : i = 1
    BY SMT
  <2>2. 1 \in Nat \ {0} /\ 1 + 1 <= 1 + 1
    BY SMT
  <2> QED BY <1>1, <1>2, <2>1, <2>2, Zenon
<1>6. Sound("Light")
  <2>1. 8 \in Nat \ {0} /\ 8 + 1 = 9
    BY SMT
  <2> QED BY <1>1, <1>3, <1>4, <2>1, Zenon
<1> QED BY <1>5, <1>6, Zenon DEF Sensors

(* Done grows by the register of each exchange that reads, up to Asked. *)
LEMMA DoneFacts ==
    ASSUME NEW s \in Sensors
    PROVE  /\ Done(s, 0) = {}
           /\ \A k, l \in Nat : k <= l => Done(s, k) \subseteq Done(s, l)
           /\ \A k \in 1..Len(Dialogue(s)) :
                 Done(s, k) = Done(s, k - 1) \cup
                                 (IF Dialogue(s)[k].kind = "get" THEN {Dialogue(s)[k].reg} ELSE {})
           /\ Done(s, Len(Dialogue(s))) = Asked(s)
<1>0. Len(Dialogue(s)) \in Nat \ {0}
  BY DialogueFacts
<1>1. Done(s, 0) = {}
  BY <1>0, SMT DEF Done, Reads
<1>2. \A k, l \in Nat : k <= l => Done(s, k) \subseteq Done(s, l)
  BY <1>0, SMT DEF Done, Reads
<1>3. ASSUME NEW k \in 1..Len(Dialogue(s))
      PROVE  Done(s, k) = Done(s, k - 1) \cup
                             (IF Dialogue(s)[k].kind = "get" THEN {Dialogue(s)[k].reg} ELSE {})
  <2>1. \A j \in Reads(s) : j \in Nat /\ (j <= k <=> j <= k - 1 \/ j = k)
    BY <1>0, SMT DEF Reads
  <2>2. k \in Reads(s) <=> Dialogue(s)[k].kind = "get"
    BY DEF Reads
  <2>3. k <= k
    BY <1>0, SMT
  <2> QED BY <2>1, <2>2, <2>3 DEF Done
<1>4. Done(s, Len(Dialogue(s))) = Asked(s)
  <2>1. \A j \in Reads(s) : j <= Len(Dialogue(s))
    BY <1>0, SMT DEF Reads
  <2> QED BY <2>1 DEF Done, Asked, Reads
<1> QED BY <1>1, <1>2, <1>3, <1>4
-----------------------------------------------------------------------------
(* The type of what a caller's steps change in its own record. *)
CallerTyped ==
    /\ pc \in [Threads -> Points]
    /\ call \in [Threads -> Sensors]
    /\ step \in [Threads -> Nat]
    /\ \A t \in Threads : step[t] \in 1..Len(Dialogue(call[t]))
    /\ got \in [Threads -> SUBSET Registers]
    /\ lost \in [Threads -> SUBSET {1, 2}]
    /\ ret \in [Threads -> {"none", "EXIT_SUCCESS", "EXIT_FAILURE"}]

LEMMA NowFacts ==
    ASSUME TypeOK, NEW t \in Threads
    PROVE  /\ call[t] \in Sensors
           /\ Len(Dialogue(call[t])) \in Nat
           /\ step[t] \in Nat /\ step[t] >= 1 /\ step[t] <= Len(Dialogue(call[t]))
           /\ Now(t).reg \in Registers
           /\ Now(t).left \in Nat \ {0}
<1>1. call[t] \in Sensors /\ step[t] \in 1..Len(Dialogue(call[t])) /\ step[t] \in Nat
  BY DEF TypeOK
<1> QED BY <1>1, DialogueFacts, SMT DEF Now

LEMMA AdvanceTyped ==
    ASSUME TypeOK, NEW t \in Threads, NEW n \in Nat, Advance(t, n), UNCHANGED call
    PROVE  /\ pc' \in [Threads -> Points]
           /\ step' \in [Threads -> Nat]
           /\ \A u \in Threads : step'[u] \in 1..Len(Dialogue(call'[u]))
<1>1. CASE step[t] + n <= Len(Dialogue(call[t]))
  <2>1. step' = [step EXCEPT ![t] = @ + n] /\ pc' = [pc EXCEPT ![t] = "select"]
    BY <1>1 DEF Advance, Goto
  <2>2. step[t] + n \in 1..Len(Dialogue(call[t])) /\ step[t] + n \in Nat
    BY <1>1, NowFacts, SMT
  <2>3. ASSUME NEW u \in Threads PROVE step'[u] \in 1..Len(Dialogue(call'[u]))
    <3>1. CASE u = t
      BY <2>1, <2>2, <3>1, Zenon DEF TypeOK
    <3>2. CASE u # t
      BY <2>1, <3>2, Zenon DEF TypeOK
    <3> QED BY <3>1, <3>2
  <2> QED BY <2>1, <2>2, <2>3, SMT DEF TypeOK, Points
<1>2. CASE ~(step[t] + n <= Len(Dialogue(call[t])))
  <2>1. step' = step /\ pc' = [pc EXCEPT ![t] = "compute"]
    BY <1>2 DEF Advance, Goto
  <2> QED BY <2>1, SMT DEF TypeOK, Points
<1> QED BY <1>1, <1>2

LEMMA GotoTyped ==
    ASSUME TypeOK, NEW t \in Threads, NEW l \in Points, Goto(t, l)
    PROVE  pc' \in [Threads -> Points]
<1>1. pc \in [Threads -> Points]
  BY Zenon DEF TypeOK
<1> QED BY <1>1, SMT DEF Goto

LEMMA RetTyped ==
    ASSUME TypeOK, NEW t \in Threads, NEW r \in {"none", "EXIT_SUCCESS", "EXIT_FAILURE"},
           ret' = [ret EXCEPT ![t] = r]
    PROVE  ret' \in [Threads -> {"none", "EXIT_SUCCESS", "EXIT_FAILURE"}]
<1>1. ret \in [Threads -> {"none", "EXIT_SUCCESS", "EXIT_FAILURE"}]
  BY Zenon DEF TypeOK
<1> QED BY <1>1, SMT

LEMMA GiveUpTyped ==
    ASSUME TypeOK, NEW t \in Threads, Give_up(t) \/ Give_up_holding(t) PROVE CallerTyped'
<1>1. UNCHANGED <<call, step, got, lost>>
  BY DEF Give_up, Give_up_holding
<1>2. pc' \in [Threads -> Points]
  BY GotoTyped, Zenon DEF Give_up, Give_up_holding, Points
<1>3. ret' \in [Threads -> {"none", "EXIT_SUCCESS", "EXIT_FAILURE"}]
  BY RetTyped, Zenon DEF Give_up, Give_up_holding
<1> QED BY <1>1, <1>2, <1>3, Zenon DEF CallerTyped, TypeOK

LEMMA NackTyped ==
    ASSUME TypeOK, NEW t \in Threads, Nack(t) PROVE CallerTyped'
<1>1. CASE Now(t).fn \in {"Read_Data(1)", "Read_Data(2)"}
  <2>1. Substitute(t)
    BY <1>1, Zenon DEF Nack
  <2>2. Now(t).left \in Nat
    BY NowFacts
  <2>3. Channel(Now(t).fn) \in {1, 2}
    BY DEF Channel
  <2>4. lost' \in [Threads -> SUBSET {1, 2}]
    BY <2>1, <2>3, SMT DEF Substitute, TypeOK
  <2> QED BY <2>1, <2>2, <2>4, AdvanceTyped DEF Substitute, CallerTyped, TypeOK
<1>2. CASE Now(t).fn \notin {"Read_Data(1)", "Read_Data(2)"}
  <2>1. Give_up(t) \/ Give_up_holding(t)
    BY <1>2, SMT DEF Nack
  <2> QED BY <2>1, GiveUpTyped
<1> QED BY <1>1, <1>2

LEMMA TypeStep == ASSUME TypeOK, Owned, [Next]_vars PROVE TypeOK'
<1> USE BusAssumption DEF BusAssumption
<1>1. ASSUME NEW t \in Threads, NEW s \in Sensors, Call(t, s) PROVE TypeOK'
  <2>1. away' \in [Threads -> BOOLEAN]
    BY <1>1, Zenon DEF Call, TypeOK
  <2>2. call' \in [Threads -> Sensors] /\ step' \in [Threads -> Nat]
    BY <1>1, SMT DEF Call, TypeOK
  <2>3. ASSUME NEW u \in Threads PROVE step'[u] \in 1..Len(Dialogue(call'[u]))
    <3>1. 1 \in 1..Len(Dialogue(s))
      BY DialogueFacts, SMT
    <3>2. CASE u = t
      BY <1>1, <3>1, <3>2, Zenon DEF Call, TypeOK
    <3>3. CASE u # t
      BY <1>1, <3>3, Zenon DEF Call, TypeOK
    <3> QED BY <3>2, <3>3
  <2> QED BY <1>1, <2>1, <2>2, <2>3, SMT DEF Call, Goto, shared, TypeOK, Points
<1>2. ASSUME NEW t \in Threads, Lock(t) PROVE TypeOK'
  BY <1>2, SMT DEF Lock, Goto, shared, local, TypeOK, Points
<1>3. ASSUME NEW t \in Threads, I2C_init(t) PROVE TypeOK'
  <2>1. CASE Give_up(t)
    <3>1. CallerTyped'
      BY <2>1, GiveUpTyped
    <3>2. fds' \in 0..MaxFds /\ file' \in Sensors \cup {"none"} /\ pointer' = pointer
      BY <1>3, SMT DEF I2C_init, Open_fails, Open_succeeds, TypeOK
    <3> QED BY <1>3, <3>1, <3>2, Zenon DEF I2C_init, CallerTyped, TypeOK
  <2>2. CASE ~Give_up(t)
    <3>1. /\ fds < MaxFds /\ fds' = fds + 1 /\ file' = call[t]
          /\ pc' = [pc EXCEPT ![t] = "select"]
          /\ UNCHANGED <<pointer, local>>
      BY <1>3, <2>2 DEF I2C_init, Open_fails, Open_succeeds, Goto
    <3>2. pc' \in [Threads -> Points]
      BY <3>1, SMT DEF TypeOK, Points
    <3>3. fds' \in 0..MaxFds /\ file' \in Sensors
      BY <3>1, SMT DEF TypeOK
    <3> QED BY <1>3, <3>1, <3>2, <3>3, Zenon DEF I2C_init, local, TypeOK
  <2> QED BY <2>1, <2>2
<1>4. ASSUME NEW t \in Threads, Select(t) PROVE TypeOK'
  <2>1. CASE Answers
    <3>1. pointer' \in [Sensors -> Registers]
      <4>1. pointer' = [pointer EXCEPT ![file] = Now(t).reg] /\ Now(t).reg \in Registers
        BY <1>4, <2>1, NowFacts, Zenon DEF Select
      <4>2. pointer \in [Sensors -> Registers] /\ file \in Sensors
        BY <1>4, Zenon DEF Select, Owned, Bound, TypeOK
      <4> QED BY <4>1, <4>2, SMT
    <3>2. pc' \in [Threads -> Points]
      BY <1>4, <2>1, GotoTyped, Zenon DEF Select, Points
    <3> QED BY <1>4, <2>1, <3>1, <3>2, Zenon DEF Select, local, TypeOK
  <2>2. CASE ~Answers
    <3>1. CallerTyped' /\ pointer' = pointer
      BY <1>4, <2>2, NackTyped DEF Select
    <3> QED BY <1>4, <3>1, Zenon DEF Select, CallerTyped, TypeOK
  <2> QED BY <2>1, <2>2
<1>5. ASSUME NEW t \in Threads, Transfer(t) PROVE TypeOK'
  <2>1. CASE Answers
    <3>1. pointer[file] \in Registers
      BY <1>5 DEF Transfer, Owned, Bound, TypeOK
    <3>2. got' \in [Threads -> SUBSET Registers]
      <4>1. got' = [got EXCEPT ![t] = IF Now(t).kind = "get" THEN @ \cup {pointer[file]} ELSE @]
        BY <1>5, <2>1, Zenon DEF Transfer
      <4>2. got \in [Threads -> SUBSET Registers]
        BY Zenon DEF TypeOK
      <4>3. CASE Now(t).kind = "get"
        <5>1. got' = [got EXCEPT ![t] = @ \cup {pointer[file]}]
          BY <4>1, <4>3, Zenon
        <5>2. got[t] \cup {pointer[file]} \in SUBSET Registers
          BY <3>1, <4>2
        <5> QED BY <4>2, <5>1, <5>2, SMT
      <4>4. CASE Now(t).kind # "get"
        <5>1. got' = [got EXCEPT ![t] = @]
          BY <4>1, <4>4, Zenon
        <5> QED BY <4>2, <5>1, Zenon
      <4> QED BY <4>3, <4>4
    <3>3. Advance(t, 1) /\ 1 \in Nat /\ UNCHANGED <<lock, shared, acks, claimed, call, lost, ret, away>>
      BY <1>5, <2>1 DEF Transfer
    <3> QED BY <3>2, <3>3, AdvanceTyped, Zenon DEF shared, TypeOK
  <2>2. CASE ~Answers
    <3>1. CallerTyped'
      BY <1>5, <2>2, NackTyped DEF Transfer
    <3> QED BY <1>5, <3>1, Zenon DEF Transfer, shared, CallerTyped, TypeOK
  <2> QED BY <2>1, <2>2
<1>6. ASSUME NEW t \in Threads, Compute(t) PROVE TypeOK'
  <2>1. pc' \in [Threads -> Points]
    BY <1>6, GotoTyped, Zenon DEF Compute, Points
  <2>2. ret' \in [Threads -> {"none", "EXIT_SUCCESS", "EXIT_FAILURE"}]
    BY <1>6, RetTyped, Zenon DEF Compute
  <2> QED BY <1>6, <2>1, <2>2, Zenon DEF Compute, shared, TypeOK
<1>7. ASSUME NEW t \in Threads, Unlock(t) PROVE TypeOK'
  BY <1>7, SMT DEF Unlock, Goto, shared, local, TypeOK, Points
<1>8. ASSUME NEW s \in Sensors, Unplug(s) PROVE TypeOK'
  <2>1. acks' \in [Sensors -> BOOLEAN] /\ away' \in [Threads -> BOOLEAN]
    BY <1>8, Zenon DEF Unplug, TypeOK
  <2> QED BY <1>8, <2>1, Zenon DEF Unplug, shared, local, TypeOK
<1>9. ASSUME NEW s \in Sensors, Plug(s) PROVE TypeOK'
  <2>1. acks' \in [Sensors -> BOOLEAN]
    BY <1>9, Zenon DEF Plug, TypeOK
  <2> QED BY <1>9, <2>1, Zenon DEF Plug, shared, local, TypeOK
<1>10. CASE UNCHANGED vars
  BY <1>10, Zenon DEF vars, shared, local, TypeOK
<1> QED BY <1>1, <1>2, <1>3, <1>4, <1>5, <1>6, <1>7, <1>8, <1>9, <1>10 DEF Next, Proceed

-----------------------------------------------------------------------------
(* Only t's record changes in a step of t. *)
Apart(t, u) ==
    /\ pc'[u] = pc[u] /\ step'[u] = step[u] /\ ret'[u] = ret[u]
    /\ got'[u] = got[u] /\ lost'[u] = lost[u]

LEMMA OthersKeep ==
    ASSUME TypeOK, NEW t \in Threads, Proceed(t), NEW u \in Threads, u # t
    PROVE  Apart(t, u) /\ call' = call
<1> USE DEF Apart, TypeOK
<1>1. ASSUME NEW n, Advance(t, n) PROVE pc'[u] = pc[u] /\ step'[u] = step[u]
  BY <1>1, Zenon DEF Advance, Goto
<1>2. ASSUME Give_up(t) \/ Give_up_holding(t) PROVE Apart(t, u) /\ call' = call
  BY <1>2, Zenon DEF Give_up, Give_up_holding, Goto
<1>3. ASSUME Nack(t) PROVE Apart(t, u) /\ call' = call
  <2>1. Substitute(t) \/ Give_up(t) \/ Give_up_holding(t)
    BY <1>3, SMT DEF Nack
  <2>2. CASE Substitute(t)
    BY <2>2, <1>1, Zenon DEF Substitute
  <2> QED BY <2>1, <2>2, <1>2
<1>4. CASE Lock(t) \/ Unlock(t)
  BY <1>4, Zenon DEF Lock, Unlock, Goto, local
<1>5. CASE I2C_init(t)
  BY <1>5, <1>2, Zenon DEF I2C_init, Open_fails, Open_succeeds, Goto, local
<1>6. CASE Select(t)
  BY <1>6, <1>3, Zenon DEF Select, Goto, local
<1>7. CASE Transfer(t)
  BY <1>7, <1>1, <1>3, Zenon DEF Transfer
<1>8. CASE Compute(t)
  BY <1>8, Zenon DEF Compute, Goto
<1> QED BY <1>4, <1>5, <1>6, <1>7, <1>8 DEF Proceed

LEMMA OwnedStep == ASSUME TypeOK, TypeOK', Owned, [Next]_vars PROVE Owned'
<1> USE BusAssumption DEF BusAssumption
<1>1. ASSUME NEW t \in Threads, NEW s \in Sensors, Call(t, s) PROVE Owned'
  BY <1>1, SMT DEF Call, Goto, shared, Owned, Holder, Bound, Inside, TypeOK
<1>2. ASSUME NEW t \in Threads, Lock(t) PROVE Owned'
  BY <1>2, SMT DEF Lock, Goto, shared, local, Owned, Holder, Bound, Inside, TypeOK
<1>3. ASSUME NEW t \in Threads, pc[t] \in Inside, Proceed(t),
             lock' = t \/ pc'[t] \notin Inside,
             pc'[t] \in {"select", "transfer"} => file' = call'[t]
      PROVE  Owned'
  <2>1. ASSUME NEW u \in Threads, u # t PROVE pc'[u] \notin Inside
    BY <1>3, <2>1, OthersKeep DEF Apart, Owned, Holder
  <2>2. {"select", "transfer"} \subseteq Inside
    BY DEF Inside
  <2> QED BY <1>3, <2>1, <2>2, Zenon DEF Owned, Holder, Bound
<1>4. ASSUME NEW t \in Threads, Give_up(t) \/ Give_up_holding(t)
      PROVE  pc'[t] \notin {"select", "transfer"}
  BY <1>4, SMT DEF Give_up, Give_up_holding, Goto, TypeOK
<1>5. ASSUME NEW t \in Threads, I2C_init(t) PROVE Owned'
  <2>1. pc'[t] \in {"select", "transfer"} => file' = call'[t]
    <3>1. CASE Give_up(t)
      BY <1>4, <3>1
    <3>2. CASE ~Give_up(t)
      BY <1>5, <3>2, Zenon DEF I2C_init, Open_fails, Open_succeeds, local
    <3> QED BY <3>1, <3>2
  <2>2. pc[t] \in Inside /\ lock' = t
    BY <1>5 DEF I2C_init, Inside, Owned, Holder
  <2> QED BY <1>3, <1>5, <2>1, <2>2 DEF Proceed
<1>6. ASSUME NEW t \in Threads, Select(t) \/ Transfer(t) PROVE Owned'
  <2>1. call' = call
    BY <1>6, Zenon DEF Select, Transfer, Nack, Substitute, Give_up, Give_up_holding, local
  <2>2. pc[t] \in Inside /\ lock' = t /\ file' = call[t]
    BY <1>6 DEF Select, Transfer, shared, Inside, Owned, Holder, Bound
  <2> QED BY <1>3, <1>6, <2>1, <2>2 DEF Proceed
<1>7. ASSUME NEW t \in Threads, Compute(t) \/ Unlock(t) PROVE Owned'
  <2>1. pc'[t] \in {"unlock", "idle"} /\ pc[t] \in Inside
    BY <1>7, SMT DEF Compute, Unlock, Goto, Inside, TypeOK
  <2>2. lock' = t \/ pc'[t] \notin Inside
    <3>1. CASE Compute(t)
      BY <3>1, Zenon DEF Compute, Inside, Owned, Holder
    <3>2. CASE Unlock(t)
      BY <3>2, SMT DEF Unlock, Goto, Inside, TypeOK
    <3> QED BY <1>7, <3>1, <3>2
  <2> QED BY <1>3, <1>7, <2>1, <2>2, SMT DEF Proceed
<1>8. ASSUME NEW s \in Sensors, Unplug(s) \/ Plug(s) PROVE Owned'
  BY <1>8, Zenon DEF Unplug, Plug, shared, local, Owned, Holder, Bound
<1>9. CASE UNCHANGED vars
  BY <1>9, Zenon DEF vars, shared, local, Owned, Holder, Bound
<1> QED BY <1>1, <1>2, <1>5, <1>6, <1>7, <1>8, <1>9 DEF Next, Proceed

LEMMA InitTyped == Init => TypeOK /\ Owned
<1> SUFFICES ASSUME Init PROVE TypeOK /\ Owned
  OBVIOUS
<1> USE BusAssumption DEF BusAssumption
<1>1. \A t \in Threads : step[t] \in 1..Len(Dialogue(call[t]))
  BY DialogueFacts, SMT DEF Init, Sensors
<1>2. acks \in [Sensors -> BOOLEAN] /\ away \in [Threads -> BOOLEAN]
  BY Zenon DEF Init
<1>3. pointer \in [Sensors -> Registers]
  BY SMT DEF Init, Registers
<1>4. TypeOK
  BY <1>1, <1>2, <1>3, SMT DEF Init, TypeOK, Sensors, Points
<1>5. Owned
  BY SMT DEF Init, Owned, Holder, Bound, Inside
<1> QED BY <1>4, <1>5

(* The type invariant of SensorBus: in particular no driver function runs past *)
(* its last exchange, whatever Read_Data leaves out (light.c:211-242).         *)
THEOREM TypeCorrect == Spec => []TypeOK
<1> QED BY InitTyped, TypeStep, OwnedStep, PTL DEF Spec
-----------------------------------------------------------------------------
(* A reading goes on: what has been collected stays right. *)
LEMMA AdvanceKeeps ==
    ASSUME TypeOK, NEW t \in Threads, NEW n \in Nat \ {0}, Advance(t, n), call' = call,
           step[t] + n <= Len(Dialogue(call[t])) + 1,
           ret[t] = "none", ret'[t] = ret[t],
           got'[t] \subseteq Done(call[t], step[t] + n - 1),
           lost'[t] = {} => got'[t] = Done(call[t], step[t] + n - 1)
    PROVE  Fresh(t)' /\ Underway(t)' /\ Complete(t)'
<1> USE NowFacts
<1>1. CASE step[t] + n <= Len(Dialogue(call[t]))
  <2>1. pc'[t] = "select" /\ step'[t] = step[t] + n
    BY <1>1, SMT DEF Advance, Goto, TypeOK
  <2>2. Collected(t, step[t] - 1)'
    <3>1. call'[t] = call[t] /\ step'[t] - 1 = step[t] + n - 1
      BY <2>1, SMT
    <3> QED BY <3>1 DEF Collected
  <2>3. pc'[t] \notin {"lock", "init", "compute"} /\ ret'[t] = "none"
    BY <2>1, Zenon
  <2> QED BY <2>2, <2>3, Zenon DEF Fresh, Underway, Complete
<1>2. CASE ~(step[t] + n <= Len(Dialogue(call[t])))
  <2>1. pc'[t] = "compute"
    BY <1>2, SMT DEF Advance, Goto, TypeOK
  <2>2. step[t] + n - 1 = Len(Dialogue(call[t]))
    BY <1>2, SMT
  <2> QED BY <2>1, <2>2, Zenon DEF Fresh, Underway, Complete, Collected
<1> QED BY <1>1, <1>2

LEMMA NackKeeps ==
    ASSUME TypeOK, NEW t \in Threads, Nack(t), pc[t] \in {"select", "transfer"}, Underway(t)
    PROVE  Fresh(t)' /\ Underway(t)' /\ Complete(t)' /\ call' = call /\ pc'[t] # "transfer"
<1>1. Substitute(t) \/ Give_up(t) \/ Give_up_holding(t)
  BY SMT DEF Nack
<1>2. CASE Substitute(t)
  <2> DEFINE k == Now(t).left
  <2>1. k \in Nat \ {0} /\ step[t] + k <= Len(Dialogue(call[t])) + 1
    BY NowFacts, DialogueFacts, SMT DEF Now
  <2>2. Advance(t, k) /\ call' = call /\ got' = got /\ ret' = ret
    BY <1>2, Zenon DEF Substitute
  <2>3. got[t] \subseteq Done(call[t], step[t] - 1) /\ ret[t] = "none"
    BY DEF Underway, Collected
  <2>4. lost'[t] # {}
    BY <1>2, Zenon DEF Substitute, TypeOK
  <2>5. Done(call[t], step[t] - 1) \subseteq Done(call[t], step[t] + k - 1)
    <3>1. step[t] - 1 \in Nat /\ step[t] + k - 1 \in Nat /\ step[t] - 1 <= step[t] + k - 1
      BY <2>1, NowFacts, SMT
    <3>2. call[t] \in Sensors
      BY NowFacts
    <3>3. \A k1, l \in Nat : k1 <= l => Done(call[t], k1) \subseteq Done(call[t], l)
      BY <3>2, DoneFacts, Zenon
    <3> HIDE DEF k
    <3> QED BY <3>1, <3>3
  <2>6. pc'[t] \in {"select", "compute"}
    BY <2>2, Zenon DEF Advance, Goto, TypeOK
  <2>7. got'[t] \subseteq Done(call[t], step[t] + k - 1)
    BY <2>2, <2>3, <2>5
  <2> QED BY <2>1, <2>2, <2>3, <2>4, <2>6, <2>7, AdvanceKeeps
<1>3. CASE Give_up(t) \/ Give_up_holding(t)
  <2>1. pc'[t] \in {"unlock", "idle"} /\ ret'[t] = "EXIT_FAILURE" /\ call' = call
    BY <1>3, Zenon DEF Give_up, Give_up_holding, Goto, TypeOK
  <2> QED BY <2>1 DEF Fresh, Underway, Complete
<1> QED BY <1>1, <1>2, <1>3

LEMMA TransferKeeps ==
    ASSUME TypeOK, Owned, Selected, NEW t \in Threads, Transfer(t), Underway(t)
    PROVE  Fresh(t)' /\ Underway(t)' /\ Complete(t)' /\ call' = call /\ pc'[t] # "transfer"
<1>1. CASE ~Answers
  <2>1. Nack(t) /\ pc[t] \in {"select", "transfer"}
    BY <1>1, Zenon DEF Transfer
  <2> QED BY <2>1, NackKeeps
<1>2. CASE Answers
  <2>1. /\ pc[t] = "transfer" /\ Advance(t, 1) /\ call' = call /\ lost' = lost /\ ret' = ret
        /\ got' = [got EXCEPT ![t] = IF Now(t).kind = "get" THEN @ \cup {pointer[file]} ELSE @]
    BY <1>2, Zenon DEF Transfer
  <2>2. pointer[file] = Now(t).reg
    BY <2>1, Zenon DEF Selected, Owned, Bound
  <2> DEFINE read == IF Now(t).kind = "get" THEN {Now(t).reg} ELSE {}
  <2>3. got'[t] = got[t] \cup read
    BY <2>1, <2>2, Zenon DEF TypeOK
  <2>4. Done(call[t], step[t]) = Done(call[t], step[t] - 1) \cup read
    BY NowFacts, DoneFacts DEF Now
  <2>5. Collected(t, step[t] - 1) /\ ret[t] = "none"
    BY <2>1 DEF Underway
  <2>6. step[t] + 1 - 1 = step[t] /\ 1 \in Nat \ {0} /\ step[t] + 1 <= Len(Dialogue(call[t])) + 1
    BY NowFacts, SMT
  <2> HIDE DEF read
  <2>7. /\ got'[t] \subseteq Done(call[t], step[t])
        /\ lost'[t] = {} => got'[t] = Done(call[t], step[t])
    BY <2>1, <2>3, <2>4, <2>5 DEF Collected
  <2>8. pc'[t] \in {"select", "compute"}
    BY <2>1, Zenon DEF Advance, Goto, TypeOK
  <2> QED BY <2>1, <2>5, <2>6, <2>7, <2>8, AdvanceKeeps
<1> QED BY <1>1, <1>2

(* IInv survives the step of one caller if that caller's part does, and the     *)
(* device's pointer is not moved under another caller.                          *)
LEMMA OneMoves ==
    ASSUME TypeOK, Owned, IInv, NEW t \in Threads, Proceed(t),
           pc[t] \in Inside \/ (pc[t] = "lock" /\ pointer' = pointer),
           Fresh(t)' /\ Underway(t)' /\ Complete(t)',
           pc'[t] = "transfer" => pointer'[call'[t]] = Now(t).reg'
    PROVE  IInv'
<1>1. \A u \in Threads : u # t => Apart(t, u) /\ call' = call
  BY OthersKeep
<1>2. ASSUME NEW u \in Threads, u # t PROVE Fresh(u)' /\ Underway(u)' /\ Complete(u)'
  <2>1. Apart(t, u) /\ call' = call
    BY <1>1, <1>2
  <2>2. Fresh(u) /\ Underway(u) /\ Complete(u)
    BY DEF IInv, Gathered
  <2> QED BY <2>1, <2>2, Zenon DEF Apart, Fresh, Underway, Complete, Collected
<1>3. ASSUME NEW u \in Threads, u # t, pc'[u] = "transfer"
      PROVE  pointer'[call'[u]] = Now(u).reg'
  <2>1. Apart(t, u) /\ call' = call
    BY <1>1, <1>3
  <2>2. pc[u] = "transfer" /\ pc[u] \in Inside /\ lock = u
    BY <1>3, <2>1 DEF Apart, Inside, Owned, Holder
  <2>3. pointer' = pointer
    BY <1>3, <2>2 DEF Owned, Holder
  <2> QED BY <2>1, <2>2, <2>3, Zenon DEF Apart, IInv, Selected, Now
<1> QED BY <1>2, <1>3, Zenon DEF IInv, Selected, Gathered

LEMMA IInvStep == ASSUME TypeOK, Owned, IInv, [Next]_vars PROVE IInv'
<1>1. ASSUME NEW t \in Threads, NEW s \in Sensors, Call(t, s) PROVE IInv'
  <2>1. /\ pc'[t] = "lock" /\ step'[t] = 1 /\ got'[t] = {} /\ lost'[t] = {} /\ ret'[t] = "none"
        /\ pointer' = pointer
    BY <1>1, Zenon DEF Call, Goto, shared, TypeOK
  <2>2. ASSUME NEW u \in Threads, u # t PROVE Apart(t, u) /\ call'[u] = call[u]
    BY <1>1, <2>2, Zenon DEF Call, Goto, Apart, TypeOK
  <2>3. Fresh(t)' /\ Underway(t)' /\ Complete(t)'
    BY <2>1, Zenon DEF Fresh, Underway, Complete
  <2>4. ASSUME NEW u \in Threads, u # t PROVE Fresh(u)' /\ Underway(u)' /\ Complete(u)'
    BY <2>2, <2>4, Zenon DEF Apart, Fresh, Underway, Complete, Collected, IInv, Gathered
  <2>5. Selected'
    BY <2>1, <2>2, Zenon DEF Apart, IInv, Selected, Now
  <2> QED BY <2>3, <2>4, <2>5, Zenon DEF IInv, Gathered
<1>2. ASSUME NEW t \in Threads, Lock(t) PROVE IInv'
  <2>1. pc[t] = "lock" /\ pc'[t] = "init" /\ pointer' = pointer /\ UNCHANGED local
    BY <1>2, Zenon DEF Lock, Goto, shared, TypeOK
  <2>2. Fresh(t)' /\ Underway(t)' /\ Complete(t)'
    BY <2>1, Zenon DEF local, IInv, Gathered, Fresh, Underway, Complete
  <2> QED BY <1>2, <2>1, <2>2, OneMoves DEF Proceed
<1>3. ASSUME NEW t \in Threads, I2C_init(t) PROVE IInv'
  <2>1. pc[t] = "init" /\ pointer' = pointer /\ pc[t] \in Inside
    BY <1>3 DEF I2C_init, Open_fails, Open_succeeds, Inside
  <2>2. Fresh(t)
    BY DEF IInv, Gathered
  <2>3. CASE Give_up(t)
    <3>1. pc'[t] = "unlock" /\ ret'[t] = "EXIT_FAILURE"
      BY <2>3, Zenon DEF Give_up, Goto, TypeOK
    <3>2. Fresh(t)' /\ Underway(t)' /\ Complete(t)'
      BY <3>1 DEF Fresh, Underway, Complete
    <3> QED BY <1>3, <2>1, <3>1, <3>2, OneMoves DEF Proceed
  <2>4. CASE ~Give_up(t)
    <3>1. pc'[t] = "select" /\ UNCHANGED local
      BY <1>3, <2>4, Zenon DEF I2C_init, Open_fails, Open_succeeds, Goto, TypeOK
    <3>2. step'[t] = 1 /\ got'[t] = {} /\ ret'[t] = "none"
      BY <2>1, <2>2, <3>1 DEF Fresh, local
    <3>3. Done(call'[t], step'[t] - 1) = {}
      <4>1. call'[t] \in Sensors /\ step'[t] - 1 = 0
        BY <3>1, <3>2, SMT DEF local, TypeOK
      <4> QED BY <4>1, DoneFacts
    <3>4. Fresh(t)' /\ Underway(t)' /\ Complete(t)'
      BY <3>1, <3>2, <3>3 DEF Fresh, Underway, Complete, Collected
    <3> QED BY <1>3, <2>1, <3>1, <3>4, OneMoves DEF Proceed
  <2> QED BY <2>3, <2>4
<1>4. ASSUME NEW t \in Threads, Select(t) PROVE IInv'
  <2>1. pc[t] = "select" /\ pc[t] \in Inside /\ Underway(t)
    BY <1>4 DEF Select, Inside, IInv, Gathered
  <2>2. CASE ~Answers
    <3>1. Nack(t)
      BY <1>4, <2>2, Zenon DEF Select
    <3>2. Proceed(t)
      BY <1>4 DEF Proceed
    <3>3. Fresh(t)' /\ Underway(t)' /\ Complete(t)' /\ pc'[t] # "transfer"
      <4>1. pc[t] \in {"select", "transfer"}
        BY <2>1
      <4> QED BY <2>1, <3>1, <4>1, NackKeeps
    <3> QED BY <2>1, <3>2, <3>3, OneMoves
  <2>3. CASE Answers
    <3>1. /\ pc'[t] = "transfer" /\ UNCHANGED local
          /\ pointer' = [pointer EXCEPT ![file] = Now(t).reg]
      BY <1>4, <2>3, Zenon DEF Select, Goto, TypeOK
    <3>2. Fresh(t)' /\ Underway(t)' /\ Complete(t)'
      BY <2>1, <3>1, Zenon DEF local, Fresh, Underway, Complete, Collected
    <3>3. pointer'[call'[t]] = Now(t).reg'
      <4>1. file = call[t] /\ file \in Sensors
        BY <2>1 DEF Owned, Bound, TypeOK
      <4> QED BY <3>1, <4>1, Zenon DEF local, Now, TypeOK
    <3>4. Proceed(t)
      BY <1>4 DEF Proceed
    <3> QED BY <2>1, <3>2, <3>3, <3>4, OneMoves
  <2> QED BY <2>2, <2>3
<1>5. ASSUME NEW t \in Threads, Transfer(t) PROVE IInv'
  <2>1. pc[t] \in Inside /\ Underway(t) /\ Selected
    BY <1>5 DEF Transfer, Inside, IInv, Gathered
  <2>2. Fresh(t)' /\ Underway(t)' /\ Complete(t)' /\ pc'[t] # "transfer"
    BY <1>5, <2>1, TransferKeeps
  <2>3. Proceed(t)
    BY <1>5 DEF Proceed
  <2> QED BY <2>1, <2>2, <2>3, OneMoves
<1>6. ASSUME NEW t \in Threads, Compute(t) PROVE IInv'
  <2>1. /\ pc[t] = "compute" /\ pc[t] \in Inside /\ pc'[t] = "unlock"
        /\ UNCHANGED <<call, step, got, lost>>
    BY <1>6, Zenon DEF Compute, Goto, Inside, TypeOK
  <2>2. Complete(t)
    BY DEF IInv, Gathered
  <2>3. Fresh(t)' /\ Underway(t)' /\ Complete(t)'
    BY <2>1, <2>2, Zenon DEF Fresh, Underway, Complete, Collected
  <2>4. Proceed(t) /\ pc'[t] # "transfer"
    BY <1>6, <2>1 DEF Proceed
  <2> QED BY <2>1, <2>3, <2>4, OneMoves
<1>7. ASSUME NEW t \in Threads, Unlock(t) PROVE IInv'
  <2>1. pc[t] \in Inside /\ pc'[t] = "idle" /\ UNCHANGED local
    BY <1>7, Zenon DEF Unlock, Goto, Inside, TypeOK
  <2>2. Complete(t)
    BY DEF IInv, Gathered
  <2>3. Fresh(t)' /\ Underway(t)' /\ Complete(t)'
    BY <2>1, <2>2, Zenon DEF local, Fresh, Underway, Complete, Collected
  <2>4. Proceed(t) /\ pc'[t] # "transfer"
    BY <1>7, <2>1 DEF Proceed
  <2> QED BY <2>1, <2>3, <2>4, OneMoves
<1>8. ASSUME NEW s \in Sensors, Unplug(s) \/ Plug(s) PROVE IInv'
  BY <1>8, Zenon DEF Unplug, Plug, shared, local, IInv, Selected, Gathered,
                     Fresh, Underway, Complete, Collected, Now
<1>9. CASE UNCHANGED vars
  BY <1>9, Zenon DEF vars, shared, local, IInv, Selected, Gathered,
                     Fresh, Underway, Complete, Collected, Now
<1> QED BY <1>1, <1>2, <1>3, <1>4, <1>5, <1>6, <1>7, <1>8, <1>9 DEF Next, Proceed

(* Every state of every instance: who is past the lock owns it and the shared  *)
(* descriptor, and has collected what its exchanges asked for.                 *)
THEOREM Invariant == Spec => [](TypeOK /\ Owned /\ IInv)
<1>1. Init => TypeOK /\ Owned
  BY InitTyped
<1>2. Init => IInv
  BY SMT DEF Init, IInv, Selected, Gathered, Fresh, Underway, Complete
<1> QED BY <1>1, <1>2, TypeStep, OwnedStep, IInvStep, PTL DEF Spec

(* A successful temp_main or Light_main (temperature.c:165, light.c:150) never *)
(* mixes in what another caller selected, with any number of callers.          *)
THEOREM ReadingsAreOwn == Spec => []NoForeignData
<1>1. ASSUME Gathered, NEW t \in Threads, ret[t] = "EXIT_SUCCESS", TypeOK
      PROVE  got[t] \subseteq Asked(call[t]) /\ (lost[t] = {} => got[t] = Asked(call[t]))
  <2>1. Collected(t, Len(Dialogue(call[t])))
    BY <1>1 DEF Gathered, Complete
  <2>2. Done(call[t], Len(Dialogue(call[t]))) = Asked(call[t])
    BY <1>1, NowFacts, DoneFacts
  <2> QED BY <2>1, <2>2 DEF Collected
<1>2. TypeOK /\ Owned /\ IInv => NoForeignData
  BY <1>1 DEF NoForeignData, IInv
<1> QED BY <1>2, Invariant, PTL

(* Between the write that selects a register and the transfer, bus_lock        *)
(* (temperature.c:168, light.c:153) keeps every other caller off the           *)
(* descriptor and the pointer.                                                 *)
THEOREM SelectionIsKept == Spec => SelectionHolds
<1>1. ASSUME TypeOK, Owned, [Next]_vars, NEW t \in Threads, pc[t] = "transfer", pc'[t] = "transfer"
      PROVE  UNCHANGED <<file, pointer>>
  <2>1. ASSUME NEW u \in Threads, I2C_init(u) \/ Select(u) PROVE FALSE
    <3>1. pc[u] \in {"init", "select"} /\ pc[u] \in Inside /\ pc[t] \in Inside
      BY <1>1, <2>1 DEF I2C_init, Select, Inside
    <3>2. u = t
      BY <1>1, <2>1, <3>1 DEF Owned, Holder
    <3> QED BY <1>1, <3>1, <3>2
  <2>2. CASE \E u \in Threads : Proceed(u)
    BY <2>1, <2>2, Zenon DEF Proceed, Lock, Transfer, Compute, Unlock, shared
  <2>3. CASE ~\E u \in Threads : Proceed(u)
    BY <1>1, <2>3, Zenon DEF Next, Call, Unplug, Plug, vars, shared
  <2> QED BY <2>2, <2>3
<1>2. TypeOK /\ Owned /\ [Next]_vars =>
         [\A t \in Threads :
            pc[t] = "transfer" /\ pc'[t] = "transfer" => UNCHANGED <<file, pointer>>]_vars
  BY <1>1
<1> QED BY <1>2, Invariant, PTL DEF Spec, SelectionHolds
=============================================================================
