------------------------- MODULE LogPipelineProofs -------------------------
(***************************************************************************)
(* For any number of handlers and any queue length: the type invariant of  *)
(* LogPipeline, that the logger never waits in mq_receive, and that        *)
(* LogPipeline implements LogChannel.                                      *)
(*                                                                         *)
(* ReceiveNeverBlocks speaks of one moment of the logger.  What is         *)
(* inductive is a count: a record in the queue backs each receive the      *)
(* logger is committed to, each flag that is set, and each handler that    *)
(* has sent its record and not yet set the flag.                           *)
(***************************************************************************)
EXTENDS LogPipeline, FiniteSetTheorems, SequenceTheorems, TLAPS

One(b) == IF b THEN 1 ELSE 0

(* Handlers between their mq_send and their flag. *)
Sent(s) == { h \in Handlers : hpc[h] = "flag" /\ SensorOf(h) = s }

Owed(s) == One(lpc = "receive" /\ at = s) + One(flag[s]) + Cardinality(Sent(s))

Backed == \A s \in Sensors : Owed(s) <= Len(queue[s])

ClearsSet == lpc = "clear" => flag[at]

IInv == Backed /\ ClearsSet

-----------------------------------------------------------------------------
LEMMA SensorFacts ==
    \A h \in Handlers : SensorOf(h) \in Sensors
BY DEF SensorOf, Sensors

(* The handler steps only move the program counter, the counter copy and the   *)
(* composed record of their handler within their types.                        *)
LEMMA StepTyped ==
    ASSUME TypeOK, NEW h \in Handlers, NEW from, NEW to \in HandlerPoints, Step(h, from, to)
    PROVE  hpc' \in [Handlers -> HandlerPoints]
<1>1. hpc \in [Handlers -> HandlerPoints]
  BY Zenon DEF TypeOK
<1> QED BY <1>1, Zenon DEF Step

LEMMA ComposeTyped ==
    ASSUME TypeOK, NEW h \in Handlers, NEW level \in Levels, Compose(h, level)
    PROVE  msg' \in [Handlers -> Levels]
<1>1. msg \in [Handlers -> Levels]
  BY Zenon DEF TypeOK
<1> QED BY <1>1, Zenon DEF Compose

LEMMA EnqueueTyped ==
    ASSUME TypeOK, NEW h \in Handlers, Enqueue(h)
    PROVE  /\ queue' \in [Sensors -> Seq(Levels)]
           /\ \A s \in Sensors : Len(queue'[s]) <= Capacity
           /\ Len(queue'[SensorOf(h)]) = Len(queue[SensorOf(h)]) + 1
           /\ \A s \in Sensors : s # SensorOf(h) => queue'[s] = queue[s]
<1> DEFINE x == SensorOf(h)
<1>1. x \in Sensors /\ queue \in [Sensors -> Seq(Levels)] /\ msg[h] \in Levels
  BY SensorFacts, Zenon DEF TypeOK
<1>2. queue' = [queue EXCEPT ![x] = Append(@, msg[h])] /\ Len(queue[x]) < Capacity
  BY Zenon DEF Enqueue
<1>3. queue[x] \in Seq(Levels) /\ Len(queue[x]) \in Nat
  BY <1>1, LenProperties, Zenon
<1>4. /\ Append(queue[x], msg[h]) \in Seq(Levels)
      /\ Len(Append(queue[x], msg[h])) = Len(queue[x]) + 1
  BY <1>1, <1>3, AppendProperties, ZenonT(60)
<1> HIDE DEF x
<1>5. queue' \in [Sensors -> Seq(Levels)] /\ queue'[x] = Append(queue[x], msg[h])
  BY <1>1, <1>2, <1>4, Zenon
<1>6. \A s \in Sensors : s # x => queue'[s] = queue[s]
  BY <1>1, <1>2, Zenon
<1>7. Len(queue[x]) + 1 <= Capacity
  BY <1>2, <1>3, PipelineAssumption, SMT DEF PipelineAssumption
<1>8. \A s \in Sensors : Len(queue'[s]) <= Capacity
  <2> TAKE s \in Sensors
  <2>1. CASE s = x
    BY <1>4, <1>5, <1>7, <2>1, Zenon
  <2>2. CASE s # x
    BY <1>6, <2>2, Zenon DEF TypeOK
  <2> QED BY <2>1, <2>2
<1>9. Len(queue'[x]) = Len(queue[x]) + 1
  BY <1>4, <1>5, Zenon
<1> QED BY <1>5, <1>6, <1>8, <1>9 DEF x

LEMMA ReceiveTyped ==
    ASSUME TypeOK, Receive
    PROVE  /\ queue' \in [Sensors -> Seq(Levels)]
           /\ \A s \in Sensors : Len(queue'[s]) <= Capacity
           /\ taken' \in Levels
           /\ Len(queue'[at]) = Len(queue[at]) - 1
           /\ \A s \in Sensors : s # at => queue'[s] = queue[s]
<1>1. at \in Sensors /\ queue \in [Sensors -> Seq(Levels)]
  BY Zenon DEF TypeOK
<1>2. queue' = [queue EXCEPT ![at] = Tail(@)] /\ queue[at] # <<>> /\ taken' = Head(queue[at])
  BY Zenon DEF Receive
<1>3. queue[at] \in Seq(Levels) /\ Len(queue[at]) \in Nat
  BY <1>1, LenProperties, Zenon
<1>4. /\ Head(queue[at]) \in Levels /\ Tail(queue[at]) \in Seq(Levels)
      /\ Len(Tail(queue[at])) = Len(queue[at]) - 1
  BY <1>2, <1>3, HeadTailProperties, Zenon
<1>5. queue' \in [Sensors -> Seq(Levels)] /\ queue'[at] = Tail(queue[at])
  BY <1>1, <1>2, <1>4, Zenon
<1>6. \A s \in Sensors : s # at => queue'[s] = queue[s]
  BY <1>1, <1>2, Zenon
<1>7. Len(queue[at]) - 1 <= Capacity
  <2>1. Len(queue[at]) <= Capacity
    BY <1>1, Zenon DEF TypeOK
  <2> QED BY <1>3, <2>1, PipelineAssumption, SMT DEF PipelineAssumption
<1>8. \A s \in Sensors : Len(queue'[s]) <= Capacity
  <2> TAKE s \in Sensors
  <2>1. CASE s = at
    BY <1>4, <1>5, <1>7, <2>1, Zenon
  <2>2. CASE s # at
    BY <1>6, <2>2, Zenon DEF TypeOK
  <2> QED BY <2>1, <2>2
<1>9. Len(queue'[at]) = Len(queue[at]) - 1
  BY <1>4, <1>5, Zenon
<1> QED BY <1>2, <1>4, <1>5, <1>6, <1>8, <1>9, Zenon

LEMMA TypeStep == ASSUME TypeOK, [Next]_vars PROVE TypeOK'
<1>0. \A h \in Handlers : SensorOf(h) \in Sensors
  BY SensorFacts
<1> USE DEF sensor, handler, logger, history
<1>1. ASSUME NEW h \in Handlers, Expire(h) PROVE TypeOK'
  <2>1. hpc' \in [Handlers -> HandlerPoints]
    BY <1>1, StepTyped, Zenon DEF Expire, HandlerPoints
  <2>2. expiries' \in 0..MaxExpiries
    BY <1>1, PipelineAssumption, SMT DEF Expire, TypeOK, PipelineAssumption
  <2> QED BY <1>1, <2>1, <2>2, Zenon DEF Expire, TypeOK
<1>2. ASSUME NEW h \in Handlers, Read(h) PROVE TypeOK'
  <2>1. hpc' \in [Handlers -> HandlerPoints]
    BY <1>2, StepTyped, Zenon DEF Read, HandlerPoints
  <2> QED BY <1>2, <2>1, Zenon DEF Read, TypeOK
<1>3. ASSUME NEW h \in Handlers, Load(h) PROVE TypeOK'
  <2>1. hpc' \in [Handlers -> HandlerPoints]
    BY <1>3, StepTyped, Zenon DEF Load, HandlerPoints
  <2>2. seen' \in [Handlers -> 0..2]
    BY <1>0, <1>3, Zenon DEF Load, TypeOK
  <2> QED BY <1>3, <2>1, <2>2, Zenon DEF Load, TypeOK
<1>4. ASSUME NEW h \in Handlers, Store(h) PROVE TypeOK'
  <2>1. hpc' \in [Handlers -> HandlerPoints]
    BY <1>4, StepTyped, Zenon DEF Store, HandlerPoints
  <2> DEFINE x == IF seen[h] = 2 THEN 2 ELSE seen[h] + 1
  <2>2. x \in 0..2
    <3>1. seen[h] \in 0..2
      BY Zenon DEF TypeOK
    <3> QED BY <3>1, SMT
  <2>3. error_status' = [error_status EXCEPT ![SensorOf(h)] = x]
    BY <1>4, Zenon DEF Store
  <2> HIDE DEF x
  <2>4. error_status' \in [Sensors -> 0..2]
    BY <2>2, <2>3, Zenon DEF TypeOK
  <2> QED BY <1>4, <2>1, <2>4, Zenon DEF Store, TypeOK
<1>5. ASSUME NEW h \in Handlers, Test(h) PROVE TypeOK'
  <2>1. hpc' \in [Handlers -> HandlerPoints]
    BY <1>5, StepTyped, Zenon DEF Test, First_failure, Later_failure, HandlerPoints
  <2> QED BY <1>5, <2>1, Zenon DEF Test, TypeOK
<1>6. ASSUME NEW h \in Handlers, Led_on(h) \/ Led_off(h) PROVE TypeOK'
  <2>1. hpc' \in [Handlers -> HandlerPoints]
    BY <1>6, StepTyped, Zenon DEF Led_on, Led_off, HandlerPoints
  <2>2. led' \in [Sensors -> 0..1]
    <3>1. 0 \in 0..1 /\ 1 \in 0..1
      BY SMT
    <3> QED BY <1>6, <3>1, Zenon DEF Led_on, Led_off, TypeOK
  <2>3. OutageLevel(SensorOf(h)) \in Levels
    BY DEF OutageLevel, Levels
  <2>4. msg' \in [Handlers -> Levels]
    BY <1>6, <2>3, ComposeTyped, Zenon DEF Led_on, Led_off, TypeOK
  <2> QED BY <1>6, <2>1, <2>2, <2>4, Zenon DEF Led_on, Led_off, TypeOK
<1>7. ASSUME NEW h \in Handlers, Recover(h) \/ Mq_send(h) PROVE TypeOK'
  <2>1. hpc' \in [Handlers -> HandlerPoints]
    BY <1>7, StepTyped, Zenon DEF Recover, Mq_send, HandlerPoints
  <2> QED BY <1>7, <2>1, Zenon DEF Recover, Mq_send, TypeOK
<1>8. ASSUME NEW h \in Handlers, Reset(h) PROVE TypeOK'
  <2>1. hpc' \in [Handlers -> HandlerPoints]
    BY <1>8, StepTyped, Zenon DEF Reset, HandlerPoints
  <2>2. error_status' \in [Sensors -> 0..2]
    <3>1. 0 \in 0..2
      BY SMT
    <3> QED BY <1>8, <3>1, Zenon DEF Reset, TypeOK
  <2>3. msg' \in [Handlers -> Levels]
    BY <1>8, ComposeTyped, Zenon DEF Reset, Levels
  <2> QED BY <1>8, <2>1, <2>2, <2>3, Zenon DEF Reset, TypeOK
<1>9. ASSUME NEW h \in Handlers, Enqueue(h) PROVE TypeOK'
  <2>1. hpc' \in [Handlers -> HandlerPoints]
    BY <1>9, StepTyped, Zenon DEF Enqueue, HandlerPoints
  <2>2. queue' \in [Sensors -> Seq(Levels)] /\ \A s \in Sensors : Len(queue'[s]) <= Capacity
    BY <1>9, EnqueueTyped
  <2>3. last' \in [Sensors -> Levels]
    BY <1>0, <1>9, Zenon DEF Enqueue, TypeOK
  <2> QED BY <1>9, <2>1, <2>2, <2>3, Zenon DEF Enqueue, TypeOK
<1>10. ASSUME NEW h \in Handlers, Set_flag(h) PROVE TypeOK'
  <2>1. hpc' \in [Handlers -> HandlerPoints]
    BY <1>10, StepTyped, Zenon DEF Set_flag, HandlerPoints
  <2>2. flag' \in [Sensors -> BOOLEAN]
    BY <1>10, Zenon DEF Set_flag, TypeOK
  <2> QED BY <1>10, <2>1, <2>2, Zenon DEF Set_flag, TypeOK
<1>11. ASSUME Loop \/ Check PROVE TypeOK'
  <2>1. lpc' \in LoggerPoints /\ at' \in Sensors
    BY <1>11, Zenon DEF Loop, Check, Go_on, LoggerPoints, Sensors, TypeOK
  <2> QED BY <1>11, <2>1, Zenon DEF Loop, Check, TypeOK
<1>12. ASSUME Clear PROVE TypeOK'
  <2>1. flag' \in [Sensors -> BOOLEAN] /\ lpc' \in LoggerPoints
    BY <1>12, Zenon DEF Clear, LoggerPoints, TypeOK
  <2> QED BY <1>12, <2>1, Zenon DEF Clear, TypeOK
<1>13. ASSUME Receive PROVE TypeOK'
  <2>1. lpc' \in LoggerPoints
    BY <1>13, Zenon DEF Receive, LoggerPoints
  <2> QED BY <1>13, <2>1, ReceiveTyped, Zenon DEF Receive, TypeOK
<1>14. ASSUME Log PROVE TypeOK'
  <2>1. lpc' \in LoggerPoints /\ at' \in Sensors
    BY <1>14, Zenon DEF Log, Go_on, LoggerPoints, Sensors, TypeOK
  <2>2. journal' \in [Sensors -> Seq(Levels)]
    <3>1. journal \in [Sensors -> Seq(Levels)] /\ at \in Sensors /\ taken \in Levels
      BY Zenon DEF TypeOK
    <3>2. Append(journal[at], taken) \in Seq(Levels)
      BY <3>1, AppendProperties, Zenon
    <3> QED BY <1>14, <3>1, <3>2, Zenon DEF Log
  <2> QED BY <1>14, <2>1, <2>2, Zenon DEF Log, TypeOK
<1>15. ASSUME NEW s \in Sensors, Disarm(s) \/ Close(s) PROVE TypeOK'
  <2>1. armed' \in [Sensors -> BOOLEAN] /\ open' \in [Sensors -> BOOLEAN]
    BY <1>15, Zenon DEF Disarm, Close, TypeOK
  <2> QED BY <1>15, <2>1, Zenon DEF Disarm, Close, TypeOK
<1>16. CASE Interrupt
  BY <1>16, Zenon DEF Interrupt, TypeOK
<1>17. CASE Restart \/ Abort
  <2>1. Started /\ UNCHANGED <<expiries, queue, led, journal, last>>
    BY <1>17, Zenon DEF Restart, Abort
  <2>2. /\ error_status' \in [Sensors -> 0..2]
        /\ seen' \in [Handlers -> 0..2]
    BY <2>1, SMT DEF Started
  <2>3. /\ hpc' \in [Handlers -> HandlerPoints]
        /\ msg' \in [Handlers -> Levels]
        /\ at' \in Sensors /\ lpc' \in LoggerPoints /\ taken' \in Levels
    BY <2>1, SMT DEF Started, HandlerPoints, Levels, Sensors, LoggerPoints
  <2>4. /\ armed' \in [Sensors -> BOOLEAN] /\ open' \in [Sensors -> BOOLEAN]
        /\ flag' \in [Sensors -> BOOLEAN] /\ exit_flag' \in BOOLEAN /\ life' \in BOOLEAN
    BY <2>1, Zenon DEF Started, TypeOK
  <2> QED BY <2>1, <2>2, <2>3, <2>4, Zenon DEF TypeOK
<1>18. CASE UNCHANGED vars
  BY <1>18, Zenon DEF vars, TypeOK
<1> QED BY <1>1, <1>2, <1>3, <1>4, <1>5, <1>6, <1>7, <1>8, <1>9, <1>10, <1>11, <1>12, <1>13,
           <1>14, <1>15, <1>16, <1>17, <1>18 DEF Next, Handle, Logger

LEMMA InitTyped == Init => TypeOK
<1> SUFFICES ASSUME Init PROVE TypeOK
  OBVIOUS
<1>1. /\ armed \in [Sensors -> BOOLEAN] /\ open \in [Sensors -> BOOLEAN]
      /\ flag \in [Sensors -> BOOLEAN] /\ exit_flag \in BOOLEAN /\ life \in BOOLEAN
  BY Zenon DEF Init
<1>2. /\ queue \in [Sensors -> Seq(Levels)] /\ journal \in [Sensors -> Seq(Levels)]
      /\ \A s \in Sensors : Len(queue[s]) <= Capacity
  <2>1. <<>> \in Seq(Levels) /\ Len(<<>>) = 0
    BY EmptySeq, Zenon
  <2>2. 0 <= Capacity
    BY PipelineAssumption, SMT DEF PipelineAssumption
  <2> QED BY <2>1, <2>2, Zenon DEF Init
<1>3. /\ expiries \in 0..MaxExpiries
      /\ error_status \in [Sensors -> 0..2] /\ led \in [Sensors -> 0..1]
      /\ seen \in [Handlers -> 0..2]
  BY PipelineAssumption, SMT DEF Init, PipelineAssumption
<1>4. /\ hpc \in [Handlers -> HandlerPoints] /\ msg \in [Handlers -> Levels]
      /\ lpc \in LoggerPoints /\ at \in Sensors /\ taken \in Levels
      /\ last \in [Sensors -> Levels]
  BY SMT DEF Init, HandlerPoints, Levels, LoggerPoints, Sensors
<1> QED BY <1>1, <1>2, <1>3, <1>4, Zenon DEF TypeOK

(* The type invariant of LogPipeline: in particular the kernel's bound on the  *)
(* queues (mq_maxmsg, light.c:32 and logger.c:23) and the range of the         *)
(* counters the overlapping handlers share (light.c:88).                       *)
THEOREM TypeCorrect == Spec => []TypeOK
BY InitTyped, TypeStep, PTL DEF Spec
-----------------------------------------------------------------------------
LEMMA SentFacts ==
    ASSUME TypeOK, NEW s \in Sensors
    PROVE  /\ IsFiniteSet(Sent(s)) /\ Cardinality(Sent(s)) \in Nat
           /\ Len(queue[s]) \in Nat
           /\ \A b : One(b) \in {0, 1}
<1>1. IsFiniteSet(Sent(s))
  <2>1. Sent(s) \in SUBSET Handlers /\ IsFiniteSet(Handlers)
    BY PipelineAssumption DEF Sent, PipelineAssumption
  <2> QED BY <2>1, FS_Subset
<1>2. Cardinality(Sent(s)) \in Nat
  BY <1>1, FS_CardinalityType
<1>3. queue[s] \in Seq(Levels)
  BY Zenon DEF TypeOK
<1>4. \A b : One(b) \in {0, 1}
  BY DEF One
<1> QED BY <1>1, <1>2, <1>3, <1>4, LenProperties

(* A handler's step other than the mq_send and the flag backs nothing new.      *)
LEMMA SentKeeps ==
    ASSUME TypeOK, NEW h \in Handlers, NEW from, NEW to, Step(h, from, to),
           from # "flag", to # "flag", NEW s \in Sensors
    PROVE  Sent(s)' = Sent(s)
BY Zenon DEF Step, Sent, TypeOK

(* What backs a flag is not touched when the flag and the logger are not.       *)
LEMMA StillBacked ==
    ASSUME TypeOK, IInv, UNCHANGED <<lpc, at, flag, queue>>,
           \A s \in Sensors : Sent(s)' = Sent(s)
    PROVE  IInv'
BY Zenon DEF IInv, Backed, ClearsSet, Owed

LEMMA IInvStep == ASSUME TypeOK, IInv, [Next]_vars PROVE IInv'
<1> USE DEF sensor, handler, logger, history
<1>1. ASSUME NEW h \in Handlers,
             \/ Expire(h) \/ Read(h) \/ Load(h) \/ Store(h) \/ Test(h) \/ Led_on(h)
             \/ Recover(h) \/ Led_off(h) \/ Reset(h) \/ Mq_send(h)
      PROVE  IInv'
  <2>1. \E from, to \in HandlerPoints \ {"flag"} : Step(h, from, to)
    BY <1>1, Zenon DEF Expire, Read, Load, Store, Test, First_failure, Later_failure, Led_on,
                       Recover, Led_off, Reset, Mq_send, HandlerPoints
  <2>2. \A s \in Sensors : Sent(s)' = Sent(s)
    BY <2>1, SentKeeps
  <2>3. UNCHANGED <<lpc, at, flag, queue>>
    BY <1>1, Zenon DEF Expire, Read, Load, Store, Test, Led_on,
                       Recover, Led_off, Reset, Mq_send
  <2> QED BY <2>2, <2>3, StillBacked
<1>2. ASSUME NEW h \in Handlers, Enqueue(h) PROVE IInv'
  <2>1. UNCHANGED <<lpc, at, flag>>
    BY <1>2, Zenon DEF Enqueue
  <2>2. ASSUME NEW s \in Sensors PROVE Owed(s)' <= Len(queue'[s])
    <3>1. CASE s = SensorOf(h)
      <4>1. Sent(s)' = Sent(s) \cup {h} /\ h \notin Sent(s)
        BY <1>2, <3>1, Zenon DEF Enqueue, Step, Sent, TypeOK
      <4>2. Cardinality(Sent(s)') = Cardinality(Sent(s)) + 1
        BY <4>1, SentFacts, FS_AddElement
      <4>3. Owed(s)' = One(lpc = "receive" /\ at = s) + One(flag[s]) + (Cardinality(Sent(s)) + 1)
        BY <2>1, <4>2, Zenon DEF Owed
      <4>4. Len(queue'[s]) = Len(queue[s]) + 1
        BY <1>2, <3>1, EnqueueTyped
      <4>5. Owed(s) <= Len(queue[s])
        BY DEF IInv, Backed
      <4> QED BY <4>3, <4>4, <4>5, SentFacts, SMT DEF Owed
    <3>2. CASE s # SensorOf(h)
      <4>1. Sent(s)' = Sent(s)
        BY <1>2, <3>2, Zenon DEF Enqueue, Step, Sent, TypeOK
      <4>2. queue'[s] = queue[s]
        BY <1>2, <3>2, EnqueueTyped
      <4> QED BY <2>1, <4>1, <4>2, Zenon DEF Owed, IInv, Backed
    <3> QED BY <3>1, <3>2
  <2> QED BY <2>1, <2>2, Zenon DEF IInv, Backed, ClearsSet
<1>3. ASSUME NEW h \in Handlers, Set_flag(h) PROVE IInv'
  <2>1. UNCHANGED <<lpc, at, queue>> /\ flag' = [flag EXCEPT ![SensorOf(h)] = TRUE]
    BY <1>3, Zenon DEF Set_flag
  <2>2. ASSUME NEW s \in Sensors PROVE Owed(s)' <= Len(queue'[s])
    <3>1. CASE s = SensorOf(h)
      <4>1. Sent(s)' = Sent(s) \ {h} /\ h \in Sent(s)
        BY <1>3, <3>1, Zenon DEF Set_flag, Step, Sent, TypeOK
      <4>2. Cardinality(Sent(s)') = Cardinality(Sent(s)) - 1
        BY <4>1, SentFacts, FS_RemoveElement
      <4>3. One(flag'[s]) <= One(flag[s]) + 1
        BY SMT DEF One
      <4>4. Owed(s)' = One(lpc = "receive" /\ at = s) + One(flag'[s]) + (Cardinality(Sent(s)) - 1)
        BY <2>1, <4>2, Zenon DEF Owed
      <4>5. Owed(s) <= Len(queue[s]) /\ queue'[s] = queue[s]
        BY <2>1 DEF IInv, Backed
      <4> QED BY <4>3, <4>4, <4>5, SentFacts, SMT DEF Owed
    <3>2. CASE s # SensorOf(h)
      <4>1. Sent(s)' = Sent(s)
        BY <1>3, <3>2, Zenon DEF Set_flag, Step, Sent, TypeOK
      <4>2. flag'[s] = flag[s]
        BY <2>1, <3>2, Zenon DEF TypeOK
      <4> QED BY <2>1, <4>1, <4>2, Zenon DEF Owed, IInv, Backed
    <3> QED BY <3>1, <3>2
  <2>3. ClearsSet'
    BY <2>1, Zenon DEF IInv, ClearsSet, TypeOK
  <2> QED BY <2>2, <2>3 DEF IInv, Backed
<1>4. ASSUME Loop \/ Check \/ Log PROVE IInv'
  <2>1. UNCHANGED <<flag, queue, hpc>> /\ lpc # "receive" /\ lpc' # "receive"
    BY <1>4, SMT DEF Loop, Check, Log, Go_on
  <2>2. ClearsSet'
    BY <1>4, <2>1, SMT DEF Loop, Check, Log, Go_on, ClearsSet
  <2>3. ASSUME NEW s \in Sensors PROVE Owed(s)' = Owed(s)
    <3>1. Sent(s)' = Sent(s)
      BY <2>1, Zenon DEF Sent
    <3>2. One(lpc = "receive" /\ at = s)' = One(lpc = "receive" /\ at = s)
      BY <2>1, Zenon DEF One
    <3> QED BY <2>1, <3>1, <3>2, Zenon DEF Owed
  <2> QED BY <2>1, <2>2, <2>3, Zenon DEF IInv, Backed
<1>5. ASSUME Clear PROVE IInv'
  <2>1. /\ lpc = "clear" /\ lpc' = "receive" /\ flag' = [flag EXCEPT ![at] = FALSE]
        /\ UNCHANGED <<at, queue, hpc>>
    BY <1>5, Zenon DEF Clear
  <2>2. flag[at] = TRUE /\ at \in Sensors
    BY <2>1, Zenon DEF IInv, ClearsSet, TypeOK
  <2>3. ASSUME NEW s \in Sensors PROVE Owed(s)' <= Len(queue'[s])
    <3>1. Sent(s)' = Sent(s) /\ queue'[s] = queue[s] /\ Owed(s) <= Len(queue[s])
      BY <2>1, Zenon DEF Sent, IInv, Backed
    <3>2. CASE s = at
      <4>1. flag'[s] = FALSE
        BY <2>1, <2>2, <3>2, Zenon DEF TypeOK
      <4>2. Owed(s)' = 1 + 0 + Cardinality(Sent(s))
        BY <2>1, <3>1, <3>2, <4>1, Zenon DEF Owed, One
      <4>3. Owed(s) = 0 + 1 + Cardinality(Sent(s))
        BY <2>1, <2>2, <3>2, Zenon DEF Owed, One
      <4> QED BY <3>1, <4>2, <4>3, SentFacts, SMT
    <3>3. CASE s # at
      <4>1. flag'[s] = flag[s]
        BY <2>1, <3>3, Zenon DEF TypeOK
      <4>2. Owed(s)' = Owed(s)
        BY <2>1, <3>1, <3>3, <4>1, Zenon DEF Owed, One
      <4> QED BY <3>1, <4>2, Zenon
    <3> QED BY <3>2, <3>3
  <2>4. ClearsSet'
    BY <2>1 DEF ClearsSet
  <2> QED BY <2>3, <2>4 DEF IInv, Backed
<1>6. ASSUME Receive PROVE IInv'
  <2>1. lpc = "receive" /\ lpc' = "log" /\ UNCHANGED <<at, flag, hpc>>
    BY <1>6, Zenon DEF Receive
  <2>2. ASSUME NEW s \in Sensors PROVE Owed(s)' <= Len(queue'[s])
    <3>1. Sent(s)' = Sent(s) /\ Owed(s) <= Len(queue[s])
      BY <2>1, Zenon DEF Sent, IInv, Backed
    <3>2. Owed(s)' = 0 + One(flag[s]) + Cardinality(Sent(s))
      BY <2>1, <3>1, Zenon DEF Owed, One
    <3>3. CASE s = at
      <4>1. Owed(s) = 1 + One(flag[s]) + Cardinality(Sent(s))
        BY <2>1, <3>3, Zenon DEF Owed, One
      <4>2. Len(queue'[s]) = Len(queue[s]) - 1
        BY <1>6, <3>3, ReceiveTyped
      <4> QED BY <3>1, <3>2, <4>1, <4>2, SentFacts, SMT
    <3>4. CASE s # at
      <4>1. Owed(s) = 0 + One(flag[s]) + Cardinality(Sent(s))
        BY <3>4, Zenon DEF Owed, One
      <4>2. queue'[s] = queue[s]
        BY <1>6, <3>4, ReceiveTyped
      <4> QED BY <3>1, <3>2, <4>1, <4>2, Zenon
    <3> QED BY <3>3, <3>4
  <2>3. ClearsSet'
    BY <2>1 DEF ClearsSet
  <2> QED BY <2>2, <2>3 DEF IInv, Backed
<1>7. CASE Restart \/ Abort
  <2>1. Started /\ queue' = queue
    BY <1>7, Zenon DEF Restart, Abort
  <2>2. lpc' = "loop" /\ (\A s \in Sensors : flag'[s] = FALSE) /\ \A h \in Handlers : hpc'[h] = "off"
    BY <2>1, Zenon DEF Started
  <2>3. ASSUME NEW s \in Sensors PROVE Owed(s)' <= Len(queue'[s])
    <3>1. Sent(s)' = {}
      BY <2>2, Zenon DEF Sent
    <3>2. Owed(s)' = 0 + 0 + 0
      BY <2>2, <3>1, FS_EmptySet, Zenon DEF Owed, One
    <3> QED BY <2>1, <3>2, SentFacts, SMT
  <2> QED BY <2>2, <2>3 DEF IInv, Backed, ClearsSet
<1>8. ASSUME \/ \E s \in Sensors : Disarm(s) \/ Close(s)
             \/ Interrupt \/ UNCHANGED vars
      PROVE  IInv'
  <2>1. UNCHANGED <<lpc, at, flag, queue, hpc>>
    BY <1>8, Zenon DEF Disarm, Close, Interrupt, vars
  <2>2. \A s \in Sensors : Sent(s)' = Sent(s)
    BY <2>1, Zenon DEF Sent
  <2> QED BY <2>1, <2>2, StillBacked
<1> QED BY <1>1, <1>2, <1>3, <1>4, <1>5, <1>6, <1>7, <1>8 DEF Next, Handle, Logger

(* A flag the logger found set (logger.c:52 and :62) always stands for a record *)
(* still in the queue when it comes to mq_receive, with any number of handlers  *)
(* overlapping and through any number of restarts.                              *)
THEOREM LoggerNeverWaits == Spec => []ReceiveNeverBlocks
<1>1. Init => IInv
  <2> SUFFICES ASSUME Init PROVE IInv
    OBVIOUS
  <2>1. ASSUME NEW s \in Sensors PROVE Owed(s) <= Len(queue[s])
    <3>1. Sent(s) = {}
      BY Zenon DEF Init, Sent
    <3>2. Owed(s) = 0 + 0 + 0
      BY <2>1, <3>1, FS_EmptySet, Zenon DEF Init, Owed, One
    <3> QED BY <3>2, InitTyped, SentFacts, SMT
  <2> QED BY <2>1 DEF Init, IInv, Backed, ClearsSet
<1>2. TypeOK /\ IInv => ReceiveNeverBlocks
  <2> SUFFICES ASSUME TypeOK, IInv, lpc = "receive" PROVE queue[at] # <<>>
    BY DEF ReceiveNeverBlocks
  <2>1. at \in Sensors
    BY Zenon DEF TypeOK
  <2>2. Owed(at) <= Len(queue[at])
    BY <2>1 DEF IInv, Backed
  <2>3. Owed(at) = 1 + One(flag[at]) + Cardinality(Sent(at))
    BY Zenon DEF Owed, One
  <2>4. Len(queue[at]) # 0
    BY <2>1, <2>2, <2>3, SentFacts, SMT
  <2>5. Len(<<>>) = 0
    BY EmptySeq, Zenon
  <2> QED BY <2>4, <2>5
<1> QED BY <1>1, <1>2, InitTyped, TypeStep, IInvStep, PTL DEF Spec
-----------------------------------------------------------------------------
(* LogPipeline implements LogChannel *)

LEMMA ChannelStep ==
    ASSUME TypeOK, [Next]_vars PROVE [Channel!Next]_(Channel!vars)
<1> DEFINE held == IF lpc = "log" THEN <<at, taken>> ELSE <<>>
<1> USE DEF Channel!Next, Channel!vars
<1>1. ASSUME NEW h \in Handlers, Enqueue(h) PROVE Channel!Next
  <2>1. SensorOf(h) \in Sensors /\ msg[h] \in Levels
    BY SensorFacts, Zenon DEF TypeOK
  <2>2. UNCHANGED <<life, held, journal>>
    BY <1>1, Zenon DEF Enqueue, logger
  <2>3. Channel!Put(SensorOf(h), msg[h])
    BY <1>1, <2>2, Zenon DEF Channel!Put, Enqueue
  <2> QED BY <2>1, <2>3, Zenon
<1>2. CASE Receive
  <2>1. at \in Sensors
    BY Zenon DEF TypeOK
  <2>2. held = <<>> /\ held' = <<at, Head(queue[at])>>
    BY <1>2, Zenon DEF Receive
  <2>3. UNCHANGED <<life, journal>> /\ queue[at] # <<>> /\ queue' = [queue EXCEPT ![at] = Tail(@)]
    BY <1>2, Zenon DEF Receive, history
  <2>4. Channel!Take(at)
    BY <2>2, <2>3, Zenon DEF Channel!Take
  <2> QED BY <2>1, <2>4, Zenon
<1>3. CASE Log
  <2>1. held = <<at, taken>> /\ held' = <<>>
    BY <1>3, Zenon DEF Log, Go_on
  <2>2. held # <<>> /\ held[1] = at /\ held[2] = taken
    BY <2>1
  <2>3. UNCHANGED <<life, queue>> /\ journal' = [journal EXCEPT ![at] = Append(@, taken)]
    BY <1>3, Zenon DEF Log, history
  <2>4. Channel!Record
    BY <2>1, <2>2, <2>3, Zenon DEF Channel!Record
  <2> QED BY <2>4
<1>4. CASE Restart \/ Abort
  <2>1. life' = ~life /\ held' = <<>> /\ UNCHANGED <<queue, journal>>
    BY <1>4, Zenon DEF Restart, Abort, Started
  <2>2. Channel!Die
    BY <2>1, Zenon DEF Channel!Die
  <2> QED BY <2>2
<1>5. ASSUME \/ \E h \in Handlers :
                  \/ Expire(h) \/ Read(h) \/ Load(h) \/ Store(h) \/ Test(h) \/ Led_on(h)
                  \/ Recover(h) \/ Led_off(h) \/ Reset(h) \/ Mq_send(h) \/ Set_flag(h)
             \/ Loop \/ Check \/ Clear
             \/ \E s \in Sensors : Disarm(s) \/ Close(s)
             \/ Interrupt \/ UNCHANGED vars
      PROVE  UNCHANGED Channel!vars
  <2>1. UNCHANGED <<queue, journal, life>>
    BY <1>5, Zenon
    DEF Expire, Read, Load, Store, Test, Led_on, Recover, Led_off, Reset, Mq_send, Set_flag,
        Loop, Check, Clear, Disarm, Close, Interrupt, vars, logger, history
  <2>2. UNCHANGED <<lpc, at, taken>> \/ (lpc # "log" /\ lpc' # "log")
    BY <1>5, Zenon
    DEF Expire, Read, Load, Store, Test, Led_on, Recover, Led_off, Reset, Mq_send, Set_flag,
        Loop, Check, Clear, Go_on, Disarm, Close, Interrupt, vars, logger
  <2>3. UNCHANGED held
    BY <2>2, Zenon
  <2> QED BY <2>1, <2>3, Zenon
<1> QED BY <1>1, <1>2, <1>3, <1>4, <1>5, Zenon DEF Next, Handle, Logger

(* The records of a sensor reach the log file once each and in the order in    *)
(* which its handlers handed them over, and at most Capacity of them wait.     *)
(* What the logger has taken (logger.c:58-69) it writes before it takes        *)
(* another; only the death of the process loses it, and loses nothing else.    *)
THEOREM ImplementsChannel == Spec => Channel_Spec
<1>1. Init => Channel!Init
  BY Zenon DEF Init, Channel!Init
<1>2. TypeOK /\ [Next]_vars => [Channel!Next]_(Channel!vars)
  BY ChannelStep
<1> QED BY <1>1, <1>2, InitTyped, TypeStep, PTL DEF Spec, Channel_Spec, Channel!Spec
=============================================================================
