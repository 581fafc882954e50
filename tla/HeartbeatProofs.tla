-------------------------- MODULE HeartbeatProofs --------------------------
(***************************************************************************)
(* For every choice of periods, latency and timeout that fits into a       *)
(* round: the type invariant of Heartbeat, and that a thread is declared   *)
(* stuck only if it or one waited for before it was silent.                *)
(*                                                                         *)
(* BlamedInOrder is not inductive: it says nothing of the time left.  What *)
(* is inductive is Room: as long as no thread up to the one waited for was *)
(* silent in this round, the next beat of that thread that main can notice *)
(* comes Slack(n) before the deadline.                                     *)
(***************************************************************************)
EXTENDS Heartbeat, TLAPS

(* What the deadline leaves after the next beat of the thread waited for. *)
Slack(k) ==
    CASE k = 1 -> Timeout - Period["temperature"]
      [] k = 2 -> Timeout - Period["temperature"] - Period["light"] - Latency
      [] k = 3 -> Timeout - Period["temperature"] - Period["light"]
                    - Period["logger"] - 2 * Latency

(* A thread that is silent was silent in this round. *)
SilentIsFaulty ==
    pc \in {"lock", "wait"} => \A x \in Threads : silent[x] => x \in faulty

(* The next beat main can notice: while it is about to wait, a whole period may *)
(* pass until then, since the broadcast due now may come too early.            *)
NextBeat == IF pc = "lock" THEN Period[WaitedFor(n)] ELSE due[WaitedFor(n)]

AllBeating == valid /\ ~exit_flag /\ \A i \in 1..n : WaitedFor(i) \notin faulty

Room == pc \in {"lock", "wait"} /\ AllBeating => left >= NextBeat + Slack(n)

AlarmExits == alarm # "none" => exit_flag /\ pc \notin {"lock", "wait", "loop"}

IInv == SilentIsFaulty /\ Room /\ AlarmExits /\ BlamedInOrder

-----------------------------------------------------------------------------
(* The type invariant of Heartbeat: in particular the countdowns stay within   *)
(* the latency and the period of their thread (timer_settime in light_function *)
(* and temperature_function).                                                  *)
THEOREM TypeCorrect == Spec => []TypeOK
<1>1. Init => TypeOK
  <2> SUFFICES ASSUME Init PROVE TypeOK
    OBVIOUS
  <2>1. due \in [Threads -> Int] /\ \A x \in Threads : due[x] \in -Latency..Period[x]
    BY TimingAssumption, SMT DEF TimingAssumption, Init
  <2>2. silent \in [Threads -> BOOLEAN] /\ valid \in BOOLEAN /\ exit_flag \in BOOLEAN
    BY Zenon DEF Init
  <2> QED BY <2>1, <2>2, TimingAssumption, SMT DEF TimingAssumption, Init, TypeOK
<1>2. TypeOK /\ [Next]_vars => TypeOK'
  <2> SUFFICES ASSUME TypeOK, [Next]_vars PROVE TypeOK'
    OBVIOUS
  <2> USE TimingAssumption DEF TimingAssumption, TypeOK, Threads
  <2>1. CASE Loop
    <3>1. { x \in Threads : silent[x] } \in SUBSET Threads
      OBVIOUS
    <3>2. left' \in -1..Timeout
      BY <2>1, SMT DEF Loop, Timer_setup
    <3>4. n' \in 1..3 /\ pc' \in {"lock", "join"}
      BY <2>1, SMT DEF Loop
    <3>5. faulty' \in SUBSET Threads
      BY <2>1, <3>1, Zenon DEF Loop
    <3>3. valid' \in BOOLEAN
      BY <2>1, SMT DEF Loop, Timer_setup
    <3> QED BY <2>1, <3>2, <3>3, <3>4, <3>5, SMT DEF Loop
  <2>2. CASE Lock
    BY <2>2, SMT DEF Lock
  <2>3. CASE Wait_fails
    <3>1. WaitedFor(n) \in Threads
      BY SMT DEF WaitedFor
    <3>2. pc' \in {"lock", "loop", "join"} /\ n' \in 1..3
      BY <2>3, SMT DEF Wait_fails, Go_on
    <3>3. exit_flag' \in BOOLEAN
      BY <2>3, Zenon DEF Wait_fails
    <3>4. alarm' \in Threads \cup {"none"}
      BY <2>3, <3>1, SMT DEF Wait_fails
    <3> QED BY <2>3, <3>2, <3>3, <3>4, SMT DEF Wait_fails
  <2>4. CASE Join
    BY <2>4, SMT DEF Join
  <2>5. CASE Wakes_up
    BY <2>5, SMT DEF Wakes_up, Go_on
  <2>6. CASE Interrupt
    BY <2>6, SMT DEF Interrupt
  <2>7. CASE Tick
    BY <2>7, SMT DEF Tick, Down
  <2>8. ASSUME NEW x \in Threads, Beat(x) PROVE TypeOK'
    <3>1. due' \in [Threads -> Int] /\ \A y \in Threads : due'[y] \in -Latency..Period[y]
      BY <2>8, SMT DEF Beat
    <3>2. pc' \in {"loop", "lock", "wait", "join", "exited"} /\ n' \in 1..3
      BY <2>8, SMT DEF Beat, Go_on
    <3> QED BY <2>8, <3>1, <3>2, SMT DEF Beat
  <2>9. ASSUME NEW x \in Threads, Hang(x) PROVE TypeOK'
    BY <2>9, SMT DEF Hang
  <2>10. ASSUME NEW x \in Threads, Resume(x) PROVE TypeOK'
    BY <2>10, SMT DEF Resume
  <2>11. CASE UNCHANGED vars
    BY <2>11, SMT DEF vars
  <2> QED BY <2>1, <2>2, <2>3, <2>4, <2>5, <2>6, <2>7, <2>8, <2>9, <2>10, <2>11 DEF Next, Main
<1> QED BY <1>1, <1>2, PTL DEF Spec
-----------------------------------------------------------------------------
(* Each wait's slack is at least the latency of one handler, and the next wait *)
(* takes its thread's period and one latency of it.                            *)
LEMMA SlackFits ==
    /\ \A k \in 1..3 : /\ WaitedFor(k) \in Threads
                       /\ Slack(k) \in Int
                       /\ Slack(k) >= Latency
    /\ \A k \in 1..2 : Slack(k + 1) = Slack(k) - Latency - Period[WaitedFor(k + 1)]
    /\ Slack(1) = Timeout - Period[WaitedFor(1)]
<1> USE TimingAssumption DEF TimingAssumption, Threads, Slack, WaitedFor
<1>1. \A k \in 1..3 : WaitedFor(k) \in Threads /\ Slack(k) \in Int /\ Slack(k) >= Latency
  <2> SUFFICES ASSUME NEW k \in 1..3
               PROVE WaitedFor(k) \in Threads /\ Slack(k) \in Int /\ Slack(k) >= Latency
    OBVIOUS
  <2>1. k = 1 \/ k = 2 \/ k = 3
    BY SMT
  <2> QED BY <2>1, SMT
<1>2. \A k \in 1..2 : Slack(k + 1) = Slack(k) - Latency - Period[WaitedFor(k + 1)]
  <2> SUFFICES ASSUME NEW k \in 1..2
               PROVE Slack(k + 1) = Slack(k) - Latency - Period[WaitedFor(k + 1)]
    OBVIOUS
  <2>1. k = 1 \/ k = 2
    BY SMT
  <2> QED BY <2>1, SMT
<1>3. Slack(1) = Timeout - Period[WaitedFor(1)]
  BY SMT
<1> QED BY <1>1, <1>2, <1>3

(* A wait that returns in time leaves Room for the next one. *)
LEMMA NextWaitFits ==
    ASSUME TypeOK, Room, pc = "wait", Go_on,
           UNCHANGED <<left, faulty, exit_flag, valid>>
    PROVE  Room'
<1> SUFFICES ASSUME pc' \in {"lock", "wait"}, AllBeating'
             PROVE  left' >= NextBeat' + Slack(n')
  BY DEF Room, Slack
<1>1. n \in 1..2 /\ n' = n + 1 /\ pc' = "lock"
  BY SMT DEF Go_on, TypeOK
<1>2. left >= due[WaitedFor(n)] + Slack(n)
  <2>1. AllBeating
    BY <1>1, SMT DEF AllBeating
  <2> QED BY <2>1 DEF Room, NextBeat
<1>3. due[WaitedFor(n)] \in Int /\ due[WaitedFor(n)] >= -Latency
  BY <1>1, SlackFits, TimingAssumption, SMT DEF TypeOK, TimingAssumption
<1>4. NextBeat' = Period[WaitedFor(n + 1)]
  BY <1>1 DEF NextBeat
<1>5. Slack(n + 1) = Slack(n) - Latency - Period[WaitedFor(n + 1)]
  BY <1>1, SlackFits
<1>6. Slack(n) \in Int /\ Period[WaitedFor(n + 1)] \in Nat /\ Latency \in Nat /\ left \in Int
  BY <1>1, SlackFits, TimingAssumption, SMT DEF TypeOK, TimingAssumption
<1> QED BY <1>1, <1>2, <1>3, <1>4, <1>5, <1>6, SMT

LEMMA IInvInductive == ASSUME TypeOK, TypeOK', IInv, [Next]_vars PROVE IInv'
<1> USE DEF IInv
<1>1. CASE Loop
  <2>1. SilentIsFaulty'
    BY <1>1 DEF Loop, SilentIsFaulty, TypeOK
  <2>2. Room'
    <3> SUFFICES ASSUME pc' \in {"lock", "wait"}
                 PROVE  left' >= NextBeat' + Slack(n')
      BY DEF Room, Slack
    <3>1. n' = 1 /\ left' = Timeout /\ pc' = "lock"
      BY <1>1, SMT DEF Loop, Timer_setup
    <3>2. NextBeat' = Period[WaitedFor(1)]
      BY <3>1 DEF NextBeat
    <3>3. Period[WaitedFor(1)] \in Nat /\ Timeout \in Nat
      BY SlackFits, TimingAssumption, SMT DEF TimingAssumption
    <3> QED BY <3>1, <3>2, <3>3, SlackFits, SMT
  <2>3. AlarmExits' /\ BlamedInOrder'
    BY <1>1, Zenon DEF Loop, AlarmExits, BlamedInOrder
  <2> QED BY <2>1, <2>2, <2>3
<1>2. CASE Lock
  <2>1. SilentIsFaulty' /\ AlarmExits' /\ BlamedInOrder'
    BY <1>2, Zenon DEF Lock, SilentIsFaulty, AlarmExits, BlamedInOrder
  <2>2. Room'
    <3> SUFFICES ASSUME AllBeating' PROVE left' >= NextBeat' + Slack(n')
      BY DEF Room, Slack
    <3>1. pc = "lock" /\ pc' = "wait" /\ UNCHANGED <<n, left, due, valid, exit_flag, faulty>>
      BY <1>2 DEF Lock
    <3>2. left >= Period[WaitedFor(n)] + Slack(n)
      BY <3>1 DEF Room, AllBeating, NextBeat
    <3>3. NextBeat' = due[WaitedFor(n)]
      BY <3>1 DEF NextBeat
    <3>4. /\ due[WaitedFor(n)] \in Int /\ due[WaitedFor(n)] <= Period[WaitedFor(n)]
          /\ Period[WaitedFor(n)] \in Nat /\ Slack(n) \in Int /\ left \in Int
      BY SlackFits, TimingAssumption, SMT DEF TypeOK, TimingAssumption
    <3> QED BY <3>1, <3>2, <3>3, <3>4, SMT
  <2> QED BY <2>1, <2>2
<1>3. CASE Wait_fails
  <2>1. CASE exit_flag
    <3>1. pc' \in {"lock", "loop"} /\ exit_flag'
      BY <1>3, <2>1, Zenon DEF Wait_fails, Go_on
    <3>2. SilentIsFaulty' /\ Room'
      BY <1>3, <2>1, <3>1, Zenon DEF Wait_fails, SilentIsFaulty, Room, AllBeating
    <3>3. alarm = "none"
      BY <1>3, SMT DEF Wait_fails, AlarmExits
    <3>4. AlarmExits' /\ BlamedInOrder'
      BY <1>3, <2>1, <3>3, Zenon DEF Wait_fails, AlarmExits, BlamedInOrder
    <3> QED BY <3>2, <3>4
  <2>2. CASE ~exit_flag
    <3>1. exit_flag' /\ pc' = "join" /\ alarm' = WaitedFor(n) /\ valid' = valid /\ faulty' = faulty
      BY <1>3, <2>2, Zenon DEF Wait_fails
    <3>2. SilentIsFaulty' /\ Room' /\ AlarmExits'
      BY <3>1, SMT DEF SilentIsFaulty, Room, AllBeating, AlarmExits
    <3>3. ASSUME valid PROVE \E i \in 1..n : WaitedFor(i) \in faulty
      <4>1. left < 0 /\ pc = "wait"
        BY <1>3, <3>3 DEF Wait_fails
      <4> SUFFICES ASSUME \A i \in 1..n : WaitedFor(i) \notin faulty PROVE FALSE
        OBVIOUS
      <4>2. left >= due[WaitedFor(n)] + Slack(n)
        BY <2>2, <3>3, <4>1 DEF Room, AllBeating, NextBeat
      <4>3. due[WaitedFor(n)] \in Int /\ due[WaitedFor(n)] >= -Latency
        BY SlackFits, TimingAssumption, SMT DEF TypeOK, TimingAssumption
      <4>4. Slack(n) \in Int /\ Slack(n) >= Latency /\ Latency \in Nat /\ left \in Int
        BY SlackFits, TimingAssumption, SMT DEF TypeOK, TimingAssumption
      <4> QED BY <4>1, <4>2, <4>3, <4>4, SMT
    <3>4. BlamedInOrder'
      <4> SUFFICES ASSUME valid
                   PROVE \E i, j \in 1..3 : i <= j /\ WaitedFor(i) \in faulty' /\ WaitedFor(j) = alarm'
        BY <3>1 DEF BlamedInOrder, WaitedFor
      <4>1. PICK i \in 1..n : WaitedFor(i) \in faulty
        BY <3>3
      <4>2. n \in 1..3 /\ i \in 1..3 /\ i <= n
        BY <4>1, SMT DEF TypeOK
      <4> QED BY <3>1, <4>1, <4>2
    <3> QED BY <3>2, <3>4
  <2> QED BY <2>1, <2>2
<1>4. CASE Join
  BY <1>4, SMT DEF Join, SilentIsFaulty, Room, AllBeating, NextBeat, AlarmExits, BlamedInOrder
<1>5. CASE Wakes_up
  <2>1. Room'
    BY <1>5, NextWaitFits DEF Wakes_up
  <2>2. pc = "wait" /\ UNCHANGED <<silent, faulty, alarm, exit_flag, valid>>
    BY <1>5 DEF Wakes_up
  <2>3. SilentIsFaulty'
    BY <2>2, Zenon DEF SilentIsFaulty
  <2>4. AlarmExits' /\ BlamedInOrder'
    BY <2>2, SMT DEF AlarmExits, BlamedInOrder
  <2> QED BY <2>1, <2>3, <2>4
<1>6. CASE Interrupt
  BY <1>6, SMT DEF Interrupt, SilentIsFaulty, Room, AllBeating, NextBeat, AlarmExits, BlamedInOrder
<1>7. CASE Tick
  <2>1. SilentIsFaulty' /\ AlarmExits' /\ BlamedInOrder'
    BY <1>7, Zenon DEF Tick, SilentIsFaulty, AlarmExits, BlamedInOrder, WaitedFor
  <2>2. Room'
    <3> SUFFICES ASSUME pc' \in {"lock", "wait"}, AllBeating'
                 PROVE  left' >= NextBeat' + Slack(n')
      BY DEF Room, Slack
    <3>1. pc = "wait" /\ pc' = "wait" /\ n' = n /\ AllBeating
      BY <1>7, Zenon DEF Tick, AllBeating
    <3>2. left >= due[WaitedFor(n)] + Slack(n) /\ NextBeat' = due'[WaitedFor(n)]
      BY <3>1 DEF Room, NextBeat
    <3>3. WaitedFor(n) \in Threads /\ ~silent[WaitedFor(n)]
      <4>1. WaitedFor(n) \in Threads /\ n \in 1..n
        BY SlackFits, SMT DEF TypeOK
      <4> QED BY <3>1, <4>1 DEF SilentIsFaulty, AllBeating
    <3>4. due[WaitedFor(n)] > -Latency /\ due'[WaitedFor(n)] = due[WaitedFor(n)] - 1
      BY <1>7, <3>1, <3>3, SMT DEF Tick, Down, AllBeating
    <3>5. left' = left - 1 \/ left' = left
      BY <1>7, SMT DEF Tick, Down
    <3>6. due[WaitedFor(n)] \in Int /\ Slack(n) \in Int /\ left \in Int /\ left >= -1
      BY <3>3, SlackFits, SMT DEF TypeOK
    <3> QED BY <3>1, <3>2, <3>4, <3>5, <3>6, SMT
  <2> QED BY <2>1, <2>2
<1>8. ASSUME NEW x \in Threads, Beat(x) PROVE IInv'
  <2>1. CASE pc = "wait" /\ WaitedFor(n) = x /\ valid
    <3>1. Go_on /\ UNCHANGED <<exit_flag, left, valid, silent, alarm, faulty>>
      BY <1>8, <2>1 DEF Beat
    <3>2. Room'
      BY <2>1, <3>1, NextWaitFits
    <3>3. SilentIsFaulty'
      BY <2>1, <3>1, Zenon DEF SilentIsFaulty
    <3>4. AlarmExits' /\ BlamedInOrder'
      BY <2>1, <3>1, SMT DEF AlarmExits, BlamedInOrder
    <3> QED BY <3>2, <3>3, <3>4
  <2>2. CASE ~(pc = "wait" /\ WaitedFor(n) = x /\ valid)
    <3>1. UNCHANGED <<pc, n, exit_flag, left, valid, silent, alarm, faulty>>
      BY <1>8, <2>2 DEF Beat
    <3>2. SilentIsFaulty' /\ AlarmExits' /\ BlamedInOrder'
      BY <3>1, Zenon DEF SilentIsFaulty, AlarmExits, BlamedInOrder
    <3>3. Room'
      <4> SUFFICES ASSUME pc \in {"lock", "wait"}, AllBeating
                   PROVE  NextBeat' = NextBeat
        BY <3>1, Zenon DEF Room, AllBeating, Slack
      <4>1. CASE pc = "lock"
        BY <3>1, <4>1, Zenon DEF NextBeat
      <4>2. CASE pc = "wait"
        <5>1. WaitedFor(n) # x
          BY <2>2, <4>2 DEF AllBeating
        <5>2. WaitedFor(n) \in Threads /\ due'[WaitedFor(n)] = due[WaitedFor(n)]
          BY <1>8, <5>1, SlackFits, SMT DEF Beat, TypeOK
        <5> QED BY <3>1, <4>2, <5>2 DEF NextBeat
      <4> QED BY <4>1, <4>2
    <3> QED BY <3>2, <3>3
  <2> QED BY <2>1, <2>2
<1>9. ASSUME NEW x \in Threads, Hang(x) PROVE IInv'
  BY <1>9, SMT DEF Hang, TypeOK, SilentIsFaulty, Room, AllBeating, NextBeat, AlarmExits, BlamedInOrder
<1>10. ASSUME NEW x \in Threads, Resume(x) PROVE IInv'
  BY <1>10, SMT DEF Resume, TypeOK, SilentIsFaulty, Room, AllBeating, NextBeat, AlarmExits, BlamedInOrder
<1>11. CASE UNCHANGED vars
  BY <1>11, SMT DEF vars, SilentIsFaulty, Room, AllBeating, NextBeat, AlarmExits, BlamedInOrder
<1> QED BY <1>1, <1>2, <1>3, <1>4, <1>5, <1>6, <1>7, <1>8, <1>9, <1>10, <1>11 DEF Next, Main

(* main blames a thread (main.c:136, :153, :168) only for its own silence or   *)
(* that of a thread waited for before it in the same round, whatever the       *)
(* periods, as long as they fit into the timeout.                              *)
THEOREM AlarmsBlameInOrder == Spec => []BlamedInOrder
<1>1. Init => IInv
  BY SMT DEF Init, IInv, SilentIsFaulty, Room, AlarmExits, BlamedInOrder
<1>2. IInv => BlamedInOrder
  BY DEF IInv
<1> QED BY <1>1, <1>2, TypeCorrect, IInvInductive, PTL DEF Spec
=============================================================================
