----------------------------- MODULE Heartbeat -----------------------------
(***************************************************************************)
(* main's heartbeat loop (Project 1).  Each round computes one absolute    *)
(* deadline with timer_setup and then waits, under that same deadline, for *)
(* a broadcast of the temperature handler, of the light handler and of the *)
(* logger.  A wait that does not return 0 before the exit flag is set ends *)
(* the program: the thread waited for is logged as stuck.                  *)
(*                                                                         *)
(* Time is discrete and kept as countdowns, so that no clock grows: left   *)
(* is the time to the deadline, due[x] the time to the next beat of x.     *)
(***************************************************************************)
EXTENDS Integers

CONSTANTS
    Period,         \* [Threads -> Nat]: timer periods; for the logger, the
                    \* longest its loop takes from one broadcast to the next
    Latency,        \* the longest a handler starts after its timer expires
    Timeout,        \* timer_setup's argument: the deadline of a round
    MaxSpurious     \* bound: wakeups of a wait without a broadcast

Threads == {"temperature", "light", "logger"}

(* 1 s, 2 s and the logger's loop fit into the 4 s of a round. *)
ASSUME TimingAssumption ==
    /\ Period \in [Threads -> Nat]
    /\ Latency \in Nat
    /\ Timeout \in Nat
    /\ MaxSpurious \in Nat
    /\ Period["temperature"] + Period["light"] + Period["logger"] + 3 * Latency <= Timeout

(* The waits of a round, in program order. *)
WaitedFor(n) == CASE n = 1 -> "temperature" [] n = 2 -> "light" [] n = 3 -> "logger"

VARIABLES
    exit_flag,
    pc, n,      \* main's control point and the wait of the round it is at
    left,       \* time to the deadline, -1 once it is past
    valid,      \* tv_nsec of the deadline is below 1000000000
    due,        \* per thread, time to its next beat
    silent,     \* per thread, it does not beat: it hangs, or its timer is lost
    alarm,      \* the thread logged as stuck
    spurious,   \* bound counter
    faulty      \* history: threads that were silent at some time of this round

vars == <<exit_flag, pc, n, left, valid, due, silent, alarm, spurious, faulty>>

TypeOK ==
    /\ exit_flag \in BOOLEAN
    /\ pc \in {"loop", "lock", "wait", "join", "exited"}
    /\ n \in 1..3
    /\ left \in -1..Timeout
    /\ valid \in BOOLEAN
    /\ due \in [Threads -> Int]
    /\ \A x \in Threads : due[x] \in -Latency..Period[x]
    /\ silent \in [Threads -> BOOLEAN]
    /\ alarm \in Threads \cup {"none"}
    /\ spurious \in 0..MaxSpurious
    /\ faulty \in SUBSET Threads

Init ==
    /\ exit_flag = FALSE
    /\ pc = "loop"
    /\ n = 1
    /\ left = Timeout
    /\ valid = TRUE
    /\ due = Period
    /\ silent = [x \in Threads |-> FALSE]
    /\ alarm = "none"
    /\ spurious = 0
    /\ faulty = {}
-----------------------------------------------------------------------------
(* main *)

(* Mutated: half of the seconds asked for. *)
Timer_setup_short ==
    /\ left' = Timeout \div 2
    /\ valid' \in BOOLEAN

(* timer_setup adds 4 ms to tv_usec * 1000 and carries nothing into tv_sec: in *)
(* the last 4 ms of a second the deadline is not a valid timespec.             *)
Timer_setup ==
    /\ left' = Timeout
    /\ valid' \in BOOLEAN

(* Mutated: while (1). *)
Loop_forever ==
    /\ pc = "loop"
    /\ Timer_setup
    /\ pc' = "lock"
    /\ n' = 1
    /\ faulty' = { x \in Threads : silent[x] }
    /\ UNCHANGED <<exit_flag, due, silent, alarm, spurious>>

(* while (exit_flag != 1), the LED, timer_setup. *)
Loop ==
    /\ pc = "loop"
    /\ IF exit_flag
       THEN /\ pc' = "join"
            /\ UNCHANGED <<n, left, valid, faulty>>
       ELSE /\ Timer_setup
            /\ pc' = "lock"
            /\ n' = 1
            /\ faulty' = { x \in Threads : silent[x] }
    /\ UNCHANGED <<exit_flag, due, silent, alarm, spurious>>

(* pthread_mutex_lock(&heartbeat_mutex) and the start of the timed wait. *)
Lock ==
    /\ pc = "lock"
    /\ pc' = "wait"
    /\ UNCHANGED <<exit_flag, n, left, valid, due, silent, alarm, spurious, faulty>>

(* Mutated: a fourth wait. *)
Go_on_past_end == IF n <= 3 THEN pc' = "lock" /\ n' = n + 1
                            ELSE pc' = "loop" /\ UNCHANGED n

(* The wait returned 0, or the flag was set meanwhile: on to the next wait. *)
Go_on == IF n < 3 THEN pc' = "lock" /\ n' = n + 1
                  ELSE pc' = "loop" /\ UNCHANGED n

(* Mutated: the return value of the wait is not looked at. *)
Wait_fails_unnoticed ==
    /\ pc = "wait"
    /\ left < 0 \/ ~valid
    /\ Go_on
    /\ UNCHANGED <<exit_flag, alarm, left, valid, due, silent, spurious, faulty>>

(* The wait returned ETIMEDOUT, or EINVAL at once for an invalid deadline. *)
Wait_fails ==
    /\ pc = "wait"
    /\ left < 0 \/ ~valid
    /\ IF exit_flag
       THEN /\ Go_on
            /\ UNCHANGED <<exit_flag, alarm>>
       ELSE /\ exit_flag' = TRUE
            /\ alarm' = WaitedFor(n)
            /\ pc' = "join"
            /\ UNCHANGED n
    /\ UNCHANGED <<left, valid, due, silent, spurious, faulty>>

(* POSIX lets a wait return 0 without a broadcast; main does not look further. *)
Wakes_up ==
    /\ pc = "wait"
    /\ valid
    /\ spurious < MaxSpurious
    /\ spurious' = spurious + 1
    /\ Go_on
    /\ UNCHANGED <<exit_flag, left, valid, due, silent, alarm, faulty>>

(* pthread_join of the three threads.  The threads of the two sensors only spin *)
(* on exit_flag; the logger has to come round its loop.                         *)
Join ==
    /\ pc = "join"
    /\ ~silent["logger"]
    /\ pc' = "exited"
    /\ UNCHANGED <<exit_flag, n, left, valid, due, silent, alarm, spurious, faulty>>

(* intHandler on SIGINT *)
Interrupt ==
    /\ pc # "exited"
    /\ ~exit_flag
    /\ exit_flag' = TRUE
    /\ UNCHANGED <<pc, n, left, valid, due, silent, alarm, spurious, faulty>>
-----------------------------------------------------------------------------
(* The threads watched, and time *)

(* The broadcast at the top of a handler or of the logger's loop wakes main if  *)
(* it waits for that thread, and is lost otherwise.                             *)
Beat(x) ==
    /\ pc # "exited"
    /\ ~silent[x]
    /\ x = "logger" \/ due[x] <= 0
    /\ due' = [due EXCEPT ![x] = IF x = "logger" THEN Period[x] ELSE @ + Period[x]]
    /\ IF pc = "wait" /\ WaitedFor(n) = x /\ valid
       THEN Go_on
       ELSE UNCHANGED <<pc, n>>
    /\ UNCHANGED <<exit_flag, left, valid, silent, alarm, spurious, faulty>>

(* A thread stops beating some time after a beat, or beats again. *)
Hang(x) ==
    /\ pc # "exited"
    /\ ~silent[x]
    /\ due[x] > -Latency
    /\ silent' = [silent EXCEPT ![x] = TRUE]
    /\ faulty' = faulty \cup {x}
    /\ UNCHANGED <<exit_flag, pc, n, left, valid, due, alarm, spurious>>

Resume(x) ==
    /\ pc # "exited"
    /\ silent[x]
    /\ silent' = [silent EXCEPT ![x] = FALSE]
    /\ UNCHANGED <<exit_flag, pc, n, left, valid, due, alarm, spurious, faulty>>

(* One unit of time: main computes in no time, and no running thread skips its *)
(* beat.  Once the flag is set the timers are deleted and beats may stop.      *)
Down(v, floor) == IF v > floor THEN v - 1 ELSE v
Tick ==
    /\ pc \in {"wait", "join"}
    /\ \A x \in Threads : silent[x] \/ exit_flag \/ due[x] > -Latency
    /\ left' = Down(left, -1)
    /\ due' = [x \in Threads |-> Down(due[x], -Latency)]
    /\ UNCHANGED <<exit_flag, pc, n, valid, silent, alarm, spurious, faulty>>

Main == Loop \/ Lock \/ Wait_fails \/ Join

Next ==
    \/ Main \/ Wakes_up \/ Interrupt \/ Tick
    \/ \E x \in Threads : Beat(x) \/ Hang(x) \/ Resume(x)

Spec == Init /\ [][Next]_vars

(* main is scheduled, and time passes. *)
FairSpec == Spec /\ WF_vars(Main) /\ WF_vars(Tick)
            /\ \A x \in Threads : WF_vars(Beat(x))
-----------------------------------------------------------------------------
(* Properties *)

(* With a valid deadline, a thread is declared stuck only if it, or a thread    *)
(* waited for before it, was silent in that round: the one deadline leaves room *)
(* for the three waits, whatever broadcasts are lost between them.  (It does    *)
(* not have to be the thread itself: one that pauses uses up the time of those  *)
(* after it.)                                                                   *)
BlamedInOrder ==
    alarm # "none" /\ valid =>
        \E i, j \in 1..3 : i <= j /\ WaitedFor(i) \in faulty /\ WaitedFor(j) = alarm

(* A thread that stays silent ends the program. *)
HangDetected == \A x \in Threads : <>[]silent[x] => <>exit_flag

(* An exit ends main, if the logger is alive to be joined. *)
ExitCompletes == exit_flag ~> pc = "exited" \/ silent["logger"]

(* main.c:132, "to check if temperature thread is alive": an alarm is only     *)
(* raised when some thread was silent.                                         *)
OnlyRealAlarms == alarm # "none" => faulty # {}
=============================================================================
