----------------------------- MODULE RtosKernel -----------------------------
(***************************************************************************)
(* The part of FreeRTOS (tasks.c, queue.c) the Homework 5 application runs *)
(* on: ready tasks, preemption and time slices, calls that block with a    *)
(* timeout, and the priority a mutex holder inherits.                      *)
(*                                                                         *)
(* The ready lists of all priorities are one sequence: the running task is *)
(* the first of the highest priority in it, a task made ready goes to its  *)
(* end, and so does one that loses the processor.                          *)
(***************************************************************************)
EXTENDS Integers, SequencesExt

CONSTANTS
    Tasks,          \* the application's tasks
    Base,           \* their priorities
    Idle            \* the task that runs when none of them can

ASSUME KernelAssumption ==
    /\ Base \in [Tasks -> Nat]
    /\ Idle \notin Tasks

VARIABLES
    ready,          \* ready tasks
    prio,           \* uxPriority: base or inherited
    on,             \* per task: what it is blocked on
    left            \* per task: ticks its blocking call may still wait

kernelVars == <<ready, prio, on, left>>

None == -1          \* no blocking call is under way
Forever == -2       \* portMAX_DELAY

KernelInit(tasks) ==
    /\ ready = tasks
    /\ prio = Base
    /\ on = [t \in Tasks |-> "none"]
    /\ left = [t \in Tasks |-> None]

(* pxCurrentTCB, as vTaskSwitchContext elects it. *)
Elected(r, p) ==
    IF r = << >> THEN Idle
    ELSE r[CHOOSE i \in DOMAIN r : \A j \in DOMAIN r :
                p[r[j]] <= p[r[i]] /\ (j < i => p[r[j]] < p[r[i]])]
Current == Elected(ready, prio)

Drop(s, t) == RemoveFirst(s, t)

(* Wakeups and a change of priorities, after which the running task keeps the  *)
(* processor unless a woken task outranks it, or no task is woken and it lost  *)
(* priority.                                                                   *)
Reschedule(woken, p) ==
    /\ LET outranked == \/ \E i \in DOMAIN woken : p[woken[i]] > p[Current]
                        \/ woken = << >> /\ p[Current] < prio[Current]
       IN  ready' = IF outranked THEN Drop(ready, Current) \o woken \o <<Current>>
                                 ELSE ready \o woken
    /\ prio' = p

(* A call that returns at once. *)
Returns(t) ==
    /\ left' = [left EXCEPT ![t] = None]
    /\ UNCHANGED <<ready, prio, on>>

(* Mutated: the task stays among the ready ones. *)
Blocks_ready(t, r, w, p) ==
    /\ on' = [on EXCEPT ![t] = r]
    /\ left' = [left EXCEPT ![t] = IF @ = None THEN w ELSE @]
    /\ prio' = p
    /\ UNCHANGED ready

(* A call that blocks on r, for w ticks from its first attempt.                *)
Blocks(t, r, w, p) ==
    /\ on' = [on EXCEPT ![t] = r]
    /\ left' = [left EXCEPT ![t] = IF @ = None THEN w ELSE @]
    /\ ready' = Drop(ready, t)
    /\ prio' = p

(* The tasks of highest priority among those blocked on r. *)
Foremost(r, p) == { u \in Tasks : on[u] = r /\ \A v \in Tasks : on[v] = r => p[v] <= p[u] }

(* The call of t succeeds and makes r available: a foremost task is made       *)
(* ready, and will try again when it runs.                                     *)
Signals(t, r, p) ==
    /\ left' = [left EXCEPT ![t] = None]
    /\ \/ /\ Foremost(r, prio) = {}
          /\ UNCHANGED on
          /\ Reschedule(<< >>, p)
       \/ \E u \in Foremost(r, prio) :
             /\ on' = [on EXCEPT ![u] = "none"]
             /\ Reschedule(<<u>>, p)

(* vTaskPriorityInherit and xTaskPriorityDisinherit. *)
Inherit(holder, t) == IF prio[holder] < prio[t] THEN [prio EXCEPT ![holder] = prio[t]] ELSE prio
Disinherit(holder) == [prio EXCEPT ![holder] = Base[holder]]

(* The tasks whose blocking call reaches its timeout. *)
Due == { t \in Tasks : on[t] # "none" /\ left[t] = 1 }

(* Mutated: no time slices. *)
Tick_unsliced(given) ==
    LET woken == Due \cup given
    IN  /\ left' = [t \in Tasks |-> IF t \in woken /\ on[t] = "delay" THEN None
                                    ELSE IF left[t] > 0 THEN left[t] - 1 ELSE left[t]]
        /\ on' = [t \in Tasks |-> IF t \in woken THEN "none" ELSE on[t]]
        /\ \E w \in SetToSeqs(woken) : ready' = ready \o w
        /\ UNCHANGED prio

(* xTaskIncrementTick: calls in progress come closer to their timeout, those   *)
(* that reach it and the tasks in "given" become ready, and the running task   *)
(* goes behind the others of its priority.  The order of several such tasks,   *)
(* that of the delayed list and of the daemon's gives, is left open.           *)
Tick(given) ==
    LET woken == Due \cup given
    IN  /\ left' = [t \in Tasks |-> IF t \in woken /\ on[t] = "delay" THEN None
                                    ELSE IF left[t] > 0 THEN left[t] - 1 ELSE left[t]]
        /\ on' = [t \in Tasks |-> IF t \in woken THEN "none" ELSE on[t]]
        /\ \E w \in SetToSeqs(woken) :
              ready' = IF Current = Idle THEN w ELSE Drop(ready, Current) \o w \o <<Current>>
        /\ UNCHANGED prio
=============================================================================
