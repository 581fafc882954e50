----------------------------- MODULE RtosLogger -----------------------------
(***************************************************************************)
(* The Homework 5 application: a software timer wakes an LED task and, at  *)
(* every TempEvery-th expiry, a temperature task; they and an alert task   *)
(* send records under one mutex to a queue, from which a logger task       *)
(* prints them on a slow UART.                                             *)
(*                                                                         *)
(* The timer daemon outranks every task and its callback does not block,   *)
(* so an expiry is part of the tick.  What the tasks do between blocking   *)
(* calls is short against a tick, except for printing: a tick interrupt    *)
(* finds the processor idle or printing, or the end of a printing has used *)
(* up the tick.                                                            *)
(***************************************************************************)
EXTENDS RtosKernel

CONSTANTS
    Period,         \* ticks between two expiries of the timer
    TempEvery,      \* expiries per temperature reading
    MutexWait,      \* the ticks led_thread and temperature_thread wait for sync_mutex
    QueueLength,    \* length of my_queue
    Nobody          \* the holder of a free mutex

ASSUME LoggerAssumption ==
    /\ Tasks = {"led", "temp", "log", "alert"}
    /\ Base = [t \in Tasks |-> IF t = "alert" THEN 2 ELSE 1]
    /\ {Period, TempEvery, MutexWait, QueueLength} \subseteq Nat \ {0}
    /\ Nobody \notin Tasks

VARIABLES
    pc,             \* per task: where it is
    semaphore,      \* semaphore_led and semaphore_temp
    holder,         \* the task that holds sync_mutex
    my_queue,
    notified,       \* the alert task's notification count is not zero
    data,           \* the last temperature is 20 degrees or more
    countdown,      \* ticks to the timer's next expiry
    count,          \* expiries, modulo TempEvery
    used            \* printing ended within this tick

appVars == <<semaphore, holder, my_queue, notified, data, countdown, count, used>>
vars == <<kernelVars, pc, appVars>>

Points == [led   |-> {"take", "flash", "mutex", "send", "give", "rest"},
           temp  |-> {"take", "start", "notify", "mutex", "send", "give"},
           alert |-> {"take", "mutex", "send", "give"},
           log   |-> {"receive", "print"}]
Resources == {"none", "delay", "led", "temp", "notify", "mutex", "space", "record"}

TypeOK ==
    /\ ready \in Seq(Tasks)
    /\ \A i, j \in DOMAIN ready : i # j => ready[i] # ready[j]
    /\ \A t \in Tasks : (\E i \in DOMAIN ready : ready[i] = t) <=> on[t] = "none"
    /\ prio \in [Tasks -> {1, 2}]
    /\ on \in [Tasks -> Resources]
    /\ left \in [Tasks -> {Forever, None} \cup 0..MutexWait]
    /\ \A t \in Tasks : pc[t] \in Points[t]
    /\ semaphore \in [{"led", "temp"} -> BOOLEAN]
    /\ holder \in Tasks \cup {Nobody}
    /\ my_queue \in Seq(Tasks) /\ Len(my_queue) <= QueueLength
    /\ {notified, data, used} \subseteq BOOLEAN
    /\ countdown \in 1..Period /\ count \in 0..(TempEvery - 1)

Init ==
    /\ KernelInit(<<"led", "temp", "log", "alert">>)
    /\ pc = [t \in Tasks |-> IF t = "log" THEN "receive" ELSE "take"]
    /\ semaphore = [s \in {"led", "temp"} |-> FALSE]
    /\ holder = Nobody
    /\ my_queue = << >>
    /\ notified = FALSE
    /\ data \in BOOLEAN
    /\ countdown = Period
    /\ count = 0
    /\ used = FALSE
-----------------------------------------------------------------------------
At(t, l) == Current = t /\ pc[t] = l
Goto(t, l) == pc' = [pc EXCEPT ![t] = l]

(* xSemaphoreTake(semaphore_led or semaphore_temp, portMAX_DELAY) *)
Take(t, next) ==
    /\ At(t, "take")
    /\ \/ /\ semaphore[t]
          /\ semaphore' = [semaphore EXCEPT ![t] = FALSE]
          /\ Returns(t)
          /\ Goto(t, next)
       \/ /\ ~semaphore[t]
          /\ Blocks(t, t, Forever, prio)
          /\ UNCHANGED <<pc, semaphore>>
    /\ UNCHANGED <<holder, my_queue, notified, data, countdown, count, used>>

(* vTaskDelay(pdMS_TO_TICKS(2)) *)
Delay(t, at, next) ==
    /\ At(t, at)
    /\ Blocks(t, "delay", 2, prio)
    /\ Goto(t, next)
    /\ UNCHANGED appVars

(* xSemaphoreTake(sync_mutex, w), and where the caller goes on after a timeout. *)
Lock(t, w, timeout) ==
    /\ At(t, "mutex")
    /\ \/ /\ holder = Nobody
          /\ holder' = t
          /\ Returns(t)
          /\ Goto(t, "send")
       \/ /\ holder # Nobody /\ left[t] = 0
          /\ Returns(t)
          /\ Goto(t, timeout)
          /\ UNCHANGED holder
       \/ /\ holder # Nobody /\ left[t] # 0
          /\ Blocks(t, "mutex", w, Inherit(holder, t))
          /\ UNCHANGED <<pc, holder>>
    /\ UNCHANGED <<semaphore, my_queue, notified, data, countdown, count, used>>

(* Mutated: the senders wait for space as long as it takes. *)
SendWait_forever == Forever

SendWait == 1

(* Mutated: a sender that gives up does not give the mutex back. *)
Send_keeping(t) ==
    /\ At(t, "send")
    /\ \/ /\ Len(my_queue) < QueueLength
          /\ my_queue' = Append(my_queue, t)
          /\ Signals(t, "record", prio)
          /\ Goto(t, "give")
       \/ /\ Len(my_queue) = QueueLength /\ left[t] = 0
          /\ Returns(t)
          /\ Goto(t, IF t = "led" THEN "rest" ELSE "take")
          /\ UNCHANGED my_queue
       \/ /\ Len(my_queue) = QueueLength /\ left[t] # 0
          /\ Blocks(t, "space", SendWait, prio)
          /\ UNCHANGED <<pc, my_queue>>
    /\ UNCHANGED <<semaphore, holder, notified, data, countdown, count, used>>

(* xQueueSend(my_queue, &log, 1); its result is not looked at. *)
Send(t) ==
    /\ At(t, "send")
    /\ \/ /\ Len(my_queue) < QueueLength
          /\ my_queue' = Append(my_queue, t)
          /\ Signals(t, "record", prio)
          /\ Goto(t, "give")
       \/ /\ Len(my_queue) = QueueLength /\ left[t] = 0
          /\ Returns(t)
          /\ Goto(t, "give")
          /\ UNCHANGED my_queue
       \/ /\ Len(my_queue) = QueueLength /\ left[t] # 0
          /\ Blocks(t, "space", SendWait, prio)
          /\ UNCHANGED <<pc, my_queue>>
    /\ UNCHANGED <<semaphore, holder, notified, data, countdown, count, used>>

(* xSemaphoreGive(sync_mutex): refused when the mutex is free; otherwise its   *)
(* holder, whoever that is, loses it and what it inherited.                    *)
Give(t, next) ==
    /\ At(t, "give")
    /\ IF holder = Nobody THEN Returns(t)
                          ELSE Signals(t, "mutex", Disinherit(holder))
    /\ holder' = Nobody
    /\ Goto(t, next)
    /\ UNCHANGED <<semaphore, my_queue, notified, data, countdown, count, used>>
-----------------------------------------------------------------------------
led_thread ==
    \/ Take("led", "flash")
    \/ Delay("led", "flash", "mutex")
    \/ Lock("led", MutexWait, "rest")
    \/ Send("led")
    \/ Give("led", "rest")
    \/ Delay("led", "rest", "take")

(* The exchanges with the I2C master are over and my_temp_function has set     *)
(* data; when the sensor did not answer, data keeps the last value, or at      *)
(* first whatever the stack held.                                              *)
my_temp_function ==
    /\ At("temp", "start")
    /\ Returns("temp")
    /\ \/ data' \in BOOLEAN
       \/ UNCHANGED data
    /\ Goto("temp", "notify")
    /\ UNCHANGED <<semaphore, holder, my_queue, notified, countdown, count, used>>

(* Mutated: the count is raised and the alert task not made ready. *)
Notify_silent ==
    /\ At("temp", "notify")
    /\ notified' = (notified \/ data)
    /\ Returns("temp")
    /\ Goto("temp", "mutex")
    /\ UNCHANGED <<semaphore, holder, my_queue, data, countdown, count, used>>

(* xTaskNotifyGive(a_task) for 20 degrees and more. *)
Notify ==
    /\ At("temp", "notify")
    /\ IF data THEN /\ notified' = TRUE
                    /\ Signals("temp", "notify", prio)
               ELSE /\ Returns("temp")
                    /\ UNCHANGED notified
    /\ Goto("temp", "mutex")
    /\ UNCHANGED <<semaphore, holder, my_queue, data, countdown, count, used>>

(* The if that takes the mutex ends in a semicolon: a timeout goes on to send. *)
temperature_thread ==
    \/ Take("temp", "start")
    \/ my_temp_function
    \/ Notify
    \/ Lock("temp", MutexWait, "send")
    \/ Send("temp")
    \/ Give("temp", "take")

(* ulTaskNotifyTake(pdTRUE, portMAX_DELAY): the count is cleared. *)
NotifyTake ==
    /\ At("alert", "take")
    /\ \/ /\ notified
          /\ notified' = FALSE
          /\ Returns("alert")
          /\ Goto("alert", "mutex")
       \/ /\ ~notified
          /\ Blocks("alert", "notify", Forever, prio)
          /\ UNCHANGED <<pc, notified>>
    /\ UNCHANGED <<semaphore, holder, my_queue, data, countdown, count, used>>

alert_thread ==
    \/ NotifyTake
    \/ Lock("alert", Forever, "send")
    \/ Send("alert")
    \/ Give("alert", "take")

(* xQueueReceive(my_queue, &log, 1), again and again. *)
Receive ==
    /\ At("log", "receive")
    /\ \/ /\ my_queue # << >>
          /\ my_queue' = Tail(my_queue)
          /\ Signals("log", "space", prio)
          /\ Goto("log", "print")
       \/ /\ my_queue = << >> /\ left["log"] = 0
          /\ Returns("log")
          /\ UNCHANGED <<pc, my_queue>>
       \/ /\ my_queue = << >> /\ left["log"] # 0
          /\ Blocks("log", "record", 1, prio)
          /\ UNCHANGED <<pc, my_queue>>
    /\ UNCHANGED <<semaphore, holder, notified, data, countdown, count, used>>

(* UARTprintf returns after any number of ticks. *)
Print_ends ==
    /\ At("log", "print")
    /\ Returns("log")
    /\ Goto("log", "receive")
    /\ used' = TRUE
    /\ UNCHANGED <<semaphore, holder, my_queue, notified, data, countdown, count>>

logger_thread == Receive \/ Print_ends
-----------------------------------------------------------------------------
(* timer_handler: xSemaphoreGive on a semaphore that was not taken since the   *)
(* last give does nothing.                                                     *)
Expires == countdown = 1
Given == IF ~Expires THEN {}
         ELSE {"led"} \cup IF (count + 1) % TempEvery = 0 THEN {"temp"} ELSE {}

(* The tick interrupt, and the timer daemon if the timer expires. *)
SysTick ==
    /\ Current = Idle \/ used \/ At("log", "print")
    /\ used' = FALSE
    /\ countdown' = IF Expires THEN Period ELSE countdown - 1
    /\ count' = IF Expires THEN (count + 1) % TempEvery ELSE count
    /\ semaphore' = [s \in {"led", "temp"} |-> semaphore[s] \/ s \in Given]
    /\ Tick({ t \in Given : on[t] = t })
    /\ UNCHANGED <<pc, holder, my_queue, notified, data>>

Step == led_thread \/ temperature_thread \/ alert_thread \/ logger_thread

Next == Step \/ SysTick

Spec == Init /\ [][Next]_vars

(* The processor runs the elected task, tick interrupts come, and the UART     *)
(* takes the characters of a record in a finite time.                          *)
FairSpec == Spec /\ WF_vars(Step) /\ WF_vars(SysTick) /\ SF_vars(Print_ends)
-----------------------------------------------------------------------------
(* Properties *)

(* Who sends and gives holds sync_mutex, although temperature_thread does not  *)
(* look at what its take returned: nobody holds the mutex for as long as the   *)
(* others wait for it.                                                         *)
GivenByHolder ==
    \A t \in Tasks \ {"log"} : pc[t] \in {"send", "give"} => holder = t

(* The record of an alert is in the queue, or given up, before the record of   *)
(* the temperature that raised it: the notification hands over the processor.  *)
AlertFirst ==
    pc["temp"] \in {"send", "give"} => pc["alert"] = "take" /\ ~notified

(* The alert task never waits for the mutex, so nobody inherits its priority:  *)
(* whenever a temperature raises an alert, the LED task is through with its    *)
(* record, and the records' senders do not wait long on a full queue.          *)
AlertUnhindered == on["alert"] # "mutex" /\ prio = Base

(* No give of the timer is lost: the LED and the temperature task have taken   *)
(* the last one whenever the timer gives the next.                             *)
NoGiveLost ==
    [][\A s \in {"led", "temp"} : countdown = 1 /\ countdown' = Period =>
          ~(semaphore[s] /\ s \in Given)]_vars

(* temp_read waits for the I2C master to be seen busy before it waits for it   *)
(* to be ready, so a task that lost the processor in between could wait for    *)
(* ever (main.c:128): no tick interrupt falls into its exchanges.              *)
ExchangeUncut ==
    [][pc["temp"] = "start" => UNCHANGED <<countdown, count>>]_vars

(* An alert gets its turn at the queue, whatever the other tasks do. *)
AlertServed == notified ~> pc["alert"] = "give"

(* Each wakeup of the LED task ends in a record sent or given up, however long *)
(* the logger prints at the same priority.                                     *)
LedServed == semaphore["led"] ~> pc["led"] = "give"
=============================================================================
