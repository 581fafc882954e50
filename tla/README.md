# Verification of the sensor monitor

TLA+ models, TLC runs and TLAPS proofs for the programs of this repository,
an embedded-systems course: five homework directories and *Project 1*, a sensor
monitor for a BeagleBone Green with a TMP102 temperature sensor and an APDS-9301
light sensor on one I2C bus. Project 1 is where this development starts; the
FreeRTOS application of homework 5, the two-process exercises of homework 4 and
the kernel timer of homework 3 follow. Paths below are relative to
`src/Project 1/` unless they say otherwise.

Contents: [inventory](#inventory), [modules](#modules-and-the-code),
[runs](#runs), [divergences found](#where-code-and-comments-disagree),
[proofs](#proofs), [what is not modelled](#what-is-not-modelled),
[what could come next](#what-could-come-next).

## Inventory

### Project 1, the sensor monitor

One process with these threads:

| part | code | state | operations |
|---|---|---|---|
| main / heartbeat | `main.c`, `timer_setup` in `logger.c` | `exit_flag`, `heartbeat_mutex`, three condition variables | start the threads; per round one deadline and three timed waits; alarm, joins; `intHandler` on SIGINT |
| sensor threads | `temperature_function`, `light_function` | queue descriptor, POSIX timer | create queue and timer (1 s, 2 s), spin on `exit_flag`, delete the timer, close the queue |
| timer handlers | `temperature_handler`, `light_handler` (a **new thread per expiry**, `SIGEV_THREAD`) | static `error_status`, the sensor's LED | broadcast a beat, read the sensor, announce the first failure of an outage or send the reading, set the sensor's flag |
| bus | `temp_main`, `Light_main`, `I2C_init`, the register functions | `bus_lock`, the global `file`, the devices' register pointers | lock, open and bind, select/transfer exchanges, unlock |
| logger | `logging_thread`, `logging_function` | `light_flag`, `temperature_flag`, the two POSIX queues, the log file | poll the flags, clear, `mq_receive`, write |
| socket thread | `socket.c` | `recieve_buffer`, `result_client`, the open connections | accept, read one word, read a sensor, reply; `exit(1)` when a call fails |
| client program | `client.c` | its socket | connect, read a word from the keyboard, send, `recv`, print |
| conversions | `i2c.c`, `temperature.c`, `light.c` | none | sensor word to degrees in a unit, channels to lux, thresholds |
| start-up tests | `intial_test.c`, `test_*.c` | none | straight-line sensor and conversion checks before any thread runs |
| LEDs | `user_led.c` | three GPIO files | switch one LED |

They interact through `bus_lock` and `file` (handlers, socket thread), through
queue plus flag (handlers to logger), through condition-variable broadcasts
without a predicate (handlers and logger to main), and through `exit_flag`
(main, signal, everyone). The socket thread shares the bus and the process's
descriptors with the handlers, and its `exit(1)` takes everybody down.

What is hard here: handlers of one sensor overlap whenever one is slow; two
resources are blocking without a timeout (`bus_lock`, `mq_send`); the queues are
kernel objects that outlive the process while flags and counters do not; sensors
come and go between any two bytes; three waits share one absolute deadline;
broadcasts sent while nobody waits are lost; one thread serves all clients, from
a buffer that is never cleared.

What makes each part correct:

* **bus**: a reading consists of what its caller asked for; a failure has a
  cause; a caller that left does not own the mutex; a caller inside comes out.
* **handlers, queues, logger**: the log receives each sensor's records once each
  and in order; the logger never blocks in a receive (it would stop serving the
  other sensor, and main could not join it); an outage is announced and lit; a
  raised flag is served; shutdown completes.
* **heartbeat**: who beats in time is not blamed; who hangs ends the program;
  an exit ends main.
* **socket server**: a reply answers the command of the client that gets it; no
  command is dropped, whatever the buffer held; a command is answered.
* **client**: it prints what was sent to it.
* **conversions**: a reported number is the measured quantity in the unit the reply
  names, and the lux formula is that of the interval it is written behind. Neither
  holds in general: a reading in Celsius is right unless below zero
  (`CelsiusTrue`); theorems say what is computed in the other cases.

### The homeworks

| part | code under `src/` | why (not) |
|---|---|---|
| FreeRTOS application | `Homework5/HW5/{main,mythread,init}.c` | modelled: a timer, two binary semaphores, a mutex, a queue and a notification between four tasks |
| FreeRTOS, TivaWare | rest of `Homework5/HW5` | vendored; of `tasks.c`, `queue.c` and `timers.c` as much as the application's calls do |
| IPC programs | `Homework4/{msg,pipe,shared}.c` | modelled: two processes each, over objects that may outlive them |
| socket pair | `Homework4/socket_{server,client}.c` | modelled: ten rounds over one connection, and no failure stops either program |
| signals and threads | `Homework4/HW4.c` | a letter count and a thread that waits for a signal |
| kernel modules | `Homework3` | the timer module is modelled; the list exercise is sequential |
| system call, cron, script | `Homework2`, `Homework1` | sequential or I/O only |

What makes them correct: in the FreeRTOS application the mutex is given by the
task that holds it, a high temperature is announced before it is logged, no
expiry of the timer is lost, and no task is starved by a logger that prints; in
the exercises both processes end, what is read was written, and an unloaded
module's timer is silent.

`PROJECT.json` lists all components with their status, and every hazard met
while reading, with its line and the properties aimed at it.

## Modules and the code

| module | role |
|---|---|
| `BusCalls` | abstract: what a caller sees of `temp_main` and `Light_main` |
| `SensorBus` | callers of `temp_main` and `Light_main` on the bus, exchange by exchange; implements `BusCalls` |
| `LogChannel` | abstract: what the log promises per sensor |
| `LogPipeline` | timer handlers, queues, flags, logger, shutdown, restart; implements `LogChannel` |
| `Heartbeat` | main's rounds in discrete time |
| `Conversions` | degrees, units, thresholds, choice of the lux formula |
| `SocketServer` | socket thread and clients, built on `BusCalls` and `Conversions` |
| `RtosKernel` | the FreeRTOS calls the application of homework 5 uses |
| `RtosLogger` | that application, built on `RtosKernel` |
| `QueueExchange`, `SharedExchange`, `PipeExchange` | `msg.c`, `shared.c`, `pipe.c` of homework 4 |
| `SocketExchange` | `socket_server.c` and `socket_client.c` of homework 4 |
| `TimerModule` | `kernel_module.c` of homework 3 |
| `Homeworks` | the last five side by side |
| `MC*` | sets and bounds for TLC |
| `*Proofs` | theorems |

Actions are named after the function or statement they model. Definitions whose
comment begins with *Mutated* are never part of `Next`: each is a plausible bug
in the definition it follows, used to show that a property can fail.

### SensorBus

State: `lock` (bus_lock), `file` (the device the global descriptor is bound to),
`fds` (descriptors opened so far), `pointer` (each device's register pointer),
`acks` (plugged in?), `claimed` (devices for which `ioctl(I2C_SLAVE)` fails), and
per caller its control point, sensor, exchange number, registers read, channels
`Read_Data` gave up on and exit status.

The drivers always issue a one-byte register-select write and then one transfer.
Such a pair is an *exchange*; `Dialogue(s)` is the sequence of exchanges of a
call, tagged with the C function each belongs to, because the function decides
what a missing acknowledge does (`Nack`): `Read_Data` substitutes the number 1
and goes on, `Read_Sensor_ID`'s failure leaves `Light_main` without the unlock,
all others unlock and return. Each of the two transactions is one step
(`Select`, `Transfer`), so other callers run between them. `Unplug` and `Plug`
may happen between any two steps. Bytes are abstracted to *which register they
came from*; the only number that matters for control is whether channel 0 is
zero, a choice in `Compute`. `Turn_on_Light_sensor` lacks a `return`; the
makefile passes no `-O`, and at `-O0` its caller sees the 0 that `write_timing`
returned, which is what the model takes.

A caller here is any thread: a timer handler of one sensor is a caller that
happens to read that sensor, the socket thread may read either.

### LogPipeline and LogChannel

State: the two queues (sequences of record levels), the two flags, `error_status`
(0, 1, "two or more": the code only tests 0 and 1), the LEDs, per handler thread
its control point and locals, the logger's control point, `exit_flag`, whether
the timers are armed and the senders' descriptors open, and the log itself.
Both handlers are one set of actions: `temperature_handler` and `light_handler`
differ only in the level of the outage record (`OutageLevel`).

Granularity: every access to something shared is a step of its own.
`error_status++` is `Load` then `Store`; the blocking `mq_send` is `Mq_send` (is
the descriptor open?) then `Enqueue` (waits for room); the logger's test, clear
and receive are three steps. `Disarm` and `Close` are the tails of the sensor
threads, `Restart` the joins and a new start of the program, `Abort` the
`exit(1)` of the socket thread at any point. Both keep queue, LED and log and
reset everything else, which is what the kernel does.

`LogChannel` has, per sensor, the records `waiting` and the `journal`, and one
`hand` of the writer. Its steps: `Put` a record (at most `Capacity` wait), `Take`
the oldest of a sensor into the empty hand, `Record` it. A record leaves the hand
by being recorded, or by `Die`, which is the only step that toggles `life`: a
logger that drops a record while its process goes on does not implement this.
`LogPipeline` implements it under the mapping *waiting = the queue, hand = the
record the logger has received and not written*: `Enqueue` is `Put`, `Receive` is
`Take`, `Log` is `Record`, and `Restart` and `Abort`, which toggle the history
variable `life` of `LogPipeline`, are `Die`.

### Heartbeat

State: main's control point, the number of the wait in the round, time left to
the deadline, whether the `timespec` is valid, per watched thread the time to its
next beat and whether it is silent. Time is kept as countdowns, so no clock
grows and the state space is finite without a bound on time. `Beat(x)` wakes main
if it waits for `x` just then and is lost otherwise. `Wakes_up` is the spurious
wakeup POSIX allows. A deadline computed in the last 4 ms of a second is invalid
and makes the wait fail at once, as `EINVAL` does; which rounds those are is a
choice. "Silent" covers a hang and a lost timer.

### BusCalls and how SensorBus implements it

`BusCalls` keeps, per caller, five phases: idle, waiting for `bus_lock`, entered,
talking, leaving. `Bind` spends a descriptor or finds none, `Conclude` ends the
exchanges well or badly, or, for the light sensor only, returns *without* giving
`bus_lock` back, which is the exit of `light.c:182`. Under the mapping at the end
of `SensorBus` the control points between `Open` and the last exchange are one
phase, and `Select`, `Transfer`, `Unplug` and `Plug` are stutters. The point of
this specification is that the socket server can be built on it: over the full
drivers its state space would be out of reach.

### Conversions

Temperatures are integers in eightieths of a degree, the unit in which 0.0625,
1.8, 32 and 273.5 are exact, so results are exact where the program's `float`s
round. `Minus_Correction` is what the code computes (it sets bits 11 to 15 of a
32-bit `int` and leaves the number positive); `Measured` is the two's complement
value the sensor means. `Temp_Conversion` has units 2 and 3 as `i2c.c` has them,
and turns zero degrees into `EXIT_FAILURE`, 1. `Lux_branch` reads `0 < ADC < 0.50`
as C does; `Lux_interval` as it is written.

### SocketServer

State: of the monitor, whether it runs and `exit_flag`; of the socket thread, its
control point, the connection it serves, `recieve_buffer`, the backlog of
connections the kernel has completed, and the connections it has accepted and not
closed; of each client, where it is, what it sent, what it was sent, what it
printed, and which sensor word or channels the number in its reply came from.

`accept` is two steps, because the kernel sets the descriptor aside before it
waits. Words are sequences of letters, and the buffer is the first five bytes of
`recieve_buffer`, all that the `strncmp` chain looks at. `read` overwrites as many
of them as the word has letters and leaves the rest (`Read_some`): any beginning of
a command, from one letter to four, may so be completed by the tail an earlier
client left (`Spelled`). What the thread's stack holds in the buffer before the
first read is `NUL`, taken to be no letter of a command. A client that sends nothing is closed; one that sends something
never is. A failed reading is answered with an `ERROR` record, an unknown word
with nothing. `exit(1)` on a failed `socket`, `bind` or `accept`, and main's
return, are `Exit`: the threads stop where they are. `Exit_requested` is a SIGINT
or a heartbeat alarm. A client is a run of `client.c`, which sends commands only
and tests neither the result of `connect` nor a `recv` of 0, or, in `Others`, any
other program.

### RtosKernel and RtosLogger

`RtosKernel` keeps the ready lists of all priorities as one sequence, the
priorities (base or inherited), what each task is blocked on and how long its
call may still wait. The running task is the first of the highest priority. A
blocking call that is woken goes back and tries again, with the time left, as the
loops in `xQueueSemaphoreTake` and `xQueueGenericSend` do; a wakeup preempts only
by a higher priority; a tick moves the running task behind its equals; priority
inheritance is in `Inherit` and `Disinherit`. Among waiting tasks of one highest
priority, any may be woken, and tasks that one tick makes ready come in any order.

`RtosLogger` has one action per call of a task. The daemon task outranks all
others and `timer_handler` does not block, so an expiry is part of `SysTick`. What
a task does between two blocking calls is microseconds against a tick of a
millisecond, so `SysTick` comes when the processor is idle or the logger prints,
the UART being the slow part, or when the end of a printing has used up the tick
(`used`). The semicolon after the `if` that takes `sync_mutex` is the `"send"` in
`Lock("temp", MutexWait, "send")`: a timeout goes on to send, and to give.

### The exercises

`msg.c`: both processes send to and receive from one queue, reopening it each
round; `mq_send` hands a message to a process already waiting. `shared.c`: the
child waits for the semaphore once and posts ten times; names are unlinked by
whoever comes to it, so a late `open` makes a new object. `pipe.c`: all four ends
are closed in the loop, so calls of later rounds are errors, which nobody tests;
in the first each process closes its ends while the other may still be about to
use the pipe.
Objects may be left over by a run that was killed (`Leftovers`, `OldPosts`).
`kernel_module.c`: the callback arms its own timer; `del_timer` does not wait for
a callback on another processor. `socket_server.c` never sets the address length
it hands to `accept` (line 63 subtracts where it should assign), so `accept` may
take the connection, close it and fail; `bind` may fail unnoticed too. Both
programs go on regardless, until SIGPIPE ends the client. A behaviour of
`Homeworks` runs one of the five.

## Runs

All run in about a minute or less on two workers. Deadlock is checked except
where the program really ends: heartbeat, server, exercises.

| run | configuration | shows |
|---|---|---|
| `bus` | 2 callers, each free to read both sensors; 3 descriptors; any claimed devices (282,126 states) | `NoForeignData`, `FailureExplained`, `OnlyIdPathKeepsLock`, `SelectionHolds`, `BusComesBack`, `Calls_Spec` |
| `bus_lock_leak` | same | `LockReturned` fails |
| `pipeline_overlap` | 2 light handlers (symmetric), capacity 2, 3 expiries (559,454 states) | `ReceiveNeverBlocks`, `Channel_Spec` with overlapping handlers |
| `pipeline_serial` | 1 temperature and 1 light handler, capacity 1, 2 expiries | `OutageLit`, `OutageAnnounced`, `FlagServed`, `ShutdownCompletes` |
| `pipeline_wedged` | 1 light handler, capacity 1, 3 expiries | `SenderGetsThrough` fails |
| `pipeline_lost_alert` | 2 light handlers | `OutageAnnounced` fails |
| `heartbeat` | periods 1, 2, 1, timeout 4 (seconds), 1 spurious wakeup | `BlamedInOrder`, `HangDetected`, `ExitCompletes` |
| `heartbeat_overflow` | same | `OnlyRealAlarms` fails |
| `server` | the server, 1 temperature handler, 1 run of `client.c`, 1 client that sends beginnings of commands or rubbish; 4 descriptors (343,562 states) | `RepliesMatch`, `CommandsKept`, `CelsiusTrue`, `ClientTold`, `Served` |
| `server_units` | same | `UnitsAsNamed` fails |
| `rtos_app` | the code's priorities, period 100 ticks, every 10th a reading, mutex wait 20; queue of 2 (101,210 states) | `GivenByHolder`, `AlertFirst`, `AlertUnhindered`, `NoGiveLost`, `ExchangeUncut`, `AlertServed`, `LedServed` |
| `homeworks` | 10 rounds as in the code; fresh or left-over queue and semaphore (90,665 states) | `ReadsWritten`, `PipesHeld`, `QuietWhenUnloaded`, `ParentsEnd`, `ChildrenEnd` |

**Bounds and why they are enough.** *Two callers*: every bus property relates one
caller to one other; the theorems remove the bound for the safety ones. *Three
descriptors*: the third and later calls meet exhaustion, after two complete
calls, so both the normal and the exhausted case occur with every interleaving.
*Two overlapping handlers* are the least that can interleave the counter, share
a flag and fill a queue; a queue of 2 with 3 expiries meets empty, full and the
backlog of two records under one flag. `MaxExpiries` is the only counter capped
in a guard (`Expire`); interrupts, restarts and aborts are not bounded.
In `pipeline_serial` there is one handler thread per sensor, so handlers of *one*
sensor never overlap: the case in which the outage logic works; its complement
is `pipeline_lost_alert`. *Heartbeat*: the constants are the program's own seconds;
`MaxSpurious` caps the spurious wakeups.

*Server*: two clients are the least for a buffer left by one and completed by
another, for a queue behind a silent one, and for a reply that could go astray.
Four descriptors allow an answer to each client before accept or a reading fails.
The words 400 and 4095 are 25 degrees and just below zero; the channels lie in an
interval whose formula is not taken and in the one whose formula is. The theorems
cover any number of clients, handlers and descriptors, every word and every pair
of channels.

*FreeRTOS*: only `QueueLength` is smaller than the program's (10), so that the
queue fills; the theorems cover any length. Outside the runs
the properties also hold for a mutex wait of 2 and a period of 6, less than the
theorems ask for; at a period
of 5 or less `NoGiveLost` fails, since a round of the LED task takes that long.
`AlertUnhindered` says that with these numbers the inheritance is never needed.
*Exercises*: the rounds are the code's; a queue left over holds up to two
messages, far from its limit of ten, so a send never blocks.

**Fairness.** The threads are plain POSIX threads under the default time-sharing
policy, so a runnable thread runs eventually: weak fairness of each caller's
`Proceed`, each handler's `Handle`, the logger, and the two tails. Waiting for
the mutex or for queue room is *not* assumed to succeed: weak fairness of a
blocked step promises nothing while another keeps taking the resource. Nothing is
assumed of the environment (plugging, expiries, interrupts, restarts), and
`Heartbeat` assumes in addition that time passes and that a thread that is not
silent beats.

In `SocketServer` the server's steps, a handler's work and a client's `recv` are
weakly fair; nobody is obliged to type. The server's steps on the bus are strongly
fair: a handler starts once in one or two seconds and holds the bus for
milliseconds, so `bus_lock` is free again and again with no handler waiting. In
`RtosLogger` the elected task runs and ticks come (weak fairness), and a printing
that is resumed again and again ends (strong fairness: the UART takes a
character in a fixed time). In `Homeworks` every process that can run does;
nobody has to load or unload a module.

**What the less obvious properties say.**

* `FailureExplained`: no reading fails without one of four causes (silent at
  some time of the call, claimed device, no descriptor, dark light sensor). A
  stale failure of another caller is not among them.
* `OnlyIdPathKeepsLock`: a thread that is outside and owns the lock left through
  the one exit path without an unlock, and its sensor was silent.
* `ReceiveNeverBlocks`: relates the logger's control point to a queue filled by
  other threads; it needs that flags are set after sends and cleared before
  receives, and that a restart clears flags but not queues.
* `FlagServed`, `ShutdownCompletes`: liveness of the logger with blocking calls
  on two queues, with senders blocked on full queues at shutdown.
* `BlamedInOrder`: the sum of periods fits the one deadline, whatever broadcasts
  are lost between the waits; not "the blamed thread was silent", which is false:
  a thread that pauses uses up the time of those waited for after it.
* `Channel_Spec`: relates what the handlers sent, over two processes' lives, to
  what is in the log. Only a step that ends the process may leave a record out,
  and only the one the logger held.
* `RepliesMatch`: although the buffer is never cleared, no client that sent a
  command gets the answer to another. A client that sent a beginning of a command
  (one letter is enough) may get a reading: that of the command whose other letters
  stand in the buffer, each sent by a client whose connection is still open.
* `CommandsKept`: the other side of it. Whatever the buffer held and whoever came
  in between, a command is waiting or being served until it is answered; it is
  never taken for something else and dropped.
* `CelsiusTrue`: from the keyboard to the reply, through dispatch, unit and sign:
  a reading labelled `C` is the sensor's temperature unless that is below zero.
* `Served`: what a command's answer depends on. One silent connection stalls all,
  and a failed identity check of the light sensor leaves the server at the lock.
* `GivenByHolder`: why the semicolon does no harm: nobody holds the mutex for
  twenty ticks, because sends give up after one.
* `ExchangeUncut`: `temp_read` first waits to *see* the I2C master busy, so a task
  switched away in between might wait for ever; the readings start right behind
  a tick, and nothing else preempts them.
* `ParentsEnd`, `ChildrenEnd`: by counting: a parent puts one message in before
  it takes one out, and may take its own back; then the child has none. The
  socket server may wait in `accept` for ever, for a client that found no
  listener and died of its first write.
* `PipesHeld`: neither process of `pipe.c` closes an end the other is not done with:
  no write ends in SIGPIPE, and no first read is an early end of file. Rounds after
  the first move nothing, and the property says nothing of them.
* `ReadsWritten`: holds by the order of posts and writes of two processes over
  objects that are unlinked while in use; a semaphore left up breaks it.

## Where code and comments disagree

1. `bus_lock_leak`: `Light_main` returns at `light.c:182` without
   `pthread_mutex_unlock` (comment at `light.c:191`: "return the I2C bus mutex").
   Later readings of both sensors block.
2. `pipeline_wedged`: the flag is set after the blocking send (`light.c:133-140`),
   the logger receives only when it is set; queues persist, flags do not. A queue
   left full is never drained (`light.h:138` promises a periodic log).
3. `pipeline_lost_alert`: two overlapping handlers both increment `error_status`
   before testing it for 1 (`light.c:88-90`): the outage is never announced
   (`light.c:101`: "send alert message to the logger task").
4. `heartbeat_overflow`: `timer_setup` does not carry nanoseconds (`logger.c:12`):
   about one round in 250 has an invalid deadline and ends a healthy
   program (`main.c:132`: "to check if temperature thread is alive").

5. `server_units`: `Temp_Conversion` takes 2 for Fahrenheit and 3 for Kelvin
   (`i2c.c:83-90`), `include/temperature.h:72-75` says the reverse and the server
   relies on that: the reply to `TEMPK` is labelled `K` and is in Fahrenheit.

Two more concern arithmetic alone, so they are theorems about the operators, not
runs:

6. `temperature.c:212` announces "correcting the signed bit". The correction sets
   bits 11 to 15 of a 32-bit `int`, which stays positive: by `CelsiusRight` a word
   below zero is never reported right, and by `FrostIsHot` it is logged as hot.
7. `light.c:10-11` and `light.h:90` say that the lux value follows the datasheet.
   The branches compare truth values (`0 < ADC < 0.50`, `light.c:261-280`): by
   `LuxRightWhere` the formula is that of the interval written exactly when the
   ratio of the channels is between 0.80 and 1.30.

## Proofs

Checked by `tlapm` with Z3, Zenon and LS4, for every value of the constants under
these assumptions, which TLC evaluates on each instance:

* `BusAssumption`, `CallsAssumption`: `NoOne` is no thread; `MaxFds` is a natural number.
* `PipelineAssumption`: a handler has one sensor; finitely many handlers; capacity
  positive.
* `TimingAssumption`: natural numbers; periods plus latencies fit into the timeout.
* `ServerAssumption`: the server may read both sensors; finitely many clients; the
  words are twelve-bit, channel 0 is not zero.
* `KernelAssumption`, `LoggerAssumption`: the application's four tasks and their
  priorities; the numbers are positive. The theorems about the application assume
  `Unhurried` besides: a period of more than 21 ticks and a mutex wait of at least
  19, where the code has 100 (`Homework5/HW5/init.c:62`) and 20
  (`Homework5/HW5/mythread.c:50`).
* `QueueAssumption`, `SharedAssumption`, `PipeAssumption`, `SocketAssumption`: at least
  one round; what a killed run left is a sequence of messages, a natural number.

| module | theorem | statement |
|---|---|---|
| `SensorBusProofs` | `TypeCorrect` | `Spec => []TypeOK` |
| | `ReadingsAreOwn` | `Spec => []NoForeignData` |
| | `SelectionIsKept` | `Spec => SelectionHolds` |
| `SensorBusFailureProofs` | `FailuresHaveReasons` | `Spec => []FailureExplained` |
| | `LockLeaksOnce` | `Spec => []OnlyIdPathKeepsLock` |
| | `ImplementsCalls` | `Spec => Calls_Spec` |
| `LogPipelineProofs` | `TypeCorrect` | `Spec => []TypeOK` (so no queue exceeds its capacity) |
| | `LoggerNeverWaits` | `Spec => []ReceiveNeverBlocks` |
| | `ImplementsChannel` | `Spec => Channel_Spec` |
| `LogPipelineSerialProofs` | `OutagesLit`, `OutagesAnnounced` | `Serial` implies `Spec => []OutageLit`, `Spec => []OutageAnnounced` |
| `HeartbeatProofs` | `TypeCorrect` | `Spec => []TypeOK` |
| | `AlarmsBlameInOrder` | `Spec => []BlamedInOrder` |
| `SocketServerProofs` | `TypeCorrect` | `Spec => []TypeOK` |
| | `FrostIsHot` | the logged state is hot exactly above the threshold and below zero |
| | `UnitsSwapped` | for no word is the reply to `TEMPK` in Kelvin or that to `TEMPF` in Fahrenheit |
| | `LuxRightWhere` | the lux formula is that of the interval written exactly for ratios between 0.80 and 1.30 |
| | `CelsiusTold` | `Spec => []CelsiusTrue` |
| | `RepliesToAskers` | `Spec => []RepliesMatch` |
| | `CommandsNotDropped` | `Spec => []CommandsKept` |
| | `ClientsToldTruly` | `Spec => []ClientTold` |
| `HomeworksProofs` | `TypeCorrect` | `Spec => []TypeOK` |
| | `WrittenBeforeRead` | `Spec => []ReadsWritten` |
| | `EndsHeld` | `Spec => []PipesHeld` |
| | `QuietAfterUnload` | `Spec => []QuietWhenUnloaded` |
| | `NoDeadlock` | `Spec => []NeverBothWait`: parent and child of `msg.c` |
| `RtosLoggerProofs` | `TypeCorrect` | `Unhurried` implies `Spec => []TypeOK`, and so for all of this module |
| | `SendersHoldTheMutex` | `Spec => []GivenByHolder` |
| | `AlertsGoFirst`, `AlertsGoAhead` | `Spec => []AlertFirst`, `Spec => []AlertUnhindered` |
| | `GivesAreTaken`, `ExchangesAreUncut` | `Spec => NoGiveLost`, `Spec => ExchangeUncut` |
| | `ExpiriesFindAllAsleep` | an expiry finds all senders blocked on what wakes them |
| | `TakesSucceed` | no take of `sync_mutex` runs into its timeout |

*SensorBus.* `NoForeignData` speaks of callers that have returned and is not
inductive. The invariant adds: whoever is inside owns the lock (`Holder`, hence
only one is inside), the descriptor is bound to that caller's device from the
successful `I2C_init` on (`Bound`), the device's pointer is the register selected
while at `transfer` (`Selected`), and `got` is exactly the registers of the
exchanges already done, as long as no channel was given up (`Gathered`).
`SelectionHolds` follows from `Holder` alone: another caller's step that touches
`file` or `pointer` needs the lock.

*Failures of the bus.* `FailureExplained` too speaks of calls that are over. `Excused`
follows a call: a device silent now has been noted as silent by every call under
way (`Watched`), a channel was given up only because of that (`Noticed`), a status
that says failure has its reason from the step that set it (`Reasoned`), and the
owner that is outside lost an acknowledge in `Read_Sensor_ID` (`Kept`). The
refinement to `BusCalls` maps each step of a caller by where it stands before and
after it (`PhaseMoves`, `PhaseStays`); an exchange that fails is the only one that
leaves `talking` early.

*LogPipeline.* For `ReceiveNeverBlocks` one must count. `Owed(s)` is the number of
records somebody relies on: one if the logger stands before the receive at that
queue, one if the flag is set, and one per handler between its send and its flag.
`Backed` says `Owed(s)` never exceeds the queue's length; `ClearsSet` that the
logger only clears a set flag. The count of handlers is the cardinality of a
finite set, so the proof rests on the library's theorems about adding and
removing an element. The refinement proof needs only type correctness: each
action is `Put`, `Take`, `Record` or `Die` of the channel, or leaves the queues,
the logger's hand, the log and `life` alone.

*Outages.* With overlapping handlers `OutageAnnounced` is false (divergence 3), so
these two theorems assume `Serial`: no two handler threads of one sensor. The
invariant says where the only handler of a sensor stands in an outage: `Outage(h)`.
Before its test it may have raised the counter from 0 to 1, and then owes LED and
record until it has sent; everywhere else an outage is lit and announced.

*Heartbeat.* `BlamedInOrder` says nothing of the time left. The invariant adds
`Room`: while no thread up to the one waited for was silent in this round, the
time left is at least the time to the next beat of that thread that main can
notice (a whole period while main is only about to wait, since the beat due now
may come too early) plus the slack the deadline leaves for the waits after it.

*SocketServer.* Types need `Accounts`: the descriptors spent are at least the open
connections, plus one that accept has set aside (`Costs`), and the connection
being served is open (`Serving`); counting rests on finite cardinalities.
`Provenance` (each reading sent is that of some command, from a word the sensor
held) reduces `CelsiusTrue` to arithmetic over all words, a lemma of its own. For
`RepliesMatch`, `Buffered`: a client sends once, each letter in the buffer came, in
its place, on a connection that is still open (no connection that sent something
is ever closed), and the buffer begins with what the connection being served sent.
For `CommandsKept`, `Kept`: whoever is connected, has sent a command or nothing yet
and is unanswered is in the backlog or being served; the step to watch is `Ignore`,
and `Buffered` says that the buffer then spells the command.
For `ClientTold`, `ServedOnce`: a connection stands in the backlog at most once
and unanswered, and is not taken up again.

*Homeworks.* Each exercise has its own invariant and the others' variables do not
move. `msg.c`: counting. Messages in the queue plus those taken are those left over
plus those put in (`TakenBy`, `PutBy`), and a process waits only on an empty queue;
a parent that waits has put in one more than it has taken, so both waiting would
mean a queue that is not empty. `shared.c`: until the child is through its one
`sem_wait`, only the parent raises the semaphore they share, after it wrote
(`Guarded`). `pipe.c`: what a process has moved and which ends it holds follow from
its place in its first round (`Moved`, `Holds`, `Lost_child`, `Lost_parent`), and what
is in a pipe is what one sent and the other has not read (`Carried`); a process
about to write has sent nothing, so the reader has got nothing and still holds
its end (`ReaderThere`). Socket pair:
the two take turns, five phases (`Turn_of_client` to `Over`), until accept fails.

*RtosLogger.* That nobody waits for long is a matter of time, so the invariant keeps
a budget. `Work(t)` bounds the ticks a sender needs from where it stands until it is
asleep again: its delay or its wait for room in the queue, and one for each time
the logger may get the processor before it. `Lag` is what the logger holds of the
current tick. A step between two ticks does not raise `Lag` plus the sum of the works
(`AllWork`): a task that blocks has saved the tick its lag may cost, a mutex waiter
that is woken costs what the one that gave it saved, and the alert's work has been
counted as the temperature task's until the notification. A tick that finds a
sender awake lowers the sum: delays and waits for room come closer to their end,
and if there is none, some sender is ready (who waits for the mutex waits for a task
that is, or for one that has just been woken) and the tick takes the processor
from the logger. So `InBudget`: the ticks since the expiry plus what is left never
exceed 21, hence the next expiry finds everybody asleep (`AllAsleep`) and no wait for
the mutex ends unserved (`NoTimeout`), which is why the semicolon after the `if` does
no harm. `Undisturbed` is the order of events from the expiry to the notification:
the logger is not ahead of the temperature task with anything to print, the mutex
is free, and the LED task is at its delay of two ticks before it wants it. `Placed`
ties each task's block and timeout to its place. The ready list needs only facts
about removing from and appending to a sequence without repetitions (`Dropped`,
`Joined`) and who is then elected (`Election`, `Waking`, `Ticking`). `IInv`
was model-checked as well before it was proved, with the code's numbers and with
22 and 19, the least the theorems allow.

**Model-checked only.** All liveness (`BusComesBack`, `FlagServed`,
`ShutdownCompletes`, `HangDetected`, `ExitCompletes`, `Served`, `AlertServed`,
`LedServed`, `ParentsEnd`, `ChildrenEnd`): fairness and ENABLED are beyond this prover.
Every safety
invariant, action property and refinement that a passing run checks is proved.

## What is not modelled

* **Vendored code.** Most lines of the repository are FreeRTOS, TivaWare and their
  headers under `Homework5/HW5`. The application calls a dozen of their functions;
  `RtosKernel` models what those calls do to its tasks, and nothing else of them.
* **Start-up and unit tests** (`intial_test.c`, `test_*.c`, `Unittest`): straight-line
  code in one thread, over the same exchanges. The register helpers only they use
  go with them.
* **`HW4.c`, `home3.c`, homework 2 and 1**: a letter count in one thread and a wait
  for a signal in the other, a list sorted in a module's init function, a sort
  behind a system call, a log writer, a shell script.
* **Calls that fail at start**: `mq_open`, `timer_create`, `pthread_create`, `fork`,
  `pipe`, a GPIO `fopen`. The socket thread's `socket`, `bind` and `listen` are one
  step, which may fail.
* **The end**: main destroys its mutexes after the joins, while handlers and the
  socket thread may still use them; the process ends right after.
* **Memory**: two bytes read into a one-byte buffer (`temperature.c:200`,
  `light.c:311`), records that `malloc` takes and nobody frees.
* **Numbers and wording**: the lux formulas' values (only which formula is taken),
  the rounding of `float`s, the text of the log. The BLUE activity LED.
* **The device's own view** of a data byte written in a transaction of its own (the
  drivers write command and data in two): the model takes it as the drivers mean it.
* **Logging after the end**: `msg.c` and `pipe.c` write to a log file they have
  closed (`Homework4/pipe.c:77-79`): undefined in C, and behind the last call the
  models are about.
* **Busy loops** on the plain `int exit_flag`: sound at the makefile's `-O0`; an
  optimising build could hoist the load.

## What could come next

* `SensorBus` and `Heartbeat` in one model: what a leaked `bus_lock` looks like to
  main, whose beats are sent before the sensor is read.
* A bound for `AlertServed` in ticks: `InBudget` says the alert task is asleep again
  within 21 ticks of an expiry, which leaves only its own steps to fairness.
