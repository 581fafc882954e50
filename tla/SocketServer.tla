---------------------------- MODULE SocketServer ----------------------------
(***************************************************************************)
(* The socket thread of the monitor (socket.c) with the clients that talk  *)
(* to it (client.c) and the timer handlers it shares the bus with.  One    *)
(* thread serves one connection at a time: accept, one read, at most one   *)
(* reading of a sensor, at most one reply.  A connection that sent         *)
(* something is never closed, and recieve_buffer is never cleared.         *)
(***************************************************************************)
EXTENDS BusCalls, Sequences, FiniteSets, Conversions

CONSTANTS
    Server,         \* the thread that runs socket_function
    Clients,        \* runs of the client program, or of another that connects
    Others,         \* the clients that are not client.c
    OtherWords,     \* what those may send
    NoClient,       \* result_client before the first accept
    Samples,        \* words the temperature sensor may hold
    Channels        \* pairs of light channels Read_Data may return

Handlers == Threads \ {Server}

-----------------------------------------------------------------------------
(* A word is the letters one read() brings; "x" stands for any letter that is  *)
(* in no command, NUL for a byte of the buffer nothing has been read into: it  *)
(* is what the thread's stack holds there, taken to be no letter of a command. *)
NUL == ""
Letters == {"T", "E", "M", "P", "C", "K", "F", "L", "I", "G", "H", "x", NUL}

TEMP(letter) == <<"T", "E", "M", "P", letter>>
LIGHT == <<"L", "I", "G", "H", "T">>
Commands == {TEMP("C"), TEMP("K"), TEMP("F"), LIGHT}
Typed == Commands \cup OtherWords

ASSUME ServerAssumption ==
    /\ Server \in TempUsers \cap LightUsers
    /\ IsFiniteSet(Clients)
    /\ Others \subseteq Clients
    /\ NoClient \notin Clients
    /\ OtherWords \subseteq Seq(Letters) \ { << >> }
    /\ Samples \subseteq Words
    /\ Channels \subseteq (Nat \ {0}) \X Nat

Sensor(w) == IF w = LIGHT THEN "Light" ELSE "Temper"
Unit(w) == CASE w = TEMP("C") -> 1 [] w = TEMP("K") -> 2 [] w = TEMP("F") -> 3
Label(w) == IF w = LIGHT THEN "L" ELSE w[5]

VARIABLES
    alive,          \* the monitor's process runs
    exit_flag,
    srv,            \* control point of socket_function
    conn,           \* result_client
    buffer,         \* the first five bytes of recieve_buffer
    backlog,        \* connections the kernel has completed and accept not taken
    open,           \* connections the server has accepted and not closed
    client,         \* per client: where it is
    asked,          \* per client: the word it sent
    reply,          \* per client: what was sent back
    shown,          \* per client: what it printed
    source          \* per client: the sensor's word or channels behind its reply

serverVars == <<alive, exit_flag, srv, conn, buffer, backlog, open>>
clientVars == <<client, asked, reply, shown, source>>
vars == <<callVars, serverVars, clientVars>>

NoReply == [level |-> "none", label |-> "none", value |-> 0]
ErrorReply == [level |-> "ERROR", label |-> "none", value |-> 0]
Data(label, value) == [level |-> "DATA", label |-> label, value |-> value]
Replies == {NoReply, ErrorReply} \cup [level : {"DATA"}, label : {"C", "K", "F", "L"}, value : Int]
NoSource == <<>>
Sources == {NoSource} \cup { <<s>> : s \in Samples } \cup Channels

TypeOK ==
    /\ CallTypeOK
    /\ alive \in BOOLEAN /\ exit_flag \in BOOLEAN
    /\ srv \in {"start", "top", "accepting", "reading", "dispatch", "asking", "ended"}
    /\ conn \in Clients \cup {NoClient}
    /\ buffer \in [1..5 -> Letters]
    /\ backlog \in Seq(Clients)
    /\ open \in SUBSET Clients
    /\ client \in [Clients -> {"off", "prompt", "waiting", "gone"}]
    /\ asked \in [Clients -> Typed \cup { << >> }]
    /\ reply \in [Clients -> Replies]
    /\ shown \in [Clients -> {"nothing", "DATA", "ERROR"}]
    /\ source \in [Clients -> Sources]

Init ==
    /\ CallInit
    /\ alive = TRUE
    /\ exit_flag = FALSE
    /\ srv = "start"
    /\ conn = NoClient
    /\ buffer = [i \in 1..5 |-> NUL]
    /\ backlog = << >>
    /\ open = {}
    /\ client = [c \in Clients |-> "off"]
    /\ asked = [c \in Clients |-> << >>]
    /\ reply = [c \in Clients |-> NoReply]
    /\ shown = [c \in Clients |-> "nothing"]
    /\ source = [c \in Clients |-> NoSource]
-----------------------------------------------------------------------------
(* The server thread *)

Serve(from, to) == alive /\ srv = from /\ srv' = to

(* exit(1) in any thread ends the whole monitor. *)
Exit ==
    /\ alive' = FALSE
    /\ UNCHANGED <<callVars, exit_flag, srv, conn, buffer, backlog, open, clientVars>>

(* socket, bind and listen: each failure is an exit(1).  bind fails while the  *)
(* port is in use, which it stays for a while after an earlier run.            *)
Start ==
    \/ /\ Serve("start", "top")
       /\ UNCHANGED <<callVars, alive, exit_flag, conn, buffer, backlog, open, clientVars>>
    \/ alive /\ srv = "start" /\ Exit

(* Mutated: the result of accept is not looked at. *)
Call_accept_unchecked ==
    /\ ~exit_flag
    /\ Serve("top", "accepting")
    /\ fds' = fds + 1
    /\ UNCHANGED <<lock, phase, call, ret, alive, exit_flag, conn, buffer, backlog, open,
                   clientVars>>

(* The loop test, and the call of accept: the kernel sets a descriptor aside   *)
(* before it waits for a connection, and fails at once when none is left.      *)
Call_accept ==
    /\ ~exit_flag
    /\ \/ /\ fds < MaxFds
          /\ Serve("top", "accepting")
          /\ fds' = fds + 1
          /\ UNCHANGED <<lock, phase, call, ret, alive, exit_flag, conn, buffer, backlog,
                         open, clientVars>>
       \/ fds = MaxFds /\ alive /\ srv = "top" /\ Exit

Loop_ends ==
    /\ exit_flag
    /\ Serve("top", "ended")
    /\ UNCHANGED <<callVars, alive, exit_flag, conn, buffer, backlog, open, clientVars>>

Accept ==
    /\ Serve("accepting", "reading")
    /\ backlog # << >>
    /\ conn' = Head(backlog)
    /\ backlog' = Tail(backlog)
    /\ open' = open \cup {Head(backlog)}
    /\ UNCHANGED <<callVars, alive, exit_flag, buffer, clientVars>>

(* Mutated: the buffer is cleared, but after the read. *)
Read_some_cleared ==
    /\ Serve("reading", "dispatch")
    /\ asked[conn] # << >>
    /\ buffer' = [i \in 1..5 |-> NUL]
    /\ UNCHANGED <<callVars, alive, exit_flag, conn, backlog, open, clientVars>>

(* read() brings the client's bytes and overwrites as many of recieve_buffer;  *)
(* those behind them stay as earlier connections have left them.               *)
Read_some ==
    /\ Serve("reading", "dispatch")
    /\ asked[conn] # << >>
    /\ buffer' = [i \in 1..5 |-> IF i <= Len(asked[conn]) THEN asked[conn][i] ELSE buffer[i]]
    /\ UNCHANGED <<callVars, alive, exit_flag, conn, backlog, open, clientVars>>

(* read() brings nothing: the client left without a word. *)
Read_nothing ==
    /\ Serve("reading", "top")
    /\ asked[conn] = << >> /\ client[conn] = "gone"
    /\ open' = open \ {conn}
    /\ fds' = fds - 1
    /\ UNCHANGED <<lock, phase, call, ret, alive, exit_flag, conn, buffer, backlog, clientVars>>

(* Mutated: four letters of the buffer are compared, not five. *)
Spelled_by_four == { w \in Commands : \A i \in 1..4 : buffer[i] = w[i] }

(* The command the first five letters of recieve_buffer spell, if any. *)
Spelled == { w \in Commands : buffer = w }

(* The strncmp chain: one of the four commands starts a reading ... *)
Dispatch ==
    /\ Serve("dispatch", "asking")
    /\ \E w \in Spelled : Begin(Server, Sensor(w))
    /\ UNCHANGED <<alive, exit_flag, conn, buffer, backlog, open, clientVars>>

(* ... and anything else is dropped, without a reply and without a close. *)
Ignore ==
    /\ Serve("dispatch", "top")
    /\ Spelled = {}
    /\ UNCHANGED <<callVars, alive, exit_flag, conn, buffer, backlog, open, clientVars>>

(* Mutated: a reading that failed is not answered. *)
Send_error_silent ==
    /\ Serve("asking", "top")
    /\ phase[Server] = "idle"
    /\ ret[Server] = "EXIT_FAILURE"
    /\ UNCHANGED <<callVars, alive, exit_flag, conn, buffer, backlog, open, clientVars>>

(* The reading failed: level is ERROR and the rest of the reply unset. *)
Send_error ==
    /\ Serve("asking", "top")
    /\ phase[Server] = "idle"
    /\ ret[Server] = "EXIT_FAILURE"
    /\ reply' = [reply EXCEPT ![conn] = ErrorReply]
    /\ UNCHANGED <<callVars, alive, exit_flag, conn, buffer, backlog, open,
                   client, asked, shown, source>>

(* Label and value of the command in the buffer. *)
Fill_reply ==
    \E w \in Spelled :
          IF Sensor(w) = "Temper"
          THEN \E s \in Samples :
                  /\ reply' = [reply EXCEPT ![conn] = Data(Label(w), Read_Temperature(s, Unit(w)))]
                  /\ source' = [source EXCEPT ![conn] = <<s>>]
          ELSE \E ch \in Channels :
                  /\ reply' = [reply EXCEPT ![conn] = Data(Label(w), Lux_branch(ch[1], ch[2]))]
                  /\ source' = [source EXCEPT ![conn] = ch]

(* The reading succeeded. *)
Send_data ==
    /\ Serve("asking", "top")
    /\ phase[Server] = "idle"
    /\ ret[Server] = "EXIT_SUCCESS"
    /\ Fill_reply
    /\ UNCHANGED <<callVars, alive, exit_flag, conn, buffer, backlog, open,
                   client, asked, shown>>

Read_sensor == alive /\ Work(Server) /\ UNCHANGED <<serverVars, clientVars>>

Socket_thread ==
    \/ Start \/ Call_accept \/ Loop_ends \/ Accept \/ Read_some \/ Read_nothing
    \/ Dispatch \/ Ignore \/ Read_sensor \/ Send_error \/ Send_data
-----------------------------------------------------------------------------
(* The rest of the monitor *)

Handler_starts(t) ==
    /\ alive
    /\ \E s \in Sensors : Begin(t, s)
    /\ UNCHANGED <<serverVars, clientVars>>

Handler_works(t) == alive /\ Work(t) /\ UNCHANGED <<serverVars, clientVars>>

(* SIGINT, or an alarm of main. *)
Exit_requested ==
    /\ alive /\ ~exit_flag
    /\ exit_flag' = TRUE
    /\ UNCHANGED <<callVars, alive, srv, conn, buffer, backlog, open, clientVars>>

(* main returns after its joins; it does not join the socket thread. *)
Monitor_ends == alive /\ exit_flag /\ Exit
-----------------------------------------------------------------------------
(* The clients *)

Client_at(c, from, to) == client[c] = from /\ client' = [client EXCEPT ![c] = to]

(* connect: the kernel completes it, whether or not accept has been called. *)
Connect(c) ==
    /\ alive /\ srv # "start"
    /\ Client_at(c, "off", "prompt")
    /\ backlog' = Append(backlog, c)
    /\ UNCHANGED <<callVars, alive, exit_flag, srv, conn, buffer, open,
                   asked, reply, shown, source>>

(* Nobody listens: the client does not look at what connect returned and ends  *)
(* on the SIGPIPE of its send.                                                 *)
Connect_refused(c) ==
    /\ ~alive \/ srv = "start"
    /\ Client_at(c, "off", "gone")
    /\ UNCHANGED <<callVars, serverVars, asked, reply, shown, source>>

(* A word is typed and sent; client.c sends commands only. *)
Send(c, w) ==
    /\ w \in IF c \in Others THEN OtherWords ELSE Commands
    /\ Client_at(c, "prompt", "waiting")
    /\ asked' = [asked EXCEPT ![c] = w]
    /\ UNCHANGED <<callVars, serverVars, reply, shown, source>>

(* What was typed is not a command: the client says so and exits. *)
Give_up(c) ==
    /\ Client_at(c, "prompt", "gone")
    /\ UNCHANGED <<callVars, serverVars, asked, reply, shown, source>>

(* Mutated: the level of the reply is not tested. *)
Receive_untested(c) ==
    /\ reply[c] # NoReply
    /\ Client_at(c, "waiting", "gone")
    /\ shown' = [shown EXCEPT ![c] = "DATA"]
    /\ UNCHANGED <<callVars, serverVars, asked, reply, source>>

(* recv returns the reply. *)
Receive(c) ==
    /\ reply[c] # NoReply
    /\ Client_at(c, "waiting", "gone")
    /\ shown' = [shown EXCEPT ![c] = reply[c].level]
    /\ UNCHANGED <<callVars, serverVars, asked, reply, source>>

(* The monitor is gone: recv fails, or returns 0, which client.c takes for a   *)
(* message and prints from a msg it never received.                            *)
Receive_end(c) ==
    /\ ~alive /\ reply[c] = NoReply
    /\ Client_at(c, "waiting", "gone")
    /\ \E x \in {"nothing", "DATA", "ERROR"} : shown' = [shown EXCEPT ![c] = x]
    /\ UNCHANGED <<callVars, serverVars, asked, reply, source>>

Client_runs(c) == Receive(c) \/ Receive_end(c)
Client_types(c) ==
    \/ Connect(c)
    \/ Connect_refused(c)
    \/ Give_up(c)
    \/ \E w \in Typed : Send(c, w)

Next ==
    \/ Socket_thread
    \/ \E t \in Handlers : Handler_starts(t) \/ Handler_works(t)
    \/ Exit_requested
    \/ Monitor_ends
    \/ \E c \in Clients : Client_types(c) \/ Client_runs(c)

Spec == Init /\ [][Next]_vars

(* Threads and processes that can run do; nobody is obliged to type.  A        *)
(* handler holds the bus for milliseconds and starts once in seconds, so the   *)
(* server is not overtaken at bus_lock for ever.                               *)
FairSpec ==
    /\ Spec
    /\ WF_vars(Socket_thread)
    /\ SF_vars(Read_sensor)
    /\ \A t \in Handlers : WF_vars(Handler_works(t))
    /\ \A c \in Clients : WF_vars(Client_runs(c))
-----------------------------------------------------------------------------
(* Properties *)

Answered(c) == reply[c].level = "DATA"
Reading(c) == reply[c].label \in {"C", "K", "F"}

(* A reading goes to the client that asked for it: the label of a reply is     *)
(* that of a command its client sent, or sent a beginning of.  In the second   *)
(* case the letters it did not send came on other connections, still open, in  *)
(* the same places of their words; so a client that sent five letters or more  *)
(* got the reading of its own command.                                         *)
RepliesMatch ==
    \A c \in Clients : Answered(c) =>
        \E w \in Commands :
            /\ reply[c].label = Label(w)
            /\ asked[c] # << >>
            /\ \A i \in 1..5 :
                  IF i <= Len(asked[c])
                  THEN asked[c][i] = w[i]
                  ELSE \E d \in open \ {c} : i <= Len(asked[d]) /\ asked[d][i] = w[i]

(* No command is dropped: while the monitor lives, a client that sent one and  *)
(* has no reply yet is waiting in the backlog or is the one being served,      *)
(* whatever was in recieve_buffer before and whoever came in between.          *)
CommandsKept ==
    \A c \in Clients :
        alive /\ client[c] = "waiting" /\ asked[c] \in Commands /\ reply[c] = NoReply =>
            \/ \E i \in 1..Len(backlog) : backlog[i] = c
            \/ c = conn /\ srv \in {"reading", "dispatch", "asking"}

(* A reading labelled C is the temperature the sensor held, through the choice *)
(* of the command, its unit and the correction of the word, for every word not *)
(* below zero.                                                                 *)
CelsiusTrue ==
    \A c \in Clients : Answered(c) /\ reply[c].label = "C" /\ source[c][1] < 2048 =>
        reply[c].value = Measured(source[c][1])

(* A client prints the reply that was sent to it, or it was still waiting when *)
(* the monitor ended: recv then returns 0, which client.c does not tell from a *)
(* reply, and what it prints was never received.                               *)
ClientTold ==
    \A c \in Clients : shown[c] # "nothing" =>
        shown[c] = reply[c].level \/ (reply[c] = NoReply /\ ~alive)

(* A client that sent a command is answered, unless the monitor ends, bus_lock *)
(* was lost by a failed light reading, or the server stays in read() with a    *)
(* client that does not type: one silent connection holds up all others.       *)
Stalled == srv = "reading" /\ client[conn] = "prompt"
BusLost == lock # NoOne /\ phase[lock] \in {"idle", "waiting"}
Served ==
    []<>~Stalled =>
        \A c \in Clients :
            asked[c] \in Commands ~> reply[c] # NoReply \/ ~alive \/ exit_flag \/ BusLost

(* The units of temp_main, temperature.h:72-75 "1 - celsius, 2 - Kelvin,       *)
(* 3 - Farheniet": a temperature is right in the unit its reply names.         *)
UnitsAsNamed ==
    \A c \in Clients : Answered(c) /\ Reading(c) =>
        reply[c].value = InUnit(source[c][1], reply[c].label)
=============================================================================
