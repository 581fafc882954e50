----------------------------- MODULE Homeworks -----------------------------
(***************************************************************************)
(* The concurrent exercises of homework 3 and 4 side by side: a behaviour  *)
(* runs one of them.                                                       *)
(***************************************************************************)
EXTENDS QueueExchange, SharedExchange, PipeExchange, SocketExchange, TimerModule

VARIABLE program

Programs == {"msg", "shared", "pipe", "socket", "kernel_module"}

vars == <<program, queueVars, sharedVars, pipeVars, socketVars, timerVars>>

TypeOK ==
    /\ program \in Programs
    /\ QueueTypeOK /\ SharedTypeOK /\ PipeTypeOK /\ SocketTypeOK /\ TimerTypeOK

Init ==
    /\ program \in Programs
    /\ QueueInit /\ SharedInit /\ PipeInit /\ SocketInit /\ TimerInit
    /\ q_left > 0 => program = "msg"
    /\ s_old => program = "shared"

Msg(p) ==
    /\ program = "msg" /\ QueueStep(p)
    /\ UNCHANGED <<program, sharedVars, pipeVars, socketVars, timerVars>>
Shared(step) ==
    /\ program = "shared" /\ step
    /\ UNCHANGED <<program, queueVars, pipeVars, socketVars, timerVars>>
Pipe(p) ==
    /\ program = "pipe" /\ PipeStep(p)
    /\ UNCHANGED <<program, queueVars, sharedVars, socketVars, timerVars>>
Socket(step) ==
    /\ program = "socket" /\ step
    /\ UNCHANGED <<program, queueVars, sharedVars, pipeVars, timerVars>>
Kernel(step) ==
    /\ program = "kernel_module" /\ step
    /\ UNCHANGED <<program, queueVars, sharedVars, pipeVars, socketVars>>

Next ==
    \/ \E p \in Peers : Msg(p) \/ Pipe(p)
    \/ Shared(SharedNext)
    \/ Socket(SocketNext)
    \/ Kernel(TimerNext)

Spec == Init /\ [][Next]_vars

(* Every process that can run does; nobody has to load or unload the module.   *)
FairSpec ==
    /\ Spec
    /\ \A p \in Peers : WF_vars(Msg(p)) /\ WF_vars(Pipe(p))
    /\ WF_vars(Shared(Parent_step)) /\ WF_vars(Shared(Child_step))
    /\ WF_vars(Socket(Server_step)) /\ WF_vars(Socket(Client_step))
    /\ WF_vars(Kernel(Expires \/ Callback))
-----------------------------------------------------------------------------
(* The parents of the exchanges end, whoever takes which message or post: each *)
(* puts one in before it takes one out, and the child never takes more than it *)
(* gives back.  socket_server.c ends unless its client never got a connection: *)
(* it then waits in accept.                                                    *)
ParentsEnd ==
    <>(CASE program = "msg" -> q_at["parent"] = "ended"
         [] program = "shared" -> s_at["parent"] = "ended"
         [] program = "pipe" -> p_round["parent"] = PRounds
         [] program = "socket" -> \/ n_at["server"] = "ended"
                                  \/ n_at["client"] = "killed" /\ ~n_linked
         [] OTHER -> TRUE)

(* A child is left waiting for ever for one reason only: its parent took back  *)
(* what it had put in for the child (in msg.c, or took what an earlier run had *)
(* left; in shared.c, in every round).  socket_client.c always ends, at the    *)
(* latest by SIGPIPE.                                                          *)
ChildrenEnd ==
    <>(CASE program = "msg" -> q_at["child"] = "ended" \/ q_own > 0 \/ q_left > 0
         [] program = "shared" -> s_at["child"] = "ended" \/ s_own = SRounds
         [] program = "pipe" -> p_round["child"] = PRounds
         [] program = "socket" -> n_at["client"] \in {"ended", "killed"}
         [] OTHER -> TRUE)

(* What is read was written.  The child of shared.c reads memory that nobody   *)
(* has written only if a run that was killed left the semaphore up; the reads  *)
(* of the socket programs bring the message of their own round, or none if     *)
(* accept has failed.                                                          *)
ReadsWritten ==
    /\ \A p \in Sides : s_read[p] = "zero" => p = "child" /\ s_old
    /\ ~n_astray /\ (n_empty => n_con = "failed")

(* The two processes of pipe.c close the ends they hold at their own pace, and *)
(* yet neither takes one away too early: a write that goes through finds the   *)
(* reading end held, or SIGPIPE would end the writer, and whoever has finished *)
(* a round has got a message, and not the end of the file.                     *)
PipesHeld ==
    \A p \in Forked :
        /\ p_round[p] > 0 => p_got[p] > 0
        /\ p_round[p] < PRounds /\ This(p)[1] = "write" /\ End(p) \in p_open[p] =>
              \E x \in Forked : <<Out(p), 0>> \in p_open[x]

(* The timer fires in an unloaded module only if del_timer met a callback that *)
(* was running.                                                                *)
QuietWhenUnloaded ==
    k_module = "unloaded" /\ (k_armed \/ k_callback # "idle") => k_overlap
=============================================================================
