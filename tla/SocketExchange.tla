--------------------------- MODULE SocketExchange ---------------------------
(***************************************************************************)
(* Homework 4, socket_server.c and socket_client.c: the client writes and  *)
(* reads, the server reads and writes, in as many rounds, over one         *)
(* connection.  No call's failure stops either program.  The server hands  *)
(* accept an address length that was never set (line 63 subtracts where it *)
(* should assign), so accept may fail after it has taken the connection.   *)
(***************************************************************************)
EXTENDS Naturals, Sequences

CONSTANT NRounds    \* rounds of each loop (10 in the code)

ASSUME SocketAssumption == NRounds \in Nat \ {0}

Hosts == {"server", "client"}

VARIABLES
    n_port,     \* the port the server listens on
    n_linked,   \* connect has succeeded
    n_con,      \* what accept returned: not yet, a connection, or an error
    n_wire,     \* per writer: messages on their way, as the rounds they are of
    n_at,       \* per program: where it is
    n_round,    \* per program: rounds it has finished
    n_astray,   \* a read brought the message of another round
    n_empty     \* a read of the client brought none

socketVars == <<n_port, n_linked, n_con, n_wire, n_at, n_round, n_astray, n_empty>>

SocketTypeOK ==
    /\ n_port \in {"none", "9999", "other"}
    /\ n_linked \in BOOLEAN
    /\ n_con \in {"none", "open", "failed"}
    /\ n_wire \in [Hosts -> Seq(Nat)]
    /\ n_at \in [Hosts -> {"start", "accept", "read", "write", "ended", "killed"}]
    /\ n_round \in [Hosts -> 0..NRounds]
    /\ n_astray \in BOOLEAN /\ n_empty \in BOOLEAN

SocketInit ==
    /\ n_port = "none"
    /\ n_linked = FALSE
    /\ n_con = "none"
    /\ n_wire = [x \in Hosts |-> << >>]
    /\ n_at = [x \in Hosts |-> "start"]
    /\ n_round = [x \in Hosts |-> 0]
    /\ n_astray = FALSE
    /\ n_empty = FALSE

Net_go(x, from, to) == n_at[x] = from /\ n_at' = [n_at EXCEPT ![x] = to]

(* The second call of a round, and what comes after it. *)
Round_over(x, call, first) ==
    /\ Net_go(x, call, IF n_round[x] + 1 = NRounds THEN "ended" ELSE first)
    /\ n_round' = [n_round EXCEPT ![x] = @ + 1]

(* socket, bind and listen.  A bind that fails is not looked at: the socket    *)
(* then listens on a port of the kernel's choice.                              *)
Net_listen ==
    /\ Net_go("server", "start", "accept")
    /\ n_port' \in {"9999", "other"}
    /\ UNCHANGED <<n_linked, n_con, n_wire, n_round, n_astray, n_empty>>

(* connect succeeds if the server listens on its port. *)
Net_connect ==
    /\ Net_go("client", "start", "write")
    /\ n_linked' = (n_port = "9999")
    /\ UNCHANGED <<n_port, n_con, n_wire, n_round, n_astray, n_empty>>

(* accept waits for the client.  It closes the connection again and fails when *)
(* the length it finds in clilen is negative.                                  *)
Net_accept ==
    /\ n_linked
    /\ Net_go("server", "accept", "read")
    /\ n_con' \in {"open", "failed"}
    /\ UNCHANGED <<n_port, n_linked, n_wire, n_round, n_astray, n_empty>>

(* A read takes the oldest message from the other program. *)
Takes(other, reader) ==
    /\ n_wire[other] # << >>
    /\ n_wire' = [n_wire EXCEPT ![other] = Tail(@)]
    /\ n_astray' = (n_astray \/ Head(n_wire[other]) # n_round[reader])

(* read and write of con -1 are errors; the client closes after its last       *)
(* reply, so otherwise the server never meets a closed connection.             *)
Server_reads ==
    /\ Net_go("server", "read", "write")
    /\ \/ n_con = "open" /\ Takes("client", "server")
       \/ n_con = "failed" /\ UNCHANGED <<n_wire, n_astray>>
    /\ UNCHANGED <<n_port, n_linked, n_con, n_round, n_empty>>

Server_writes ==
    /\ Round_over("server", "write", "read")
    /\ n_wire' = IF n_con = "open"
                 THEN [n_wire EXCEPT !["server"] = Append(@, n_round["server"])] ELSE n_wire
    /\ UNCHANGED <<n_port, n_linked, n_con, n_astray, n_empty>>

(* A write to a connection the server's kernel has closed succeeds, until the  *)
(* answer to an earlier one has come back.                                     *)
Client_writes ==
    /\ Net_go("client", "write", "read")
    /\ n_linked
    /\ n_wire' = [n_wire EXCEPT !["client"] = Append(@, n_round["client"])]
    /\ UNCHANGED <<n_port, n_linked, n_con, n_round, n_astray, n_empty>>

(* Then, and without a connection, SIGPIPE ends the client. *)
Client_killed ==
    /\ Net_go("client", "write", "killed")
    /\ ~n_linked \/ (n_con = "failed" /\ n_round["client"] > 0)
    /\ UNCHANGED <<n_port, n_linked, n_con, n_wire, n_round, n_astray, n_empty>>

(* The end of the connection, or its reset, is as good as a message: what read *)
(* returns is only tested for an error message.                                *)
Client_reads ==
    /\ Round_over("client", "read", "write")
    /\ \/ Takes("server", "client") /\ UNCHANGED n_empty
       \/ /\ n_wire["server"] = << >>
          /\ n_con = "failed" \/ n_at["server"] = "ended"
          /\ n_empty' = TRUE
          /\ UNCHANGED <<n_wire, n_astray>>
    /\ UNCHANGED <<n_port, n_linked, n_con>>

Server_step == Net_listen \/ Net_accept \/ Server_reads \/ Server_writes
Client_step == Net_connect \/ Client_writes \/ Client_killed \/ Client_reads
SocketNext == Server_step \/ Client_step
=============================================================================
