--------------------------- MODULE QueueExchange ---------------------------
(***************************************************************************)
(* Homework 4, msg.c: parent and child exchange messages over one POSIX    *)
(* queue that both of them send to and receive from.  Every round opens    *)
(* the queue again; the parent removes its name at the end.                *)
(***************************************************************************)
EXTENDS Naturals, Sequences

CONSTANTS
    QRounds,        \* rounds of each loop (10 in the code)
    Leftovers       \* what a run that was killed may have left in the queue

Peers == {"parent", "child"}

ASSUME QueueAssumption ==
    /\ QRounds \in Nat \ {0}
    /\ Leftovers \subseteq Seq(Peers)

VARIABLES
    q,          \* the messages in the queue: their senders
    q_linked,   \* /msg_queue still names that queue
    q_fresh,    \* the child has opened a queue made after the unlink
    q_at,       \* per process: where it is
    q_round,    \* per process: rounds it has finished
    q_own,      \* messages of its own the parent took back
    q_left      \* messages an earlier run left behind

queueVars == <<q, q_linked, q_fresh, q_at, q_round, q_own, q_left>>

QueueTypeOK ==
    /\ q \in Seq(Peers)
    /\ q_linked \in BOOLEAN /\ q_fresh \in BOOLEAN
    /\ q_at \in [Peers -> {"open", "send", "receive", "waiting", "close", "ended"}]
    /\ q_round \in [Peers -> 0..QRounds]
    /\ q_own \in 0..QRounds
    /\ q_left \in Nat

QueueInit ==
    /\ q \in Leftovers
    /\ q_linked = TRUE
    /\ q_fresh = FALSE
    /\ q_at = [p \in Peers |-> "open"]
    /\ q_round = [p \in Peers |-> 0]
    /\ q_own = 0
    /\ q_left = Len(q)

(* Mutated: both processes receive first. *)
Order_alike(p) == <<"receive", "send">>

(* The two calls of a round. *)
Order(p) == IF p = "parent" THEN <<"send", "receive">> ELSE <<"receive", "send">>
First(p) == Order(p)[1]
Second(p) == Order(p)[2]
Other(p) == IF p = "parent" THEN "child" ELSE "parent"

(* Where p is after a call of its loop, and how many rounds it has finished. *)
After(p, step) ==
    IF step = First(p) THEN Second(p) ELSE IF q_round[p] + 1 = QRounds THEN "close" ELSE "open"
Rounds(p, step) == IF step = First(p) THEN q_round[p] ELSE q_round[p] + 1

(* mq_open(..., O_CREAT): after the unlink it makes another queue, which only  *)
(* the child can still open.                                                   *)
Open(p) ==
    /\ q_at[p] = "open"
    /\ q_at' = [q_at EXCEPT ![p] = First(p)]
    /\ q_fresh' = (q_fresh \/ ~q_linked)
    /\ UNCHANGED <<q, q_linked, q_round, q_own, q_left>>

(* mq_send: the message goes straight to the other process if it is waiting.   *)
(* Two messages more than were left over never fill the queue.                 *)
Queue_send(p) ==
    /\ q_at[p] = "send"
    /\ IF q_at[Other(p)] = "waiting" /\ ~q_fresh
       THEN /\ q_at' = [q_at EXCEPT ![p] = After(p, "send"),
                            ![Other(p)] = After(Other(p), "receive")]
            /\ q_round' = [x \in Peers |-> Rounds(x, IF x = p THEN "send" ELSE "receive")]
            /\ UNCHANGED q
       ELSE /\ q' = Append(q, p)
            /\ q_at' = [q_at EXCEPT ![p] = After(p, "send")]
            /\ q_round' = [q_round EXCEPT ![p] = Rounds(p, "send")]
    /\ UNCHANGED <<q_linked, q_fresh, q_own, q_left>>

(* mq_receive takes the oldest message, or waits for one. *)
Queue_receive(p) ==
    /\ q_at[p] = "receive"
    /\ IF q = << >> \/ (p = "child" /\ q_fresh)
       THEN /\ q_at' = [q_at EXCEPT ![p] = "waiting"]
            /\ UNCHANGED <<q, q_round, q_own>>
       ELSE /\ q' = Tail(q)
            /\ q_own' = IF p = "parent" /\ Head(q) = p THEN q_own + 1 ELSE q_own
            /\ q_at' = [q_at EXCEPT ![p] = After(p, "receive")]
            /\ q_round' = [q_round EXCEPT ![p] = Rounds(p, "receive")]
    /\ UNCHANGED <<q_linked, q_fresh, q_left>>

(* mq_close; the parent removes the name too. *)
Queue_close(p) ==
    /\ q_at[p] = "close"
    /\ q_at' = [q_at EXCEPT ![p] = "ended"]
    /\ q_linked' = (q_linked /\ p # "parent")
    /\ UNCHANGED <<q, q_fresh, q_round, q_own, q_left>>

QueueStep(p) == Open(p) \/ Queue_send(p) \/ Queue_receive(p) \/ Queue_close(p)
QueueNext == \E p \in Peers : QueueStep(p)
=============================================================================
