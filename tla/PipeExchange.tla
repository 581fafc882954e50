---------------------------- MODULE PipeExchange ----------------------------
(***************************************************************************)
(* Homework 4, pipe.c: the parent writes to fd1 and reads from fd2, the    *)
(* child the other way round.  Both close the four ends they hold inside   *)
(* their loop, so every round after the first calls read and write on      *)
(* closed descriptors.                                                     *)
(***************************************************************************)
EXTENDS Naturals

CONSTANT PRounds    \* rounds of each loop (10 in the code)

ASSUME PipeAssumption == PRounds \in Nat \ {0}

Pipes == {"fd1", "fd2"}
Ends == Pipes \X {0, 1}
Forked == {"parent", "child"}
In(p) == IF p = "child" THEN "fd1" ELSE "fd2"       \* the pipe p reads
Out(p) == IF p = "child" THEN "fd2" ELSE "fd1"      \* the pipe p writes

VARIABLES
    p_data,     \* messages in each pipe
    p_open,     \* per process: the ends it has not closed
    p_at,       \* per process: the next call of its loop
    p_round,    \* per process: rounds it has finished
    p_got,      \* per process: messages its reads have brought
    p_sent      \* per process: messages its writes have sent

pipeVars == <<p_data, p_open, p_at, p_round, p_got, p_sent>>

(* Mutated: the child closes the reading end of fd1, not the writing end, and  *)
(* the other way round after its read.                                         *)
Calls_of_swapped(p) ==
    IF p = "child"
    THEN << <<"close", "fd1", 0>>, <<"read", "fd1", 0>>, <<"close", "fd1", 1>>,
            <<"close", "fd2", 0>>, <<"write", "fd2", 1>>, <<"close", "fd2", 1>> >>
    ELSE << <<"close", "fd1", 0>>, <<"write", "fd1", 1>>, <<"close", "fd1", 1>>,
            <<"close", "fd2", 1>>, <<"read", "fd2", 0>>, <<"close", "fd2", 0>> >>

(* The calls of a round: close, move data, and close. *)
Calls_of(p) ==
    IF p = "child"
    THEN << <<"close", "fd1", 1>>, <<"read", "fd1", 0>>, <<"close", "fd1", 0>>,
            <<"close", "fd2", 0>>, <<"write", "fd2", 1>>, <<"close", "fd2", 1>> >>
    ELSE << <<"close", "fd1", 0>>, <<"write", "fd1", 1>>, <<"close", "fd1", 1>>,
            <<"close", "fd2", 1>>, <<"read", "fd2", 0>>, <<"close", "fd2", 0>> >>
This(p) == Calls_of(p)[p_at[p]]
End(p) == <<This(p)[2], This(p)[3]>>

PipeTypeOK ==
    /\ p_data \in [Pipes -> Nat]
    /\ p_open \in [Forked -> SUBSET Ends]
    /\ p_at \in [Forked -> 1..6]
    /\ p_round \in [Forked -> 0..PRounds]
    /\ p_got \in [Forked -> 0..PRounds]
    /\ p_sent \in [Forked -> 0..PRounds]

PipeInit ==
    /\ p_data = [x \in Pipes |-> 0]
    /\ p_open = [p \in Forked |-> Ends]
    /\ p_at = [p \in Forked |-> 1]
    /\ p_round = [p \in Forked |-> 0]
    /\ p_got = [p \in Forked |-> 0]
    /\ p_sent = [p \in Forked |-> 0]

(* Mutated: the loop does not end. *)
Does_past_end(p, f) ==
    /\ This(p)[1] = f
    /\ p_at' = [p_at EXCEPT ![p] = IF @ = 6 THEN 1 ELSE @ + 1]
    /\ p_round' = [p_round EXCEPT ![p] = IF p_at[p] = 6 THEN @ + 1 ELSE @]

(* The next call is f, and control goes on behind it. *)
Does(p, f) ==
    /\ p_round[p] < PRounds
    /\ This(p)[1] = f
    /\ p_at' = [p_at EXCEPT ![p] = IF @ = 6 THEN 1 ELSE @ + 1]
    /\ p_round' = [p_round EXCEPT ![p] = IF p_at[p] = 6 THEN @ + 1 ELSE @]

(* close: of an end already closed it is an error nobody looks at. *)
Pipe_close(p) ==
    /\ Does(p, "close")
    /\ p_open' = [p_open EXCEPT ![p] = @ \ {End(p)}]
    /\ UNCHANGED <<p_data, p_got, p_sent>>

(* read: from a closed end an error; a message; from an empty pipe that nobody *)
(* holds the writing end of, the end of the file; otherwise it waits.          *)
Pipe_read(p) ==
    /\ Does(p, "read")
    /\ IF End(p) \in p_open[p] /\ p_data[In(p)] > 0
       THEN /\ p_data' = [p_data EXCEPT ![In(p)] = @ - 1]
            /\ p_got' = [p_got EXCEPT ![p] = @ + 1]
       ELSE /\ End(p) \in p_open[p] => \A x \in Forked : <<In(p), 1>> \notin p_open[x]
            /\ UNCHANGED <<p_data, p_got>>
    /\ UNCHANGED <<p_open, p_sent>>

(* write: to a closed end an error.  SIGPIPE, for a pipe nobody holds the      *)
(* reading end of, does not occur: PipesHeld of Homeworks.                     *)
Pipe_write(p) ==
    /\ Does(p, "write")
    /\ IF End(p) \in p_open[p]
       THEN /\ p_data' = [p_data EXCEPT ![Out(p)] = @ + 1]
            /\ p_sent' = [p_sent EXCEPT ![p] = @ + 1]
       ELSE UNCHANGED <<p_data, p_sent>>
    /\ UNCHANGED <<p_open, p_got>>

PipeStep(p) == Pipe_close(p) \/ Pipe_read(p) \/ Pipe_write(p)
PipeNext == \E p \in Forked : PipeStep(p)
=============================================================================
