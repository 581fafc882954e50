--------------------------- MODULE SharedExchange ---------------------------
(***************************************************************************)
(* Homework 4, shared.c: parent and child write to and read from one piece *)
(* of shared memory.  The child waits for the semaphore once and posts it  *)
(* in every round; the parent posts and waits in every round.  Whoever     *)
(* ends removes the semaphore's name, the parent that of the memory too.   *)
(***************************************************************************)
EXTENDS Naturals

CONSTANTS
    SRounds,        \* rounds of each loop (10 in the code)
    OldPosts        \* values a run that was killed may have left the semaphore at

ASSUME SharedAssumption == SRounds \in Nat \ {0} /\ OldPosts \subseteq Nat

Sides == {"parent", "child"}

VARIABLES
    s_sem,      \* the value of each semaphore; the second is made after an unlink
    s_mem,      \* what each piece of memory holds: who wrote it
    s_name,     \* the semaphore and the memory the names stand for, 0 for none
    s_has,      \* per process: the semaphore and the memory it has opened
    s_at,       \* per process: where it is
    s_round,    \* per process: rounds it has finished
    s_read,     \* per process: what it read last
    s_own,      \* times the parent read its own message
    s_old       \* the semaphore had been left over

sharedVars == <<s_sem, s_mem, s_name, s_has, s_at, s_round, s_read, s_own, s_old>>

Objects == 1..2
Contents == {"zero", "parent", "child"}

SharedTypeOK ==
    /\ s_sem \in [Objects -> Nat]
    /\ s_mem \in [Objects -> Contents]
    /\ s_name \in [{"sem", "mem"} -> 0..2]
    /\ s_has \in [Sides -> [{"sem", "mem"} -> 0..2]]
    /\ s_at \in [Sides -> {"shm_open", "sem_open", "first", "write", "post", "wait", "read",
                           "close", "unlink", "ended"}]
    /\ s_round \in [Sides -> 0..SRounds]
    /\ s_read \in [Sides -> Contents \cup {"none"}]
    /\ s_own \in 0..SRounds
    /\ s_old \in BOOLEAN

SharedInit ==
    /\ \E v \in OldPosts : s_sem = [o \in Objects |-> IF o = 1 THEN v ELSE 0] /\ s_old = (v > 0)
    /\ s_mem = [o \in Objects |-> "zero"]
    /\ s_name = [n \in {"sem", "mem"} |-> 1]
    /\ s_has = [p \in Sides |-> [n \in {"sem", "mem"} |-> 0]]
    /\ s_at = [p \in Sides |-> "shm_open"]
    /\ s_round = [p \in Sides |-> 0]
    /\ s_read = [p \in Sides |-> "none"]
    /\ s_own = 0

Shared_go(p, from, to) == s_at[p] = from /\ s_at' = [s_at EXCEPT ![p] = to]

(* shm_open or sem_open with O_CREAT: what the name stands for, or a new one,  *)
(* zero.                                                                       *)
Opened(p, n) ==
    LET o == IF s_name[n] = 0 THEN 2 ELSE s_name[n]
    IN  /\ s_has' = [s_has EXCEPT ![p][n] = o]
        /\ s_name' = [s_name EXCEPT ![n] = o]
        /\ UNCHANGED <<s_sem, s_mem, s_round, s_read, s_own, s_old>>

Shm_open(p) == Shared_go(p, "shm_open", "sem_open") /\ Opened(p, "mem")
Sem_open(p) ==
    /\ Shared_go(p, "sem_open", IF p = "child" THEN "first" ELSE "write")
    /\ Opened(p, "sem")

My_sem(p) == s_has[p]["sem"]
My_mem(p) == s_has[p]["mem"]

(* Mutated: the child does not wait before its first read. *)
Child_waits_not ==
    /\ Shared_go("child", "first", "read")
    /\ UNCHANGED <<s_sem, s_mem, s_name, s_has, s_round, s_read, s_own, s_old>>

(* The child's one sem_wait, in front of its loop. *)
Child_waits ==
    /\ Shared_go("child", "first", "read")
    /\ s_sem[My_sem("child")] > 0
    /\ s_sem' = [s_sem EXCEPT ![My_sem("child")] = @ - 1]
    /\ UNCHANGED <<s_mem, s_name, s_has, s_round, s_read, s_own, s_old>>

Write(p) ==
    /\ Shared_go(p, "write", "post")
    /\ s_mem' = [s_mem EXCEPT ![My_mem(p)] = p]
    /\ UNCHANGED <<s_sem, s_name, s_has, s_round, s_read, s_own, s_old>>

Round_ends(p) == [s_round EXCEPT ![p] = @ + 1]

(* Mutated: the child waits in every round. *)
Start_again_waiting(p, first) ==
    IF s_round[p] + 1 = SRounds THEN "close" ELSE IF p = "child" THEN "first" ELSE first

Start_again(p, first) == IF s_round[p] + 1 = SRounds THEN "close" ELSE first

(* The child's round ends with its post. *)
Post(p) ==
    /\ IF p = "child"
       THEN Shared_go(p, "post", Start_again(p, "read")) /\ s_round' = Round_ends(p)
       ELSE Shared_go(p, "post", "wait") /\ UNCHANGED s_round
    /\ s_sem' = [s_sem EXCEPT ![My_sem(p)] = @ + 1]
    /\ UNCHANGED <<s_mem, s_name, s_has, s_read, s_own, s_old>>

Parent_waits ==
    /\ Shared_go("parent", "wait", "read")
    /\ s_sem[My_sem("parent")] > 0
    /\ s_sem' = [s_sem EXCEPT ![My_sem("parent")] = @ - 1]
    /\ UNCHANGED <<s_mem, s_name, s_has, s_round, s_read, s_own, s_old>>

(* The parent's round ends with its read. *)
Read(p) ==
    /\ IF p = "parent"
       THEN Shared_go(p, "read", Start_again(p, "write")) /\ s_round' = Round_ends(p)
       ELSE Shared_go(p, "read", "write") /\ UNCHANGED s_round
    /\ s_read' = [s_read EXCEPT ![p] = s_mem[My_mem(p)]]
    /\ s_own' = IF p = "parent" /\ s_mem[My_mem(p)] = p THEN s_own + 1 ELSE s_own
    /\ UNCHANGED <<s_sem, s_mem, s_name, s_has, s_old>>

(* sem_unlink("semaphore") *)
Sem_unlink(p) ==
    /\ Shared_go(p, "close", IF p = "parent" THEN "unlink" ELSE "ended")
    /\ s_name' = [s_name EXCEPT !["sem"] = 0]
    /\ UNCHANGED <<s_sem, s_mem, s_has, s_round, s_read, s_own, s_old>>

(* shm_unlink *)
Shm_unlink ==
    /\ Shared_go("parent", "unlink", "ended")
    /\ s_name' = [s_name EXCEPT !["mem"] = 0]
    /\ UNCHANGED <<s_sem, s_mem, s_has, s_round, s_read, s_own, s_old>>

Parent_step ==
    \/ Shm_open("parent") \/ Sem_open("parent") \/ Write("parent") \/ Post("parent")
    \/ Parent_waits \/ Read("parent") \/ Sem_unlink("parent") \/ Shm_unlink
Child_step ==
    \/ Shm_open("child") \/ Sem_open("child") \/ Child_waits \/ Read("child")
    \/ Write("child") \/ Post("child") \/ Sem_unlink("child")

SharedNext == Parent_step \/ Child_step
=============================================================================
