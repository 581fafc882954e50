-------------------------- MODULE HomeworksProofs --------------------------
(***************************************************************************)
(* For any number of rounds and whatever killed runs have left: the type   *)
(* invariant and the safety properties of Homeworks, and that parent and   *)
(* child of msg.c never both wait.  Each exercise has an invariant of its  *)
(* own; a step of one program leaves the variables of the others alone.    *)
(***************************************************************************)
EXTENDS Homeworks, TLAPS

-----------------------------------------------------------------------------
(* msg.c *)

Busy == {"open", "send", "receive", "waiting"}

(* Messages p has put into the queue, and taken out of it or been handed.      *)
PutBy(p) ==
    q_round[p] + IF p = "parent" /\ q_at[p] \in {"receive", "waiting"} THEN 1 ELSE 0
TakenBy(p) == q_round[p] + IF p = "child" /\ q_at[p] = "send" THEN 1 ELSE 0

QInv ==
    /\ QueueTypeOK
    /\ \A p \in Peers : q_at[p] \in Busy => q_round[p] < QRounds
    /\ q_own <= q_round["parent"]
    /\ q_fresh => q_at["parent"] = "ended"
    /\ ~q_linked => q_at["parent"] = "ended"
    /\ \A p \in Peers : q_at[p] = "waiting" /\ ~q_fresh => q = << >>
    /\ ~q_fresh => Len(q) + TakenBy("parent") + TakenBy("child")
                      = q_left + PutBy("parent") + PutBy("child")

(* Parent and child never wait for each other: every message taken out of the  *)
(* queue was put in, and the parent has put in one more than it has taken out. *)
NeverBothWait == ~(q_at["parent"] = "waiting" /\ q_at["child"] = "waiting")

(* What calls do to the queue as a sequence. *)
LEMMA Appended ==
    ASSUME NEW x \in Seq(Peers), NEW p \in Peers
    PROVE  Append(x, p) \in Seq(Peers) /\ Len(Append(x, p)) = Len(x) + 1 /\ Len(x) \in Nat
  OBVIOUS

LEMMA Shortened ==
    ASSUME NEW x \in Seq(Peers), x # << >>
    PROVE  Tail(x) \in Seq(Peers) /\ Len(Tail(x)) = Len(x) - 1 /\ Len(x) \in Nat
  OBVIOUS

LEMMA SomeRounds == QRounds \in Nat /\ QRounds > 0
  BY QueueAssumption

LEMMA QueueStarts == QueueInit => QInv
<1> SUFFICES ASSUME QueueInit PROVE QInv
  OBVIOUS
<1>1. q \in Seq(Peers) /\ Len(q) \in Nat
  BY QueueAssumption DEF QueueInit
<1>2. QueueTypeOK
  <2>1. /\ q_at \in [Peers -> {"open", "send", "receive", "waiting", "close", "ended"}]
        /\ q_round \in [Peers -> 0..QRounds]
        /\ q_own \in 0..QRounds
    BY SomeRounds DEF QueueInit
  <2>2. q_linked \in BOOLEAN /\ q_fresh \in BOOLEAN /\ q_left \in Nat
    BY <1>1 DEF QueueInit
  <2> QED
    BY <1>1, <2>1, <2>2 DEF QueueTypeOK
<1>3. /\ \A p \in Peers : q_at[p] = "open" /\ q_round[p] = 0
      /\ q_own = 0 /\ ~q_fresh /\ q_linked /\ q_left = Len(q)
  BY DEF QueueInit
<1>4. PutBy("parent") + PutBy("child") = 0 /\ TakenBy("parent") + TakenBy("child") = 0
  BY <1>3 DEF PutBy, TakenBy, Peers
<1>5. Len(q) + TakenBy("parent") + TakenBy("child") = q_left + PutBy("parent") + PutBy("child")
  BY <1>1, <1>3, <1>4 DEF PutBy, TakenBy, Peers
<1> QED
  BY <1>2, <1>3, <1>5, SomeRounds DEF QInv, Peers

LEMMA QueueKept == QInv /\ UNCHANGED queueVars => QInv'
  BY DEF QInv, QueueTypeOK, queueVars, PutBy, TakenBy, Busy, Peers

(* Each call of the loop and the place after it. *)
LEMMA Loops ==
    /\ First("parent") = "send" /\ Second("parent") = "receive"
    /\ First("child") = "receive" /\ Second("child") = "send"
    /\ Other("parent") = "child" /\ Other("child") = "parent"
  BY DEF First, Second, Order, Other

LEMMA QueueOpens == ASSUME QInv, NEW p \in Peers, Open(p) PROVE QInv'
  BY Loops DEF QInv, QueueTypeOK, Peers, Busy, PutBy, TakenBy, Open

LEMMA QueueCloses == ASSUME QInv, NEW p \in Peers, Queue_close(p) PROVE QInv'
  BY DEF QInv, QueueTypeOK, Peers, Busy, PutBy, TakenBy, Queue_close

LEMMA QueueSends == ASSUME QInv, NEW p \in Peers, Queue_send(p) PROVE QInv'
<1> USE Loops, SomeRounds DEF Busy, After, Rounds
<1>1. CASE q_at[Other(p)] = "waiting" /\ ~q_fresh
  <2>1. CASE p = "parent"
    BY <1>1, <2>1 DEF QInv, QueueTypeOK, Queue_send, PutBy, TakenBy, Peers
  <2>2. CASE p = "child"
    BY <1>1, <2>2 DEF QInv, QueueTypeOK, Queue_send, PutBy, TakenBy, Peers
  <2> QED
    BY <2>1, <2>2 DEF Peers
<1>2. CASE ~(q_at[Other(p)] = "waiting" /\ ~q_fresh)
  <2>1. q' = Append(q, p) /\ q' \in Seq(Peers) /\ Len(q') = Len(q) + 1 /\ Len(q) \in Nat
    <3>1. q' = Append(q, p)
      BY <1>2 DEF Queue_send
    <3>2. q \in Seq(Peers)
      BY DEF QInv, QueueTypeOK
    <3> QED
      BY <3>1, <3>2, Appended, Zenon
  <2>2. /\ q_at[p] = "send"
        /\ q_at' = [q_at EXCEPT ![p] = After(p, "send")]
        /\ q_round' = [q_round EXCEPT ![p] = Rounds(p, "send")]
        /\ UNCHANGED <<q_linked, q_fresh, q_own, q_left>>
    BY <1>2 DEF Queue_send
  <2>3. /\ q_at' \in [Peers -> {"open", "send", "receive", "waiting", "close", "ended"}]
        /\ q_round' \in [Peers -> 0..QRounds]
        /\ q_own' \in 0..QRounds
    BY <2>2 DEF QInv, QueueTypeOK, Peers
  <2>4. QueueTypeOK'
    BY <2>1, <2>2, <2>3 DEF QInv, QueueTypeOK
  <2>5. /\ \A x \in Peers : q_at'[x] \in Busy => q_round'[x] < QRounds
        /\ q_own' <= q_round'["parent"]
    BY <2>2 DEF QInv, QueueTypeOK, Peers
  <2>6. /\ q_fresh' => q_at'["parent"] = "ended"
        /\ ~q_linked' => q_at'["parent"] = "ended"
        /\ \A x \in Peers : q_at'[x] = "waiting" /\ ~q_fresh' => FALSE
    BY <1>2, <2>2 DEF QInv, QueueTypeOK, Peers
  <2>7. \A x \in Peers : /\ PutBy(x) \in Nat /\ TakenBy(x) \in Nat
                         /\ PutBy(x)' \in Nat /\ TakenBy(x)' \in Nat
    <3>1. \A x \in Peers : q_round[x] \in Nat /\ q_round'[x] \in Nat
      BY <2>3 DEF QInv, QueueTypeOK
    <3> QED
      BY <3>1, SMTT(60) DEF PutBy, TakenBy
  <2>8. PutBy(p)' = PutBy(p) + 1 /\ TakenBy(p)' = TakenBy(p)
    <3>1. CASE p = "parent"
      BY <2>2, <2>3, <3>1 DEF QInv, QueueTypeOK, PutBy, TakenBy, Peers
    <3>2. CASE p = "child"
      BY <2>2, <2>3, <3>2 DEF QInv, QueueTypeOK, PutBy, TakenBy, Peers
    <3> QED
      BY <3>1, <3>2 DEF Peers
  <2>9. PutBy(Other(p))' = PutBy(Other(p)) /\ TakenBy(Other(p))' = TakenBy(Other(p))
    BY <2>2 DEF QInv, QueueTypeOK, PutBy, TakenBy, Peers
  <2>10. ~q_fresh' => Len(q') + TakenBy("parent")' + TakenBy("child")'
                         = q_left' + PutBy("parent")' + PutBy("child")'
    <3>1. ~q_fresh => Len(q) + TakenBy("parent") + TakenBy("child")
                         = q_left + PutBy("parent") + PutBy("child")
      BY DEF QInv
    <3>2. q_left \in Nat /\ q_left' = q_left /\ q_fresh' = q_fresh
      BY <2>2 DEF QInv, QueueTypeOK
    <3>3. Len(q') = Len(q) + 1 /\ Len(q) \in Nat
      BY <2>1
    <3>4. CASE p = "parent"
      <4>1. PutBy("parent")' = PutBy("parent") + 1 /\ TakenBy("parent")' = TakenBy("parent")
        BY <2>8, <3>4, Zenon
      <4>2. PutBy("child")' = PutBy("child") /\ TakenBy("child")' = TakenBy("child")
        BY <2>9, <3>4, Loops, Zenon
      <4>3. /\ PutBy("parent") \in Nat /\ TakenBy("parent") \in Nat
            /\ PutBy("child") \in Nat /\ TakenBy("child") \in Nat
        BY <2>7, Zenon DEF Peers
      <4>4. q_fresh' = q_fresh /\ q_left' = q_left /\ q_left \in Nat
        BY <3>2
      <4>5. CASE q_fresh
        BY <4>4, <4>5
      <4>6. CASE ~q_fresh
        <5>1. Len(q) + TakenBy("parent") + TakenBy("child")
                 = q_left + PutBy("parent") + PutBy("child")
          BY <3>1, <4>6
        <5>2. Len(q') + TakenBy("parent")' + TakenBy("child")'
                 = q_left' + PutBy("parent")' + PutBy("child")'
          BY <3>3, <4>1, <4>2, <4>3, <4>4, <5>1, SMTT(60)
        <5> QED
          BY <5>2
      <4> QED
        BY <4>5, <4>6
    <3>5. CASE p = "child"
      <4>1. PutBy("child")' = PutBy("child") + 1 /\ TakenBy("child")' = TakenBy("child")
        BY <2>8, <3>5, Zenon
      <4>2. PutBy("parent")' = PutBy("parent") /\ TakenBy("parent")' = TakenBy("parent")
        BY <2>9, <3>5, Loops, Zenon
      <4>3. /\ PutBy("parent") \in Nat /\ TakenBy("parent") \in Nat
            /\ PutBy("child") \in Nat /\ TakenBy("child") \in Nat
        BY <2>7, Zenon DEF Peers
      <4>4. q_fresh' = q_fresh /\ q_left' = q_left /\ q_left \in Nat
        BY <3>2
      <4>5. CASE q_fresh
        BY <4>4, <4>5
      <4>6. CASE ~q_fresh
        <5>1. Len(q) + TakenBy("parent") + TakenBy("child")
                 = q_left + PutBy("parent") + PutBy("child")
          BY <3>1, <4>6
        <5>2. Len(q') + TakenBy("parent")' + TakenBy("child")'
                 = q_left' + PutBy("parent")' + PutBy("child")'
          BY <3>3, <4>1, <4>2, <4>3, <4>4, <5>1, SMTT(60)
        <5> QED
          BY <5>2
      <4> QED
        BY <4>5, <4>6
    <3> QED
      BY <3>4, <3>5 DEF Peers
  <2> QED
    BY <2>4, <2>5, <2>6, <2>10 DEF QInv
<1> QED
  BY <1>1, <1>2

LEMMA QueueReceives == ASSUME QInv, NEW p \in Peers, Queue_receive(p) PROVE QInv'
<1> USE Loops, SomeRounds DEF Busy, After, Rounds
<1>1. CASE q = << >> \/ (p = "child" /\ q_fresh)
  <2>1. CASE p = "parent"
    BY <1>1, <2>1 DEF QInv, QueueTypeOK, Queue_receive, PutBy, TakenBy, Peers
  <2>2. CASE p = "child"
    BY <1>1, <2>2 DEF QInv, QueueTypeOK, Queue_receive, PutBy, TakenBy, Peers
  <2> QED
    BY <2>1, <2>2 DEF Peers
<1>2. CASE ~(q = << >> \/ (p = "child" /\ q_fresh))
  <2>1. q' = Tail(q) /\ q' \in Seq(Peers) /\ Len(q') = Len(q) - 1 /\ Len(q) \in Nat
    <3>1. q' = Tail(q) /\ q # << >>
      BY <1>2 DEF Queue_receive
    <3>2. q \in Seq(Peers)
      BY DEF QInv, QueueTypeOK
    <3> QED
      BY <3>1, <3>2, Shortened, Zenon
  <2>2. /\ q_at[p] = "receive"
        /\ q_own' = IF p = "parent" /\ Head(q) = p THEN q_own + 1 ELSE q_own
        /\ q_at' = [q_at EXCEPT ![p] = After(p, "receive")]
        /\ q_round' = [q_round EXCEPT ![p] = Rounds(p, "receive")]
        /\ UNCHANGED <<q_linked, q_fresh, q_left>>
    BY <1>2 DEF Queue_receive
  <2>3. /\ q_at' \in [Peers -> {"open", "send", "receive", "waiting", "close", "ended"}]
        /\ q_round' \in [Peers -> 0..QRounds]
        /\ q_own' \in 0..QRounds
        /\ q_own' <= q_round'["parent"]
    BY <2>2 DEF QInv, QueueTypeOK, Peers
  <2>4. QueueTypeOK'
    BY <2>1, <2>2, <2>3 DEF QInv, QueueTypeOK
  <2>5. \A x \in Peers : q_at'[x] \in Busy => q_round'[x] < QRounds
    BY <2>2 DEF QInv, QueueTypeOK, Peers
  <2>6. /\ q_fresh' => q_at'["parent"] = "ended"
        /\ ~q_linked' => q_at'["parent"] = "ended"
        /\ \A x \in Peers : q_at'[x] = "waiting" /\ ~q_fresh' => FALSE
    BY <1>2, <2>2 DEF QInv, QueueTypeOK, Peers
  <2>7. \A x \in Peers : /\ PutBy(x) \in Nat /\ TakenBy(x) \in Nat
                         /\ PutBy(x)' \in Nat /\ TakenBy(x)' \in Nat
    <3>1. \A x \in Peers : q_round[x] \in Nat /\ q_round'[x] \in Nat
      BY <2>3 DEF QInv, QueueTypeOK
    <3> QED
      BY <3>1, SMTT(60) DEF PutBy, TakenBy
  <2>8. TakenBy(p)' = TakenBy(p) + 1 /\ PutBy(p)' = PutBy(p)
    <3>1. CASE p = "parent"
      <4>1. q_at'[p] \in {"open", "close"} /\ q_round'[p] = q_round[p] + 1 /\ q_round[p] \in Nat
        BY <2>2, <3>1 DEF QInv, QueueTypeOK, Peers
      <4> QED
        BY <2>2, <3>1, <4>1 DEF PutBy, TakenBy
    <3>2. CASE p = "child"
      BY <2>2, <2>3, <3>2 DEF QInv, QueueTypeOK, PutBy, TakenBy, Peers
    <3> QED
      BY <3>1, <3>2 DEF Peers
  <2>9. PutBy(Other(p))' = PutBy(Other(p)) /\ TakenBy(Other(p))' = TakenBy(Other(p))
    <3>1. q_at'[Other(p)] = q_at[Other(p)] /\ q_round'[Other(p)] = q_round[Other(p)]
      BY <2>2 DEF QInv, QueueTypeOK, Peers
    <3> QED
      BY <3>1 DEF PutBy, TakenBy
  <2>10. ~q_fresh' => Len(q') + TakenBy("parent")' + TakenBy("child")'
                         = q_left' + PutBy("parent")' + PutBy("child")'
    <3>1. ~q_fresh => Len(q) + TakenBy("parent") + TakenBy("child")
                         = q_left + PutBy("parent") + PutBy("child")
      BY DEF QInv
    <3>2. q_left \in Nat /\ q_left' = q_left /\ q_fresh' = q_fresh
      BY <2>2 DEF QInv, QueueTypeOK
    <3>3. Len(q') = Len(q) - 1 /\ Len(q) \in Nat
      BY <2>1
    <3>4. CASE p = "parent"
      <4>1. TakenBy("parent")' = TakenBy("parent") + 1 /\ PutBy("parent")' = PutBy("parent")
        BY <2>8, <3>4, Zenon
      <4>2. TakenBy("child")' = TakenBy("child") /\ PutBy("child")' = PutBy("child")
        BY <2>9, <3>4, Loops, Zenon
      <4>3. /\ PutBy("parent") \in Nat /\ TakenBy("parent") \in Nat
            /\ PutBy("child") \in Nat /\ TakenBy("child") \in Nat
        BY <2>7, Zenon DEF Peers
      <4>4. q_fresh' = q_fresh /\ q_left' = q_left /\ q_left \in Nat
        BY <3>2
      <4>5. CASE q_fresh
        BY <4>4, <4>5
      <4>6. CASE ~q_fresh
        <5>1. Len(q) + TakenBy("parent") + TakenBy("child")
                 = q_left + PutBy("parent") + PutBy("child")
          BY <3>1, <4>6
        <5>2. Len(q') + TakenBy("parent")' + TakenBy("child")'
                 = q_left' + PutBy("parent")' + PutBy("child")'
          BY <3>3, <4>1, <4>2, <4>3, <4>4, <5>1, SMTT(60)
        <5> QED
          BY <5>2
      <4> QED
        BY <4>5, <4>6
    <3>5. CASE p = "child"
      <4>1. TakenBy("child")' = TakenBy("child") + 1 /\ PutBy("child")' = PutBy("child")
        BY <2>8, <3>5, Zenon
      <4>2. TakenBy("parent")' = TakenBy("parent") /\ PutBy("parent")' = PutBy("parent")
        BY <2>9, <3>5, Loops, Zenon
      <4>3. /\ PutBy("parent") \in Nat /\ TakenBy("parent") \in Nat
            /\ PutBy("child") \in Nat /\ TakenBy("child") \in Nat
        BY <2>7, Zenon DEF Peers
      <4>4. q_fresh' = q_fresh /\ q_left' = q_left /\ q_left \in Nat
        BY <3>2
      <4>5. CASE q_fresh
        BY <4>4, <4>5
      <4>6. CASE ~q_fresh
        <5>1. Len(q) + TakenBy("parent") + TakenBy("child")
                 = q_left + PutBy("parent") + PutBy("child")
          BY <3>1, <4>6
        <5>2. Len(q') + TakenBy("parent")' + TakenBy("child")'
                 = q_left' + PutBy("parent")' + PutBy("child")'
          BY <3>3, <4>1, <4>2, <4>3, <4>4, <5>1, SMTT(60)
        <5> QED
          BY <5>2
      <4> QED
        BY <4>5, <4>6
    <3> QED
      BY <3>4, <3>5 DEF Peers
  <2> QED
    BY <2>3, <2>4, <2>5, <2>6, <2>10 DEF QInv
<1> QED
  BY <1>1, <1>2

LEMMA QueueMoves == ASSUME QInv, NEW p \in Peers, QueueStep(p) PROVE QInv'
  BY QueueOpens, QueueCloses, QueueSends, QueueReceives DEF QueueStep

LEMMA QueueNoDeadlock == QInv => NeverBothWait
  BY DEF QInv, QueueTypeOK, NeverBothWait, PutBy, TakenBy, Peers
-----------------------------------------------------------------------------
(* shared.c *)

(* The child has not come through its one sem_wait. *)
Early == s_at["child"] \in {"shm_open", "sem_open", "first"}

(* What stands between the child and memory nobody has written, if the         *)
(* semaphore was not left up: only the parent's posts raise its semaphore.     *)
Guarded ==
    /\ s_sem[2] = 0
    /\ s_sem[1] > 0 => s_mem[1] # "zero"
    /\ s_at["parent"] # "shm_open" => s_has["parent"]["mem"] = 1
    /\ s_at["parent"] \notin {"shm_open", "sem_open"} => s_has["parent"]["sem"] = 1
    /\ s_at["parent"] \notin {"unlink", "ended"} => s_name["sem"] = 1
    /\ s_at["parent"] \in {"unlink", "ended"} => s_name["sem"] # 1
    /\ s_at["parent"] # "ended" => s_name["mem"] = 1
    /\ s_at["child"] = "sem_open" => s_has["child"]["mem"] = 1 \/ s_at["parent"] = "ended"
    /\ s_at["child"] = "first" /\ s_has["child"]["sem"] = 1 => s_has["child"]["mem"] = 1

Opening == {"shm_open", "sem_open"}

SInv ==
    /\ SharedTypeOK
    /\ \A p \in Sides :
          /\ s_at[p] \notin {"close", "unlink", "ended"} => s_round[p] < SRounds
          /\ s_at[p] # "shm_open" => s_has[p]["mem"] \in Objects
          /\ s_at[p] \notin Opening => s_has[p]["sem"] \in Objects
    /\ s_own <= s_round["parent"]
    /\ s_at["parent"] # "first"
    /\ s_at["child"] \notin {"wait", "unlink"}
    /\ s_at["parent"] \in {"post", "wait", "read"} => s_mem[My_mem("parent")] # "zero"
    /\ s_read["parent"] # "zero"
    /\ ~s_old => /\ s_read["child"] # "zero"
                 /\ IF Early THEN Guarded ELSE s_mem[My_mem("child")] # "zero"

LEMMA SharedStarts == SharedInit => SInv
<1> SUFFICES ASSUME SharedInit PROVE SInv
  OBVIOUS
<1>1. PICK v \in OldPosts :
        s_sem = [o \in Objects |-> IF o = 1 THEN v ELSE 0] /\ s_old = (v > 0)
  BY DEF SharedInit
<1>2. v \in Nat /\ s_sem[1] = v /\ s_sem[2] = 0 /\ s_sem \in [Objects -> Nat] /\ s_old \in BOOLEAN
  BY <1>1, SharedAssumption DEF Objects
<1>3. SharedTypeOK
  BY <1>2, SharedAssumption DEF SharedInit, SharedTypeOK, Sides, Objects, Contents
<1>4. ~s_old => Guarded
  BY <1>1, <1>2 DEF SharedInit, Guarded, Sides
<1> QED
  BY <1>3, <1>4, SharedAssumption
  DEF SharedInit, SInv, Sides, Objects, Early, Opening, My_mem

LEMMA SharedKept == SInv /\ UNCHANGED sharedVars => SInv'
  BY DEF SInv, SharedTypeOK, sharedVars, Early, Guarded, My_mem, Opening, Sides, Objects, Contents

LEMMA ParentMoves == ASSUME SInv, Parent_step PROVE SInv'
<1> USE SharedAssumption
    DEF SInv, SharedTypeOK, Sides, Objects, Contents, Opening, Early, Guarded, My_mem, My_sem,
        Shared_go, Opened, Round_ends, Start_again
<1>1. CASE Shm_open("parent")
  BY <1>1 DEF Shm_open
<1>2. CASE Sem_open("parent")
  BY <1>2 DEF Sem_open
<1>3. CASE Write("parent")
  BY <1>3 DEF Write
<1>4. CASE Post("parent")
  BY <1>4 DEF Post
<1>5. CASE Parent_waits
  BY <1>5 DEF Parent_waits
<1>6. CASE Read("parent")
  BY <1>6 DEF Read
<1>7. CASE Sem_unlink("parent")
  BY <1>7 DEF Sem_unlink
<1>8. CASE Shm_unlink
  BY <1>8 DEF Shm_unlink
<1> QED
  BY <1>1, <1>2, <1>3, <1>4, <1>5, <1>6, <1>7, <1>8 DEF Parent_step

LEMMA ChildMoves == ASSUME SInv, Child_step PROVE SInv'
<1> USE SharedAssumption
    DEF SInv, SharedTypeOK, Sides, Objects, Contents, Opening, Early, Guarded, My_mem, My_sem,
        Shared_go, Opened, Round_ends, Start_again
<1>1. CASE Shm_open("child")
  BY <1>1 DEF Shm_open
<1>2. CASE Sem_open("child")
  BY <1>2 DEF Sem_open
<1>3. CASE Child_waits
  BY <1>3 DEF Child_waits
<1>4. CASE Read("child")
  BY <1>4 DEF Read
<1>5. CASE Write("child")
  BY <1>5 DEF Write
<1>6. CASE Post("child")
  BY <1>6 DEF Post
<1>7. CASE Sem_unlink("child")
  BY <1>7 DEF Sem_unlink
<1> QED
  BY <1>1, <1>2, <1>3, <1>4, <1>5, <1>6, <1>7 DEF Child_step
-----------------------------------------------------------------------------
(* pipe.c *)

(* The call of a round with which p moves data, and the last one before which  *)
(* it still holds an end.                                                      *)
Writes_at(p) == IF p = "child" THEN 5 ELSE 2
Reads_at(p) == IF p = "child" THEN 2 ELSE 5
Done(p, call) == p_round[p] > 0 \/ p_at[p] > call
Once(b) == IF b THEN 1 ELSE 0

(* In its first round a process holds the end it is about to use, and has lost *)
(* those it has closed; after it, it holds none.                               *)
Moved(p) ==
    /\ p_sent[p] = Once(Done(p, Writes_at(p)))
    /\ p_got[p] = Once(Done(p, Reads_at(p)))

Holds(p) ==
    IF p_round[p] > 0 THEN p_open[p] = {}
    ELSE /\ p_at[p] <= Writes_at(p) => <<Out(p), 1>> \in p_open[p]
         /\ p_at[p] <= Reads_at(p) => <<In(p), 0>> \in p_open[p]

Lost_child ==
    p_round["child"] = 0 =>
        /\ p_at["child"] > 1 => <<"fd1", 1>> \notin p_open["child"]
        /\ p_at["child"] > 3 => <<"fd1", 0>> \notin p_open["child"]
        /\ p_at["child"] > 4 => <<"fd2", 0>> \notin p_open["child"]

Lost_parent ==
    p_round["parent"] = 0 =>
        /\ p_at["parent"] > 1 => <<"fd1", 0>> \notin p_open["parent"]
        /\ p_at["parent"] > 3 => <<"fd1", 1>> \notin p_open["parent"]
        /\ p_at["parent"] > 4 => <<"fd2", 1>> \notin p_open["parent"]

Carried ==
    /\ p_data["fd1"] = p_sent["parent"] - p_got["child"]
    /\ p_data["fd2"] = p_sent["child"] - p_got["parent"]

PInv ==
    /\ PipeTypeOK
    /\ \A p \in Forked : Moved(p) /\ Holds(p)
    /\ Lost_child /\ Lost_parent
    /\ Carried

LEMMA PipeStarts == PipeInit => PInv
  BY PipeAssumption
  DEF PipeInit, PInv, PipeTypeOK, Forked, Pipes, Ends, Moved, Holds, Lost_child, Lost_parent,
      Carried, Once, Done, Writes_at, Reads_at, In, Out

LEMMA PipeKept == PInv /\ UNCHANGED pipeVars => PInv'
  BY DEF PInv, PipeTypeOK, pipeVars, Moved, Holds, Lost_child, Lost_parent, Carried, Once, Done

LEMMA AnEnd == \A e \in Ends : e \in {<<"fd1", 0>>, <<"fd1", 1>>, <<"fd2", 0>>, <<"fd2", 1>>}
  BY DEF Ends, Pipes

(* The calls of each process, one by one. *)
LEMMA ChildCalls ==
    LET c == Calls_of("child") IN
    /\ c[1][1] = "close" /\ c[2][1] = "read" /\ c[3][1] = "close"
    /\ c[4][1] = "close" /\ c[5][1] = "write" /\ c[6][1] = "close"
    /\ <<c[1][2], c[1][3]>> = <<"fd1", 1>> /\ <<c[2][2], c[2][3]>> = <<"fd1", 0>>
    /\ <<c[3][2], c[3][3]>> = <<"fd1", 0>> /\ <<c[4][2], c[4][3]>> = <<"fd2", 0>>
    /\ <<c[5][2], c[5][3]>> = <<"fd2", 1>> /\ <<c[6][2], c[6][3]>> = <<"fd2", 1>>
  BY DEF Calls_of

LEMMA ParentCalls ==
    LET c == Calls_of("parent") IN
    /\ c[1][1] = "close" /\ c[2][1] = "write" /\ c[3][1] = "close"
    /\ c[4][1] = "close" /\ c[5][1] = "read" /\ c[6][1] = "close"
    /\ <<c[1][2], c[1][3]>> = <<"fd1", 0>> /\ <<c[2][2], c[2][3]>> = <<"fd1", 1>>
    /\ <<c[3][2], c[3][3]>> = <<"fd1", 1>> /\ <<c[4][2], c[4][3]>> = <<"fd2", 1>>
    /\ <<c[5][2], c[5][3]>> = <<"fd2", 0>> /\ <<c[6][2], c[6][3]>> = <<"fd2", 0>>
  BY DEF Calls_of

(* What a call does to the control of its process, and which call it is. *)
LEMMA Does_facts ==
    ASSUME PInv, NEW p \in Forked, NEW f, Does(p, f)
    PROVE  /\ p_at[p] \in 1..6 /\ p_round[p] \in Nat /\ p_round[p] < PRounds
           /\ p_at' = [p_at EXCEPT ![p] = IF p_at[p] = 6 THEN 1 ELSE p_at[p] + 1]
           /\ p_round' = [p_round EXCEPT ![p] = IF p_at[p] = 6 THEN p_round[p] + 1 ELSE p_round[p]]
           /\ f = Calls_of(p)[p_at[p]][1]
           /\ End(p) = <<Calls_of(p)[p_at[p]][2], Calls_of(p)[p_at[p]][3]>>
           /\ p_at' \in [Forked -> 1..6]
           /\ p_round' \in [Forked -> 0..PRounds]
  BY PipeAssumption DEF PInv, PipeTypeOK, Does, This, End

(* What a step of p keeps of the other process. *)
LEMMA OtherKept ==
    ASSUME PInv, NEW p \in Forked, NEW x \in Forked \ {p},
           p_at'[x] = p_at[x], p_round'[x] = p_round[x], p_open'[x] = p_open[x],
           p_sent'[x] = p_sent[x], p_got'[x] = p_got[x]
    PROVE  /\ Moved(x)' /\ Holds(x)'
           /\ x = "child" => Lost_child'
           /\ x = "parent" => Lost_parent'
  BY DEF PInv, Moved, Holds, Lost_child, Lost_parent, Done

LEMMA PipeCloses == ASSUME PInv, NEW p \in Forked, Pipe_close(p) PROVE PInv'
<1>1. Does(p, "close") /\ p_open' = [p_open EXCEPT ![p] = @ \ {End(p)}]
      /\ UNCHANGED <<p_data, p_got, p_sent>>
  BY DEF Pipe_close
<1>2. PipeTypeOK' /\ Carried'
  BY <1>1, Does_facts DEF PInv, PipeTypeOK, Carried
<1>3. p_open'[p] = p_open[p] \ {End(p)} /\ p_open[p] \subseteq Ends
  BY <1>1 DEF PInv, PipeTypeOK
<1>4. /\ p_at'[p] = IF p_at[p] = 6 THEN 1 ELSE p_at[p] + 1
      /\ p_round'[p] = IF p_at[p] = 6 THEN p_round[p] + 1 ELSE p_round[p]
      /\ p_round[p] \in Nat
      /\ p_sent'[p] = p_sent[p] /\ p_got'[p] = p_got[p]
  BY <1>1, Does_facts DEF PInv, PipeTypeOK
<1>5. \A x \in Forked \ {p} :
          /\ Moved(x)' /\ Holds(x)'
          /\ x = "child" => Lost_child'
          /\ x = "parent" => Lost_parent'
  BY <1>1, Does_facts, OtherKept DEF PInv, PipeTypeOK
<1>6. Moved(p) /\ Holds(p) /\ Lost_child /\ Lost_parent
  BY DEF PInv
<1>7. CASE p = "child"
  <2>1. \/ p_at[p] = 1 /\ End(p) = <<"fd1", 1>>
        \/ p_at[p] = 3 /\ End(p) = <<"fd1", 0>>
        \/ p_at[p] = 4 /\ End(p) = <<"fd2", 0>>
        \/ p_at[p] = 6 /\ End(p) = <<"fd2", 1>>
    BY <1>1, <1>7, Does_facts, ChildCalls
  <2>2. Moved(p)'
    BY <1>4, <1>6, <1>7, <2>1 DEF Moved, Done, Once, Writes_at, Reads_at
  <2>3. Holds(p)'
    <3>1. CASE p_round[p] > 0
      <4>1. p_open'[p] = {}
        BY <1>3, <1>6, <3>1 DEF Holds
      <4> QED
        BY <1>4, <3>1, <4>1 DEF Holds
    <3>2. CASE p_round[p] = 0 /\ p_at[p] = 6
      <4>1. p_open'[p] = {}
        BY <1>3, <1>6, <1>7, <2>1, <3>2, AnEnd DEF Lost_child
      <4> QED
        BY <1>4, <3>2, <4>1 DEF Holds
    <3>3. CASE p_round[p] = 0 /\ p_at[p] # 6
      BY <1>3, <1>4, <1>6, <1>7, <2>1, <3>3 DEF Holds, Writes_at, Reads_at, In, Out
    <3> QED
      BY <1>4, <3>1, <3>2, <3>3
  <2>4. Lost_child'
    BY <1>3, <1>4, <1>6, <1>7, <2>1 DEF Lost_child
  <2> QED
    BY <1>2, <1>5, <1>7, <2>2, <2>3, <2>4 DEF PInv, Forked
<1>8. CASE p = "parent"
  <2>1. \/ p_at[p] = 1 /\ End(p) = <<"fd1", 0>>
        \/ p_at[p] = 3 /\ End(p) = <<"fd1", 1>>
        \/ p_at[p] = 4 /\ End(p) = <<"fd2", 1>>
        \/ p_at[p] = 6 /\ End(p) = <<"fd2", 0>>
    BY <1>1, <1>8, Does_facts, ParentCalls
  <2>2. Moved(p)'
    BY <1>4, <1>6, <1>8, <2>1 DEF Moved, Done, Once, Writes_at, Reads_at
  <2>3. Holds(p)'
    <3>1. CASE p_round[p] > 0
      <4>1. p_open'[p] = {}
        BY <1>3, <1>6, <3>1 DEF Holds
      <4> QED
        BY <1>4, <3>1, <4>1 DEF Holds
    <3>2. CASE p_round[p] = 0 /\ p_at[p] = 6
      <4>1. p_open'[p] = {}
        BY <1>3, <1>6, <1>8, <2>1, <3>2, AnEnd DEF Lost_parent
      <4> QED
        BY <1>4, <3>2, <4>1 DEF Holds
    <3>3. CASE p_round[p] = 0 /\ p_at[p] # 6
      BY <1>3, <1>4, <1>6, <1>8, <2>1, <3>3 DEF Holds, Writes_at, Reads_at, In, Out
    <3> QED
      BY <1>4, <3>1, <3>2, <3>3
  <2>4. Lost_parent'
    BY <1>3, <1>4, <1>6, <1>8, <2>1 DEF Lost_parent
  <2> QED
    BY <1>2, <1>5, <1>8, <2>2, <2>3, <2>4 DEF PInv, Forked
<1> QED
  BY <1>7, <1>8 DEF Forked

LEMMA PipeReads == ASSUME PInv, NEW p \in Forked, Pipe_read(p) PROVE PInv'
<1>1. /\ Does(p, "read") /\ UNCHANGED <<p_open, p_sent>>
      /\ IF End(p) \in p_open[p] /\ p_data[In(p)] > 0
         THEN /\ p_data' = [p_data EXCEPT ![In(p)] = @ - 1]
              /\ p_got' = [p_got EXCEPT ![p] = @ + 1]
         ELSE /\ End(p) \in p_open[p] => \A x \in Forked : <<In(p), 1>> \notin p_open[x]
              /\ UNCHANGED <<p_data, p_got>>
  BY DEF Pipe_read
<1>2. p_at[p] = Reads_at(p) /\ End(p) = <<In(p), 0>>
  <2>1. CASE p = "child"
    BY <1>1, <2>1, Does_facts, ChildCalls DEF Reads_at, In
  <2>2. CASE p = "parent"
    BY <1>1, <2>2, Does_facts, ParentCalls DEF Reads_at, In
  <2> QED
    BY <2>1, <2>2 DEF Forked
<1>3. /\ p_at'[p] = p_at[p] + 1 /\ p_round'[p] = p_round[p]
      /\ p_round[p] \in Nat
      /\ p_at' \in [Forked -> 1..6] /\ p_round' \in [Forked -> 0..PRounds]
  BY <1>1, <1>2, Does_facts DEF PInv, PipeTypeOK, Reads_at
<1>4. Moved(p) /\ Holds(p) /\ Lost_child /\ Lost_parent
  BY DEF PInv
(* A process that has not finished its first round finds a message, or the     *)
(* other one still holds the writing end; later ones have closed their end.    *)
<1>5. /\ p_round[p] = 0 => End(p) \in p_open[p] /\ p_data[In(p)] > 0
      /\ p_round[p] > 0 => End(p) \notin p_open[p]
  <2>1. CASE p_round[p] > 0
    BY <1>4, <2>1 DEF Holds
  <2>2. CASE p_round[p] = 0
    <3>1. End(p) \in p_open[p]
      BY <1>2, <1>4, <2>2 DEF Holds, Reads_at
    <3>2. p_data[In(p)] = p_sent[IF p = "child" THEN "parent" ELSE "child"] - p_got[p]
      BY DEF PInv, Carried, In, Forked
    <3>3. p_got[p] = 0
      BY <1>2, <1>4, <2>2 DEF Moved, Done, Once, Reads_at
    <3> DEFINE o == IF p = "child" THEN "parent" ELSE "child"
    <3>4. o \in Forked /\ Out(o) = In(p)
      BY DEF Forked, In, Out
    <3>5. CASE Done(o, Writes_at(o))
      BY <3>1, <3>2, <3>3, <3>4, <3>5, <2>2 DEF PInv, Moved, Once
    <3>6. CASE ~Done(o, Writes_at(o))
      <4>1. p_sent[o] = 0 /\ <<In(p), 1>> \in p_open[o]
        <5>1. p_round[o] \in Nat /\ p_at[o] \in 1..6 /\ Writes_at(o) \in Nat
          BY <3>4, PipeAssumption DEF PInv, PipeTypeOK, Writes_at
        <5>2. p_round[o] = 0 /\ p_at[o] <= Writes_at(o)
          BY <3>6, <5>1 DEF Done
        <5>3. Moved(o) /\ Holds(o)
          BY <3>4 DEF PInv
        <5> HIDE DEF o
        <5> QED
          BY <3>4, <3>6, <5>2, <5>3 DEF Moved, Holds, Once
      <4>2. p_data[In(p)] = 0
        BY <3>2, <3>3, <4>1
      <4> QED
        BY <1>1, <3>1, <3>4, <4>1, <4>2
    <3> QED
      BY <3>5, <3>6
  <2> QED
    BY <1>3, <2>1, <2>2
<1>6. \A x \in Forked \ {p} :
          /\ Moved(x)' /\ Holds(x)'
          /\ x = "child" => Lost_child'
          /\ x = "parent" => Lost_parent'
  BY <1>1, Does_facts, OtherKept DEF PInv, PipeTypeOK
<1>7. /\ p_got'[p] = IF p_round[p] = 0 THEN p_got[p] + 1 ELSE p_got[p]
      /\ p_sent'[p] = p_sent[p] /\ p_open'[p] = p_open[p]
  BY <1>1, <1>3, <1>5 DEF PInv, PipeTypeOK
<1>8. Moved(p)'
  BY <1>2, <1>3, <1>4, <1>7 DEF Moved, Done, Once, Writes_at, Reads_at
<1>9. Holds(p)'
  BY <1>2, <1>3, <1>4, <1>7 DEF Holds, Writes_at, Reads_at, In, Out
<1>10. (p = "child" => Lost_child') /\ (p = "parent" => Lost_parent')
  BY <1>2, <1>3, <1>4, <1>7 DEF Lost_child, Lost_parent, Reads_at
<1>11. PipeTypeOK'
  <2>1. p_got' \in [Forked -> 0..PRounds]
    BY <1>1, <1>2, <1>4, <1>3, <1>5, PipeAssumption DEF PInv, PipeTypeOK, Moved, Done, Once
  <2>2. p_data' \in [Pipes -> Nat]
    BY <1>1 DEF PInv, PipeTypeOK
  <2> QED
    BY <1>1, <1>3, <2>1, <2>2 DEF PInv, PipeTypeOK
<1>12. Carried'
  <2>1. CASE p = "child"
    BY <1>1, <2>1 DEF PInv, PipeTypeOK, Carried, In, Forked, Pipes
  <2>2. CASE p = "parent"
    BY <1>1, <2>2 DEF PInv, PipeTypeOK, Carried, In, Forked, Pipes
  <2> QED
    BY <2>1, <2>2 DEF Forked
<1> QED
  BY <1>4, <1>6, <1>8, <1>9, <1>10, <1>11, <1>12 DEF PInv, Forked

LEMMA PipeWrites == ASSUME PInv, NEW p \in Forked, Pipe_write(p) PROVE PInv'
<1>1. /\ Does(p, "write") /\ UNCHANGED <<p_open, p_got>>
      /\ IF End(p) \in p_open[p]
         THEN /\ p_data' = [p_data EXCEPT ![Out(p)] = @ + 1]
              /\ p_sent' = [p_sent EXCEPT ![p] = @ + 1]
         ELSE UNCHANGED <<p_data, p_sent>>
  BY DEF Pipe_write
<1>2. p_at[p] = Writes_at(p) /\ End(p) = <<Out(p), 1>>
  <2>1. CASE p = "child"
    BY <1>1, <2>1, Does_facts, ChildCalls DEF Writes_at, Out
  <2>2. CASE p = "parent"
    BY <1>1, <2>2, Does_facts, ParentCalls DEF Writes_at, Out
  <2> QED
    BY <2>1, <2>2 DEF Forked
<1>3. /\ p_at'[p] = p_at[p] + 1 /\ p_round'[p] = p_round[p]
      /\ p_round[p] \in Nat
      /\ p_at' \in [Forked -> 1..6] /\ p_round' \in [Forked -> 0..PRounds]
  BY <1>1, <1>2, Does_facts DEF PInv, PipeTypeOK, Writes_at
<1>4. Moved(p) /\ Holds(p) /\ Lost_child /\ Lost_parent
  BY DEF PInv
<1>5. End(p) \in p_open[p] <=> p_round[p] = 0
  BY <1>2, <1>3, <1>4 DEF Holds, Writes_at
<1>6. \A x \in Forked \ {p} :
          /\ Moved(x)' /\ Holds(x)'
          /\ x = "child" => Lost_child'
          /\ x = "parent" => Lost_parent'
  BY <1>1, Does_facts, OtherKept DEF PInv, PipeTypeOK
<1>7. /\ p_sent'[p] = IF p_round[p] = 0 THEN p_sent[p] + 1 ELSE p_sent[p]
      /\ p_got'[p] = p_got[p] /\ p_open'[p] = p_open[p]
  BY <1>1, <1>5 DEF PInv, PipeTypeOK
<1>8. Moved(p)'
  BY <1>2, <1>3, <1>4, <1>7 DEF Moved, Done, Once, Writes_at, Reads_at
<1>9. Holds(p)'
  BY <1>2, <1>3, <1>4, <1>7 DEF Holds, Writes_at, Reads_at, In, Out
<1>10. (p = "child" => Lost_child') /\ (p = "parent" => Lost_parent')
  BY <1>2, <1>3, <1>4, <1>7 DEF Lost_child, Lost_parent, Writes_at
<1>11. PipeTypeOK'
  <2>1. p_sent' \in [Forked -> 0..PRounds]
    BY <1>1, <1>2, <1>4, <1>3, <1>5, PipeAssumption DEF PInv, PipeTypeOK, Moved, Done, Once
  <2>2. p_data' \in [Pipes -> Nat]
    BY <1>1 DEF PInv, PipeTypeOK
  <2> QED
    BY <1>1, <1>3, <2>1, <2>2 DEF PInv, PipeTypeOK
<1>12. Carried'
  <2>1. CASE p = "child"
    BY <1>1, <2>1 DEF PInv, PipeTypeOK, Carried, Out, Forked, Pipes
  <2>2. CASE p = "parent"
    BY <1>1, <2>2 DEF PInv, PipeTypeOK, Carried, Out, Forked, Pipes
  <2> QED
    BY <2>1, <2>2 DEF Forked
<1> QED
  BY <1>4, <1>6, <1>8, <1>9, <1>10, <1>11, <1>12 DEF PInv, Forked

LEMMA PipeMoves == ASSUME PInv, NEW p \in Forked, PipeStep(p) PROVE PInv'
  BY PipeCloses, PipeReads, PipeWrites DEF PipeStep

(* A process about to write has sent nothing, so the other one has got nothing *)
(* and not come to close the end it reads from.                                *)
LEMMA ReaderThere ==
    ASSUME PInv, NEW p \in Forked, p_round[p] < PRounds, This(p)[1] = "write",
           End(p) \in p_open[p]
    PROVE  \E x \in Forked : <<Out(p), 0>> \in p_open[x]
<1> DEFINE o == IF p = "child" THEN "parent" ELSE "child"
<1>1. o \in Forked /\ In(o) = Out(p) /\ p_data[Out(p)] = p_sent[p] - p_got[o]
  BY DEF PInv, Carried, Forked, In, Out
<1>2. /\ p_round[p] \in Nat /\ p_at[p] \in 1..6 /\ p_round[o] \in Nat /\ p_at[o] \in 1..6
      /\ p_data[Out(p)] \in Nat
  <2>1. PipeTypeOK
    BY DEF PInv
  <2>2. Out(p) \in Pipes
    BY DEF Out, Pipes
  <2> HIDE DEF o
  <2> QED BY <1>1, <2>1, <2>2, PipeAssumption, SMT DEF PipeTypeOK
<1>3. p_at[p] = Writes_at(p)
  <2>1. CASE p = "child"
    BY <1>2, <2>1, ChildCalls DEF This, Writes_at
  <2>2. CASE p = "parent"
    BY <1>2, <2>2, ParentCalls DEF This, Writes_at
  <2> QED BY <2>1, <2>2 DEF Forked
<1>4. p_round[p] = 0
  <2>1. Holds(p)
    BY DEF PInv
  <2>2. p_open[p] # {}
    OBVIOUS
  <2> HIDE DEF o
  <2> QED BY <1>2, <2>1, <2>2 DEF Holds
<1>5. p_sent[p] = 0
  BY <1>2, <1>3, <1>4 DEF PInv, Moved, Done, Once
<1>6. Moved(o) /\ Holds(o) /\ Reads_at(o) \in Nat
  BY <1>1 DEF PInv, Reads_at
<1> HIDE DEF o
<1>7. p_got[o] = 0
  BY <1>1, <1>2, <1>5, <1>6 DEF Moved, Once
<1>8. p_round[o] = 0 /\ p_at[o] <= Reads_at(o)
  BY <1>2, <1>6, <1>7 DEF Moved, Once, Done
<1> QED BY <1>1, <1>6, <1>8 DEF Holds

LEMMA PipeHolds == PInv => PipesHeld
<1> SUFFICES ASSUME PInv, NEW p \in Forked PROVE p_round[p] > 0 => p_got[p] > 0
  BY ReaderThere DEF PipesHeld
<1> QED BY DEF PInv, Moved, Done, Once
-----------------------------------------------------------------------------
(* kernel_module.c *)

KInv ==
    /\ TimerTypeOK
    /\ k_module = "out" => ~k_armed /\ k_callback = "idle"
    /\ QuietWhenUnloaded

LEMMA TimerStarts == TimerInit => KInv
  BY DEF TimerInit, KInv, TimerTypeOK, QuietWhenUnloaded

LEMMA TimerKept == KInv /\ UNCHANGED timerVars => KInv'
  BY DEF KInv, TimerTypeOK, QuietWhenUnloaded, timerVars

LEMMA TimerMoves == ASSUME KInv, TimerNext PROVE KInv'
  BY DEF KInv, TimerTypeOK, QuietWhenUnloaded, TimerNext, Callback, init_mytimer, Expires,
         callback_arms, callback_returns, cleanup_timer
-----------------------------------------------------------------------------
(* socket_server.c and socket_client.c *)

(* Over an accepted or a waiting connection the two take turns: what is on its *)
(* way is nothing, the client's message of its round, or the server's reply.   *)
Turn_of_client ==
    /\ n_at["client"] = "write" /\ n_at["server"] \in {"accept", "read"}
    /\ n_wire["client"] = << >> /\ n_wire["server"] = << >>
    /\ n_round["client"] = n_round["server"]
Sent ==
    /\ n_at["client"] = "read" /\ n_at["server"] \in {"accept", "read"}
    /\ n_wire["client"] = <<n_round["client"]>> /\ n_wire["server"] = << >>
    /\ n_round["client"] = n_round["server"]
Turn_of_server ==
    /\ n_at["client"] = "read" /\ n_at["server"] = "write"
    /\ n_wire["client"] = << >> /\ n_wire["server"] = << >>
    /\ n_round["client"] = n_round["server"]
Answered ==
    /\ n_at["client"] = "read"
    /\ n_wire["client"] = << >> /\ n_wire["server"] = <<n_round["client"]>>
    /\ n_round["server"] = n_round["client"] + 1
    /\ n_at["server"] = IF n_round["server"] = NRounds THEN "ended" ELSE "read"
Over ==
    /\ n_at["client"] = "ended" /\ n_at["server"] = "ended"
    /\ n_wire["client"] = << >> /\ n_wire["server"] = << >>

Unlinked ==
    /\ n_at["client"] \in {"start", "write", "killed"} /\ n_at["server"] \in {"start", "accept"}
    /\ n_wire["client"] = << >> /\ n_wire["server"] = << >>
    /\ n_round["client"] = 0

NInv ==
    /\ SocketTypeOK
    /\ \A x \in Hosts : n_at[x] \notin {"ended", "killed"} => n_round[x] < NRounds
    /\ n_con = "none" <=> n_at["server"] \in {"start", "accept"}
    /\ n_at["server"] \in {"start", "accept"} => n_round["server"] = 0
    /\ n_linked => n_at["server"] # "start" /\ n_at["client"] # "start"
    /\ n_con = "failed" => n_linked /\ n_wire["server"] = << >>
    /\ ~n_linked => Unlinked
    /\ n_linked /\ n_con # "failed" => Turn_of_client \/ Sent \/ Turn_of_server \/ Answered \/ Over
    /\ n_port = "none" <=> n_at["server"] = "start"
    /\ ~n_astray
    /\ n_empty => n_con = "failed"

LEMMA OneMessage ==
    ASSUME NEW r \in Nat
    PROVE  /\ Append(<< >>, r) = <<r>> /\ <<r>> # << >> /\ Tail(<<r>>) = << >>
           /\ Head(<<r>>) = r /\ <<r>> \in Seq(Nat)
  OBVIOUS

LEMMA MoreMessages ==
    ASSUME NEW w \in Seq(Nat), NEW r \in Nat
    PROVE  Append(w, r) \in Seq(Nat) /\ (w # << >> => Tail(w) \in Seq(Nat))
  OBVIOUS

LEMMA NetRounds == NRounds \in Nat /\ NRounds > 0
  BY SocketAssumption

LEMMA NetStarts == SocketInit => NInv
<1> SUFFICES ASSUME SocketInit PROVE NInv
  OBVIOUS
<1>1. << >> \in Seq(Nat)
  OBVIOUS
<1>2. SocketTypeOK
  <2>1. n_wire \in [Hosts -> Seq(Nat)]
    BY <1>1 DEF SocketInit
  <2>2. n_round \in [Hosts -> 0..NRounds]
    BY NetRounds DEF SocketInit
  <2>3. /\ n_port \in {"none", "9999", "other"} /\ n_linked \in BOOLEAN
        /\ n_con \in {"none", "open", "failed"}
        /\ n_at \in [Hosts -> {"start", "accept", "read", "write", "ended", "killed"}]
        /\ n_astray \in BOOLEAN /\ n_empty \in BOOLEAN
    BY DEF SocketInit
  <2> QED
    BY <2>1, <2>2, <2>3 DEF SocketTypeOK
<1> QED
  BY <1>2, NetRounds DEF SocketInit, NInv, Unlinked, Hosts

LEMMA NetKept == NInv /\ UNCHANGED socketVars => NInv'
  BY DEF NInv, SocketTypeOK, socketVars, Turn_of_client, Sent, Turn_of_server, Answered, Over,
         Unlinked

LEMMA NetListens == ASSUME NInv, Net_listen PROVE NInv'
<1> USE NetRounds DEF Hosts
<1>1. ~n_linked
  BY DEF NInv, Net_listen, Net_go
<1>2. SocketTypeOK'
  BY DEF NInv, SocketTypeOK, Net_listen, Net_go
<1> QED
  BY <1>1, <1>2 DEF NInv, SocketTypeOK, Net_listen, Net_go, Unlinked

LEMMA NetConnects == ASSUME NInv, Net_connect PROVE NInv'
<1> USE NetRounds DEF Hosts
<1>1. ~n_linked /\ Unlinked
  BY DEF NInv, Net_connect, Net_go
<1>2. SocketTypeOK'
  BY DEF NInv, SocketTypeOK, Net_connect, Net_go
<1>3. n_linked' => n_at["server"] = "accept" /\ n_con = "none" /\ Turn_of_client'
  BY <1>1 DEF NInv, SocketTypeOK, Net_connect, Net_go, Unlinked, Turn_of_client
<1>4. ~n_linked' => Unlinked'
  BY <1>1 DEF NInv, SocketTypeOK, Net_connect, Net_go, Unlinked
<1> QED
  BY <1>1, <1>2, <1>3, <1>4 DEF NInv, SocketTypeOK, Net_connect, Net_go

LEMMA NetAccepts == ASSUME NInv, Net_accept PROVE NInv'
<1> USE NetRounds DEF Hosts
<1>1. n_linked /\ n_con = "none" /\ (Turn_of_client \/ Sent)
  BY DEF NInv, SocketTypeOK, Net_accept, Net_go, Turn_of_client, Sent, Turn_of_server, Answered, Over
<1>2. SocketTypeOK'
  BY DEF NInv, SocketTypeOK, Net_accept, Net_go
<1>3. Turn_of_client' \/ Sent'
  BY <1>1 DEF NInv, SocketTypeOK, Net_accept, Net_go, Turn_of_client, Sent
<1>4. n_wire'["server"] = << >>
  BY <1>1 DEF Net_accept, Turn_of_client, Sent
<1> QED
  BY <1>1, <1>2, <1>3, <1>4 DEF NInv, SocketTypeOK, Net_accept, Net_go

LEMMA NetServerReads == ASSUME NInv, Server_reads PROVE NInv'
<1> USE NetRounds DEF Hosts
<1>1. /\ n_at["server"] = "read" /\ n_at' = [n_at EXCEPT !["server"] = "write"]
      /\ UNCHANGED <<n_port, n_linked, n_con, n_round, n_empty>>
  BY DEF Server_reads, Net_go
<1>2. n_linked /\ n_con # "none"
  BY <1>1 DEF NInv, Unlinked
<1>3. CASE n_con = "failed"
  <2>1. UNCHANGED <<n_wire, n_astray>>
    BY <1>3 DEF Server_reads
  <2>2. SocketTypeOK'
    BY <1>1, <2>1 DEF NInv, SocketTypeOK
  <2> QED
    BY <1>1, <1>2, <1>3, <2>1, <2>2 DEF NInv, SocketTypeOK
<1>4. CASE n_con = "open"
  <2>1. Takes("client", "server")
    BY <1>4 DEF Server_reads
  <2>2. Sent
    BY <1>1, <1>2, <1>4, <2>1, OneMessage
    DEF NInv, Takes, Turn_of_client, Sent, Turn_of_server, Answered, Over
  <2>3. n_round["client"] \in Nat /\ n_wire \in [Hosts -> Seq(Nat)]
    BY DEF NInv, SocketTypeOK
  <2>4. /\ n_wire' = [n_wire EXCEPT !["client"] = Tail(n_wire["client"])]
        /\ Tail(n_wire["client"]) = << >> /\ Head(n_wire["client"]) = n_round["server"]
    BY <2>1, <2>2, <2>3, OneMessage DEF Takes, Sent
  <2>5. n_wire'["client"] = << >> /\ n_wire'["server"] = << >> /\ n_astray' = FALSE
    BY <2>1, <2>2, <2>3, <2>4 DEF Takes, Sent, NInv
  <2>6. n_wire' \in [Hosts -> Seq(Nat)]
    BY <2>2, <2>3, <2>4, <2>5 DEF Sent
  <2>7. Turn_of_server'
    BY <1>1, <2>2, <2>5 DEF Turn_of_server, Sent, NInv, SocketTypeOK
  <2>8. SocketTypeOK'
    <3>1. /\ n_port' \in {"none", "9999", "other"} /\ n_linked' \in BOOLEAN
          /\ n_con' \in {"none", "open", "failed"}
          /\ n_at' \in [Hosts -> {"start", "accept", "read", "write", "ended", "killed"}]
          /\ n_round' \in [Hosts -> 0..NRounds] /\ n_empty' \in BOOLEAN
      BY <1>1 DEF NInv, SocketTypeOK
    <3> QED
      BY <3>1, <2>5, <2>6 DEF SocketTypeOK
  <2> QED
    BY <1>1, <1>2, <1>4, <2>5, <2>7, <2>8 DEF NInv, SocketTypeOK
<1> QED
  BY <1>2, <1>3, <1>4 DEF NInv, SocketTypeOK

LEMMA NetServerWrites == ASSUME NInv, Server_writes PROVE NInv'
<1> USE NetRounds DEF Hosts
<1>1. /\ n_at["server"] = "write"
      /\ n_at' = [n_at EXCEPT !["server"] = IF n_round["server"] + 1 = NRounds THEN "ended" ELSE "read"]
      /\ n_round' = [n_round EXCEPT !["server"] = @ + 1]
      /\ UNCHANGED <<n_port, n_linked, n_con, n_astray, n_empty>>
  BY DEF Server_writes, Round_over, Net_go
<1>2. n_linked /\ n_con # "none" /\ n_round["server"] < NRounds
  BY <1>1 DEF NInv, Unlinked
<1>3. n_at' \in [Hosts -> {"start", "accept", "read", "write", "ended", "killed"}]
  BY <1>1 DEF NInv, SocketTypeOK
<1>4. n_round' \in [Hosts -> 0..NRounds]
  BY <1>1, <1>2 DEF NInv, SocketTypeOK
<1>5. \A x \in Hosts : n_at'[x] \notin {"ended", "killed"} => n_round'[x] < NRounds
  BY <1>1, <1>2 DEF NInv, SocketTypeOK
<1>6. CASE n_con = "failed"
  <2>1. n_wire' = n_wire
    BY <1>6 DEF Server_writes
  <2>2. SocketTypeOK'
    BY <1>1, <1>3, <1>4, <2>1 DEF NInv, SocketTypeOK
  <2> QED
    BY <1>1, <1>2, <1>5, <1>6, <2>1, <2>2 DEF NInv, SocketTypeOK
<1>7. CASE n_con = "open"
  <2>1. Turn_of_server
    BY <1>1, <1>2, <1>7 DEF NInv, Turn_of_client, Sent, Turn_of_server, Answered, Over
  <2>2. n_round \in [Hosts -> 0..NRounds] /\ n_wire \in [Hosts -> Seq(Nat)]
    BY DEF NInv, SocketTypeOK
  <2>3. /\ n_wire' = [n_wire EXCEPT !["server"] = Append(n_wire["server"], n_round["server"])]
        /\ n_wire["server"] = << >> /\ n_wire["client"] = << >>
        /\ n_round["server"] = n_round["client"] /\ n_round["client"] \in Nat
    BY <1>7, <2>1, <2>2 DEF Server_writes, Turn_of_server
  <2>4. /\ n_wire' = [n_wire EXCEPT !["server"] = <<n_round["client"]>>]
        /\ <<n_round["client"]>> \in Seq(Nat)
    BY <2>3, OneMessage
  <2>5. n_wire' \in [Hosts -> Seq(Nat)]
    BY <2>2, <2>4
  <2>6. n_wire'["server"] = <<n_round["client"]>> /\ n_wire'["client"] = << >>
    BY <2>2, <2>3, <2>4
  <2>7. n_round'["server"] = n_round["client"] + 1 /\ n_round'["client"] = n_round["client"]
    BY <1>1, <2>2, <2>3
  <2>8. n_at'["client"] = "read"
        /\ n_at'["server"] = IF n_round'["server"] = NRounds THEN "ended" ELSE "read"
    BY <1>1, <2>1, <2>2, <2>3, <2>7 DEF Turn_of_server, NInv, SocketTypeOK
  <2>9. Answered'
    BY <2>6, <2>7, <2>8 DEF Answered
  <2>10. SocketTypeOK'
    BY <1>1, <1>3, <1>4, <2>5 DEF NInv, SocketTypeOK
  <2> QED
    BY <1>1, <1>2, <1>5, <1>7, <2>8, <2>9, <2>10 DEF NInv
<1> QED
  BY <1>2, <1>6, <1>7 DEF NInv, SocketTypeOK

LEMMA NetClientWrites == ASSUME NInv, Client_writes PROVE NInv'
<1> USE NetRounds DEF Hosts
<1>1. /\ n_at["client"] = "write" /\ n_at' = [n_at EXCEPT !["client"] = "read"]
      /\ n_linked
      /\ n_wire' = [n_wire EXCEPT !["client"] = Append(n_wire["client"], n_round["client"])]
      /\ UNCHANGED <<n_port, n_linked, n_con, n_round, n_astray, n_empty>>
  BY DEF Client_writes, Net_go
<1>2. /\ n_round["client"] \in Nat /\ n_wire["client"] \in Seq(Nat)
      /\ n_wire \in [Hosts -> Seq(Nat)]
  BY DEF NInv, SocketTypeOK
<1>3. n_wire' \in [Hosts -> Seq(Nat)] /\ n_wire'["server"] = n_wire["server"]
  BY <1>1, <1>2, MoreMessages
<1>4. SocketTypeOK'
  BY <1>1, <1>3 DEF NInv, SocketTypeOK
<1>5. n_con # "failed" => Sent'
  <2> SUFFICES ASSUME n_con # "failed" PROVE Sent'
    OBVIOUS
  <2>1. Turn_of_client
    BY <1>1 DEF NInv, Turn_of_client, Sent, Turn_of_server, Answered, Over
  <2>2. n_wire'["client"] = <<n_round["client"]>>
    BY <1>1, <1>2, <2>1, OneMessage DEF Turn_of_client
  <2> QED
    BY <1>1, <1>3, <2>1, <2>2 DEF Sent, Turn_of_client, NInv, SocketTypeOK
<1> QED
  BY <1>1, <1>3, <1>4, <1>5 DEF NInv, SocketTypeOK

LEMMA NetClientKilled == ASSUME NInv, Client_killed PROVE NInv'
  BY NetRounds DEF NInv, SocketTypeOK, Client_killed, Net_go, Unlinked, Hosts

LEMMA NetClientReads == ASSUME NInv, Client_reads PROVE NInv'
<1> USE NetRounds DEF Hosts
<1>1. /\ n_at["client"] = "read"
      /\ n_at' = [n_at EXCEPT !["client"] = IF n_round["client"] + 1 = NRounds THEN "ended" ELSE "write"]
      /\ n_round' = [n_round EXCEPT !["client"] = @ + 1]
      /\ UNCHANGED <<n_port, n_linked, n_con>>
  BY DEF Client_reads, Round_over, Net_go
<1>2. n_linked /\ n_round["client"] < NRounds
  BY <1>1 DEF NInv, Unlinked
<1>3. n_at' \in [Hosts -> {"start", "accept", "read", "write", "ended", "killed"}]
  BY <1>1 DEF NInv, SocketTypeOK
<1>4. n_round' \in [Hosts -> 0..NRounds]
  BY <1>1, <1>2 DEF NInv, SocketTypeOK
<1>5. \A x \in Hosts : n_at'[x] \notin {"ended", "killed"} => n_round'[x] < NRounds
  BY <1>1, <1>2 DEF NInv, SocketTypeOK
<1>6. CASE n_con = "failed"
  <2>1. n_wire["server"] = << >>
    BY <1>6 DEF NInv
  <2>2. UNCHANGED <<n_wire, n_astray>> /\ n_empty'
    BY <2>1 DEF Client_reads, Takes
  <2>3. SocketTypeOK'
    BY <1>1, <1>3, <1>4, <2>2 DEF NInv, SocketTypeOK
  <2> QED
    BY <1>1, <1>2, <1>5, <1>6, <2>2, <2>3 DEF NInv, SocketTypeOK
<1>7. CASE n_con # "failed"
  <2>1. n_round["client"] \in Nat /\ n_wire \in [Hosts -> Seq(Nat)]
    BY DEF NInv, SocketTypeOK
  <2>2. <<n_round["client"]>> # << >>
    BY <2>1, OneMessage
  <2>3. Answered
    BY <1>1, <1>2, <1>7, <2>2
    DEF NInv, Client_reads, Takes, Turn_of_client, Sent, Turn_of_server, Answered, Over
  <2>4. Takes("server", "client") /\ n_empty' = n_empty
    BY <2>2, <2>3 DEF Client_reads, Answered
  <2>5. /\ n_wire' = [n_wire EXCEPT !["server"] = << >>]
        /\ Head(n_wire["server"]) = n_round["client"]
    BY <2>1, <2>3, <2>4, OneMessage DEF Takes, Answered
  <2>6. n_wire'["server"] = << >> /\ n_wire'["client"] = << >>
    BY <2>1, <2>3, <2>5 DEF Answered
  <2>7. n_astray' = FALSE
    BY <2>4, <2>5 DEF Takes, NInv
  <2>8. << >> \in Seq(Nat)
    OBVIOUS
  <2>9. n_wire' \in [Hosts -> Seq(Nat)]
    BY <2>1, <2>5, <2>8
  <2>10. SocketTypeOK'
    <3>1. /\ n_port' \in {"none", "9999", "other"} /\ n_linked' \in BOOLEAN
          /\ n_con' \in {"none", "open", "failed"} /\ n_empty' \in BOOLEAN
      BY <1>1, <2>4 DEF NInv, SocketTypeOK
    <3> QED
      BY <3>1, <1>3, <1>4, <2>7, <2>9 DEF SocketTypeOK
  <2>11. Turn_of_client' \/ Over'
    BY <1>1, <1>3, <1>4, <2>3, <2>6 DEF Answered, Turn_of_client, Over, NInv, SocketTypeOK
  <2> QED
    BY <1>1, <1>2, <1>5, <1>7, <2>4, <2>6, <2>7, <2>10, <2>11 DEF NInv, SocketTypeOK
<1> QED
  BY <1>6, <1>7

LEMMA SocketMoves == ASSUME NInv, SocketNext PROVE NInv'
  BY NetListens, NetConnects, NetAccepts, NetServerReads, NetServerWrites, NetClientWrites,
     NetClientKilled, NetClientReads DEF SocketNext, Server_step, Client_step
-----------------------------------------------------------------------------
(* The five side by side *)

IInv == program \in Programs /\ QInv /\ SInv /\ PInv /\ NInv /\ KInv

LEMMA SamePeers == Peers = Forked
  BY DEF Peers, Forked

(* What holds of the exercises whichever of them runs.                         *)
THEOREM Invariant == Spec => []IInv
<1>1. Init => IInv
  BY QueueStarts, SharedStarts, PipeStarts, NetStarts, TimerStarts DEF Init, IInv
<1>2. IInv /\ [Next]_vars => IInv'
  <2> SUFFICES ASSUME IInv, [Next]_vars PROVE IInv'
    OBVIOUS
  <2>1. CASE \E p \in Peers : Msg(p)
    BY <2>1, QueueMoves, SharedKept, PipeKept, NetKept, TimerKept DEF IInv, Msg
  <2>2. CASE \E p \in Peers : Pipe(p)
    BY <2>2, SamePeers, QueueKept, SharedKept, PipeMoves, NetKept, TimerKept DEF IInv, Pipe
  <2>3. CASE Shared(SharedNext)
    BY <2>3, QueueKept, ParentMoves, ChildMoves, PipeKept, NetKept, TimerKept DEF IInv, Shared, SharedNext
  <2>4. CASE Kernel(TimerNext)
    BY <2>4, QueueKept, SharedKept, PipeKept, NetKept, TimerMoves DEF IInv, Kernel
  <2>5. CASE Socket(SocketNext)
    BY <2>5, QueueKept, SharedKept, PipeKept, SocketMoves, TimerKept DEF IInv, Socket
  <2>6. CASE UNCHANGED vars
    BY <2>6, QueueKept, SharedKept, PipeKept, NetKept, TimerKept DEF IInv, vars
  <2> QED
    BY <2>1, <2>2, <2>3, <2>4, <2>5, <2>6 DEF Next
<1> QED
  BY <1>1, <1>2, PTL DEF Spec

(* Every variable of the five programs has its type.                           *)
THEOREM TypeCorrect == Spec => []TypeOK
<1>1. IInv => TypeOK
  BY DEF IInv, TypeOK, QInv, SInv, PInv, NInv, KInv
<1> QED
  BY <1>1, Invariant, PTL

(* No process of shared.c reads memory nobody has written, unless a killed run *)
(* left the semaphore up (shared.c:108): any number of rounds, any value left. *)
(* The socket programs read the message of their round, or none once accept    *)
(* has failed (socket_server.c:64).                                            *)
THEOREM WrittenBeforeRead == Spec => []ReadsWritten
<1>1. IInv => ReadsWritten
  BY DEF IInv, SInv, NInv, ReadsWritten, Sides
<1> QED
  BY <1>1, Invariant, PTL

(* Whatever the number of rounds, and however parent and child overlap: every  *)
(* write of pipe.c that goes through has a reader, and both processes get a    *)
(* message in their first round (pipe.c:64-75, 91-98).                         *)
THEOREM EndsHeld == Spec => []PipesHeld
<1>1. IInv => PipesHeld
  BY PipeHolds DEF IInv
<1> QED
  BY <1>1, Invariant, PTL

(* The timer of kernel_module.c is silent after the unload unless del_timer    *)
(* met a running callback (kernel_module.c:57).                                *)
THEOREM QuietAfterUnload == Spec => []QuietWhenUnloaded
<1>1. IInv => QuietWhenUnloaded
  BY DEF IInv, KInv
<1> QED
  BY <1>1, Invariant, PTL

(* Parent and child of msg.c never wait for each other (msg.c:138), whatever a *)
(* killed run left in the queue.                                               *)
THEOREM NoDeadlock == Spec => []NeverBothWait
<1>1. IInv => NeverBothWait
  BY QueueNoDeadlock DEF IInv
<1> QED
  BY <1>1, Invariant, PTL
=============================================================================
