-------------------------- MODULE RtosLoggerProofs --------------------------
(***************************************************************************)
(* Why the tasks of the Homework 5 application do not get in each other's  *)
(* way: whatever an expiry of the timer sets off is over within Budget     *)
(* ticks, so the next expiry and the timeouts of the mutex come too late   *)
(* to matter.  The argument counts ticks.  AllWork bounds the ticks the    *)
(* senders still need; a step between two ticks does not raise it (but for *)
(* the Lag of a task that gives up or is handed the processor), and each   *)
(* tick that finds work left uses some up.                                 *)
(***************************************************************************)
EXTENDS RtosLogger, FiniteSetTheorems, TLAPS

Senders == {"led", "temp", "alert"}

(* The ticks from an expiry until all senders are asleep again, at most. *)
Budget == 21

(* The timer's period is longer than that, and a wait for the mutex is longer  *)
(* than what can be left of it when the wait begins, with the waiting task's   *)
(* own work still to come: in the code they are 100 ticks (init.c:62) and 20   *)
(* (mythread.c:50 and 76).                                                     *)
Unhurried == Period > Budget /\ MutexWait >= Budget - 2

(* The ticks since the last expiry. *)
Elapsed == Period - countdown

(* No task twice in a list, a task in it, and a task somewhere before another. *)
Distinct(r) == \A i, j \in DOMAIN r : i # j => r[i] # r[j]
In(r, t) == \E i \in DOMAIN r : r[i] = t
Ahead(r, a, b) == \E i, j \in DOMAIN r : i < j /\ r[i] = a /\ r[j] = b

(* The ready list holds each task that is blocked on nothing, once.            *)
Listed(r, o) ==
    /\ r \in Seq(Tasks)
    /\ Distinct(r)
    /\ \A t \in Tasks : In(r, t) <=> o[t] = "none"

(* The kernel's state: no priority is ever inherited. *)
Kernel ==
    /\ Listed(ready, on)
    /\ prio = Base
    /\ on \in [Tasks -> Resources]
    /\ left \in [Tasks -> {Forever, None} \cup 0..MutexWait]

(* The application's state has its types. *)
Application ==
    /\ pc \in [Tasks -> UNION {Points[t] : t \in Tasks}]
    /\ \A t \in Tasks : pc[t] \in Points[t]
    /\ semaphore \in [{"led", "temp"} -> BOOLEAN]
    /\ holder \in Tasks \cup {Nobody}
    /\ my_queue \in Seq(Tasks) /\ Len(my_queue) <= QueueLength
    /\ notified \in BOOLEAN /\ data \in BOOLEAN /\ used \in BOOLEAN
    /\ countdown \in 1..Period /\ count \in 0..(TempEvery - 1)

(* What wakes a sender, whether it has been given, and that a wait for the     *)
(* mutex began after the last expiry.                                          *)
Own(t) == IF t = "alert" THEN "notify" ELSE t
Woken(t) == IF t = "alert" THEN notified ELSE semaphore[t]
Waited(t) == left[t] + Elapsed >= MutexWait

(* What a sender can be blocked on, and for how long yet, at each point of its *)
(* code; a wakeup finds it at its take, and ready.                             *)
Placed(t) ==
    /\ Woken(t) => pc[t] = "take" /\ on[t] = "none"
    /\ pc[t] = "take" =>
          \/ on[t] = "none" /\ left[t] = IF Woken(t) THEN Forever ELSE None
          \/ on[t] = Own(t) /\ left[t] = Forever
          \/ on[t] = "delay" /\ t = "led" /\ left[t] \in {1, 2}
    /\ pc[t] = "mutex" =>
          \/ on[t] = "none" /\ (left[t] = None \/ (Waited(t) /\ t # "alert"))
          \/ on[t] = "mutex" /\ Waited(t) /\ t # "alert"
          \/ on[t] = "delay" /\ t = "led" /\ left[t] \in {1, 2}
    /\ pc[t] = "send" =>
          \/ on[t] = "none" /\ left[t] \in {None, 0}
          \/ on[t] = "none" /\ left[t] = 1 /\ Len(my_queue) < QueueLength
          \/ on[t] = "space" /\ left[t] = 1
    /\ pc[t] \notin {"take", "mutex", "send"} => on[t] = "none" /\ left[t] = None

(* The logger task waits for a record only when there is none. *)
LogPlaced ==
    \/ on["log"] = "none" /\ left["log"] \in {None, 0, 1}
    \/ on["log"] = "record" /\ left["log"] = 1 /\ pc["log"] = "receive" /\ my_queue = << >>

(* Who sends or gives, and nobody else, holds the mutex; who waits for a free  *)
(* one is not forgotten; and an alert finds it free.                           *)
Holding ==
    /\ \A t \in Senders : holder = t <=> pc[t] \in {"send", "give"}
    /\ holder # "log"
    /\ \A t \in Senders : on[t] = "mutex" /\ holder = Nobody =>
          \E u \in Senders : on[u] = "none" /\ pc[u] = "mutex"
    /\ notified \/ pc["alert"] = "mutex" => holder = Nobody

(* The logger task would run and not print. *)
Harmless == pc["log"] = "receive" /\ my_queue = << >>

(* From the expiry that wakes the temperature task to its notification, no     *)
(* tick can come: nothing is printed first, and the LED task is out of the way *)
(* until its delay is over.                                                    *)
Undisturbed ==
    semaphore["temp"] \/ pc["temp"] \in {"start", "notify"} =>
        /\ ~used
        /\ Ahead(ready, "log", "temp") => Harmless
        /\ on["alert"] = "notify"
        /\ holder = Nobody
        /\ \/ semaphore["led"]
           \/ pc["led"] = "flash"
           \/ pc["led"] = "mutex" /\ on["led"] = "delay"

(* The ticks a sender needs from where it is until it sleeps: one a step, plus *)
(* what its delays take and, for the temperature task, the alert task's share. *)
After(t) == IF t = "led" THEN 4 ELSE 1
Work(t) ==
    CASE pc[t] = "take" -> IF on[t] = "delay" THEN left[t] + 1
                           ELSE IF on[t] # "none" THEN 0
                           ELSE IF ~Woken(t) THEN 1
                           ELSE (CASE t = "led" -> 11 [] t = "temp" -> 10 [] t = "alert" -> 5)
      [] pc[t] = "flash" -> 11
      [] pc[t] \in {"start", "notify"} -> 10
      [] pc[t] = "mutex" -> After(t) + (CASE on[t] = "delay" -> left[t] + 4
                                        [] on[t] = "none" -> 4 [] on[t] = "mutex" -> 3)
      [] pc[t] = "send" -> After(t) + (IF on[t] = "space" THEN 3
                                       ELSE IF left[t] = None THEN 4 ELSE 2)
      [] pc[t] = "give" -> After(t) + 1
      [] pc[t] = "rest" -> After(t)

(* The ticks that the logger task may use up before a sender gets its turn. *)
Lag ==
    IF used THEN IF Current # "log" /\ on["log"] = "none" THEN 2 ELSE 1
            ELSE IF Current = "log" /\ ~Harmless THEN 1 ELSE 0
AllWork == Work("led") + Work("temp") + Work("alert")

(* All that is left to do is done in time. *)
InBudget == AllWork = 0 \/ Elapsed + Lag + AllWork <= Budget

(* The inductive invariant. *)
IInv ==
    /\ Kernel
    /\ Application
    /\ \A t \in Senders : Placed(t)
    /\ LogPlaced
    /\ Holding
    /\ Undisturbed
    /\ InBudget

-----------------------------------------------------------------------------
(* The ready list as a sequence *)

(* An element of the second of two lists. *)
LEMMA SecondPart ==
    ASSUME NEW S, NEW a \in Seq(S), NEW b \in Seq(S),
           NEW j \in 1..(Len(a) + Len(b)), j > Len(a)
    PROVE  (a \o b)[j] = b[j - Len(a)]
  OBVIOUS

(* Without one of its elements, a list keeps the others in their order. *)
LEMMA Dropped ==
    ASSUME NEW S, NEW r \in Seq(S), Distinct(r), NEW t \in S, In(r, t)
    PROVE  /\ Drop(r, t) \in Seq(S)
           /\ Distinct(Drop(r, t))
           /\ \A u : In(Drop(r, t), u) <=> In(r, u) /\ u # t
           /\ \A u, v : Ahead(Drop(r, t), u, v) => Ahead(r, u, v)
<1>1. PICK i \in DOMAIN r : r[i] = t
  BY DEF In
<1> DEFINE d == SubSeq(r, 1, i - 1) \o SubSeq(r, i + 1, Len(r))
<1>2. Drop(r, t) = d
  <2> DEFINE I == {j \in 1..Len(r) : r[j] = t}
  <2>1. I = {i}
    BY <1>1 DEF Distinct
  <2>2. Min(I) = i
    BY <2>1 DEF Min
  <2>3. SelectInSeq(r, LAMBDA v : v = t) = i
    BY <2>1, <2>2 DEF SelectInSeq
  <2>4. RemoveFirst(r, t) = RemoveAt(r, i)
    BY <1>1, <2>3 DEF RemoveFirst
  <2> QED
    BY <2>4 DEF Drop, RemoveAt
<1>3. /\ d \in Seq(S) /\ Len(d) = Len(r) - 1 /\ DOMAIN d = 1..(Len(r) - 1)
      /\ \A j \in DOMAIN d : d[j] = IF j < i THEN r[j] ELSE r[j + 1]
  <2>1. i \in 1..Len(r) /\ Len(r) \in Nat
    BY <1>1
  <2> DEFINE a == SubSeq(r, 1, i - 1)  b == SubSeq(r, i + 1, Len(r))
  <2>2. a \in Seq(S) /\ Len(a) = i - 1 /\ \A j \in 1..(i - 1) : a[j] = r[j]
    BY <2>1
  <2>3. b \in Seq(S) /\ Len(b) = Len(r) - i /\ \A j \in 1..(Len(r) - i) : b[j] = r[j + i]
    BY <2>1
  <2> HIDE DEF a, b
  <2>4. d = a \o b
    BY DEF a, b
  <2>5. a \o b \in Seq(S) /\ Len(a \o b) = Len(r) - 1 /\ DOMAIN (a \o b) = 1..(Len(r) - 1)
    BY <2>1, <2>2, <2>3
  <2> HIDE DEF d
  <2>6. ASSUME NEW j \in 1..(Len(r) - 1)
        PROVE  (a \o b)[j] = IF j < i THEN r[j] ELSE r[j + 1]
    <3>1. CASE j < i
      BY <2>1, <2>2, <2>3, <3>1
    <3>2. CASE j >= i
      <4>1. (a \o b)[j] = b[j - (i - 1)]
        <5>1. j \in 1..(Len(a) + Len(b)) /\ j > Len(a) /\ Len(a) = i - 1
          BY <2>1, <2>2, <2>3, <3>2
        <5>2. (a \o b)[j] = b[j - Len(a)]
          BY <2>2, <2>3, <5>1, SecondPart
        <5> QED
          BY <5>1, <5>2
      <4> QED
        BY <2>1, <2>3, <3>2, <4>1
    <3>3. j < i \/ j >= i
      BY <2>1
    <3> QED
      BY <3>1, <3>2, <3>3
  <2> QED
    BY <2>4, <2>5, <2>6
<1> HIDE DEF d
<1>4. Distinct(d)
  <2> SUFFICES ASSUME NEW j \in DOMAIN d, NEW k \in DOMAIN d, j # k PROVE d[j] # d[k]
    BY DEF Distinct
  <2> DEFINE Old(x) == IF x < i THEN x ELSE x + 1
  <2>1. Len(r) \in Nat /\ DOMAIN r = 1..Len(r) /\ DOMAIN d = 1..(Len(r) - 1) /\ i \in 1..Len(r)
    BY <1>1, <1>3
  <2>2. Old(j) \in DOMAIN r /\ Old(k) \in DOMAIN r /\ Old(j) # Old(k)
    BY <2>1
  <2>3. d[j] = r[Old(j)] /\ d[k] = r[Old(k)]
    BY <1>3
  <2> HIDE DEF Old
  <2> QED
    BY <2>2, <2>3 DEF Distinct
<1>5. \A u : In(d, u) <=> In(r, u) /\ u # t
  <2>1. ASSUME NEW u, In(d, u) PROVE In(r, u) /\ u # t
    BY <1>1, <1>3, <2>1 DEF In, Distinct
  <2>2. ASSUME NEW u, In(r, u), u # t PROVE In(d, u)
    <3>1. PICK j \in DOMAIN r : r[j] = u
      BY <2>2 DEF In
    <3>2. CASE j < i
      <4>1. j \in DOMAIN d /\ d[j] = u
        BY <1>1, <1>3, <3>1, <3>2
      <4> QED
        BY <4>1 DEF In
    <3>3. CASE j > i
      <4>1. j - 1 \in DOMAIN d /\ d[j - 1] = u
        BY <1>1, <1>3, <3>1, <3>3
      <4> QED
        BY <4>1 DEF In
    <3> QED
      BY <1>1, <2>2, <3>1, <3>2, <3>3
  <2> QED
    BY <2>1, <2>2
<1>6. ASSUME NEW u, NEW v, Ahead(d, u, v) PROVE Ahead(r, u, v)
  <2>1. PICK j, k \in DOMAIN d : j < k /\ d[j] = u /\ d[k] = v
    BY <1>6 DEF Ahead
  <2> DEFINE f(n) == IF n < i THEN n ELSE n + 1
  <2>2. f(j) \in DOMAIN r /\ f(k) \in DOMAIN r /\ f(j) < f(k) /\ r[f(j)] = u /\ r[f(k)] = v
    BY <1>1, <1>3, <2>1
  <2> QED
    BY <2>2 DEF Ahead
<1> QED
  BY <1>2, <1>3, <1>4, <1>5, <1>6

(* Two lists that share nothing, one behind the other. *)
LEMMA Joined ==
    ASSUME NEW S, NEW r \in Seq(S), NEW s \in Seq(S), Distinct(r), Distinct(s),
           \A u : ~(In(r, u) /\ In(s, u))
    PROVE  /\ r \o s \in Seq(S)
           /\ Distinct(r \o s)
           /\ \A u : In(r \o s, u) <=> In(r, u) \/ In(s, u)
           /\ r # << >> => (r \o s)[1] = r[1] /\ r \o s # << >>
<1>1. /\ r \o s \in Seq(S) /\ DOMAIN (r \o s) = 1..(Len(r) + Len(s))
      /\ \A i \in 1..Len(r) : (r \o s)[i] = r[i]
      /\ \A i \in 1..Len(s) : (r \o s)[i + Len(r)] = s[i]
      /\ Len(r) \in Nat /\ Len(s) \in Nat /\ Len(r \o s) = Len(r) + Len(s)
      /\ DOMAIN r = 1..Len(r) /\ DOMAIN s = 1..Len(s)
  OBVIOUS
<1> DEFINE c == r \o s
<1> HIDE DEF c
<1>2. \A i \in DOMAIN c : \/ i \in DOMAIN r /\ c[i] = r[i]
                          \/ i - Len(r) \in DOMAIN s /\ c[i] = s[i - Len(r)]
  <2> TAKE i \in DOMAIN c
  <2>1. CASE i <= Len(r)
    BY <1>1, <2>1 DEF c
  <2>2. CASE i > Len(r)
    <3>1. i - Len(r) \in 1..Len(s) /\ (i - Len(r)) + Len(r) = i
      BY <1>1, <2>2 DEF c
    <3> QED
      BY <1>1, <3>1 DEF c
  <2> QED
    BY <1>1, <2>1, <2>2 DEF c
<1>3. ASSUME NEW i \in DOMAIN c, NEW j \in DOMAIN c, i # j PROVE c[i] # c[j]
  <2>1. CASE i \in DOMAIN r /\ c[i] = r[i] /\ j \in DOMAIN r /\ c[j] = r[j]
    BY <1>3, <2>1 DEF Distinct
  <2>2. CASE i - Len(r) \in DOMAIN s /\ c[i] = s[i - Len(r)] /\ j - Len(r) \in DOMAIN s /\ c[j] = s[j - Len(r)]
    <3>1. i - Len(r) # j - Len(r)
      BY <1>1, <1>3 DEF c
    <3> QED
      BY <2>2, <3>1 DEF Distinct
  <2>3. CASE i \in DOMAIN r /\ c[i] = r[i] /\ j - Len(r) \in DOMAIN s /\ c[j] = s[j - Len(r)]
    BY <2>3 DEF In
  <2>4. CASE j \in DOMAIN r /\ c[j] = r[j] /\ i - Len(r) \in DOMAIN s /\ c[i] = s[i - Len(r)]
    BY <2>4 DEF In
  <2> QED
    BY <1>2, <2>1, <2>2, <2>3, <2>4
<1>4. ASSUME NEW u, In(c, u) PROVE In(r, u) \/ In(s, u)
  BY <1>2, <1>4 DEF In
<1>5. ASSUME NEW u, In(r, u) PROVE In(c, u)
  <2>1. PICK i \in DOMAIN r : r[i] = u
    BY <1>5 DEF In
  <2>2. i \in DOMAIN c /\ c[i] = u
    BY <1>1, <2>1 DEF c
  <2> QED
    BY <2>2 DEF In
<1>6. ASSUME NEW u, In(s, u) PROVE In(c, u)
  <2>1. PICK i \in DOMAIN s : s[i] = u
    BY <1>6 DEF In
  <2>2. i + Len(r) \in DOMAIN c /\ c[i + Len(r)] = u
    BY <1>1, <2>1 DEF c
  <2> QED
    BY <2>2 DEF In
<1>7. r # << >> => c[1] = r[1] /\ c # << >>
  <2> SUFFICES ASSUME r # << >> PROVE c[1] = r[1] /\ c # << >>
    OBVIOUS
  <2>1. Len(r) > 0
    OBVIOUS
  <2>2. c[1] = r[1] /\ Len(c) > 0
    BY <1>1, <2>1 DEF c
  <2> QED
    BY <2>2
<1> QED
  BY <1>1, <1>3, <1>4, <1>5, <1>6, <1>7 DEF c, Distinct

(* A list of one. *)
LEMMA Single ==
    ASSUME NEW S, NEW t \in S
    PROVE  /\ <<t>> \in Seq(S) /\ Distinct(<<t>>) /\ <<t>> # << >> /\ <<t>>[1] = t
           /\ \A u : In(<<t>>, u) <=> u = t
  BY DEF Distinct, In

(* A list of none. *)
LEMMA Empty ==
    ASSUME NEW S
    PROVE  /\ << >> \in Seq(S) /\ Distinct(<< >>)
           /\ \A u : ~In(<< >>, u)
  BY DEF Distinct, In

(* The last of a list is ahead of nobody.                                      *)
LEMMA LastInLine ==
    ASSUME NEW S, NEW r \in Seq(S), NEW t \in S, Distinct(r), ~In(r, t), NEW u
    PROVE  ~Ahead(r \o <<t>>, t, u)
<1> DEFINE c == r \o <<t>>
<1>1. DOMAIN c = 1..(Len(r) + 1) /\ Len(r) \in Nat /\ (\A i \in 1..Len(r) : c[i] = r[i])
  OBVIOUS
<1>2. DOMAIN r = 1..Len(r)
  OBVIOUS
<1> HIDE DEF c
<1>3. ASSUME NEW i \in DOMAIN c, NEW j \in DOMAIN c, i < j, c[i] = t PROVE FALSE
  BY <1>1, <1>2, <1>3 DEF In
<1> QED
  BY <1>3 DEF Ahead, c

(* The tasks a tick makes ready, in some order.                                *)
LEMMA InSomeOrder ==
    ASSUME NEW S, NEW W \in SUBSET S, IsFiniteSet(W), NEW w \in SetToSeqs(W)
    PROVE  w \in Seq(S) /\ Distinct(w) /\ \A u : In(w, u) <=> u \in W
<1> DEFINE n == Cardinality(W)
<1>1. n \in Nat
  BY FS_CardinalityType
<1>2. w \in [1..n -> W] /\ \A i, j \in 1..n : i # j => w[i] # w[j]
  BY DEF SetToSeqs
<1>3. w \in Injection(1..n, W)
  BY <1>2 DEF Injection, IsInjective
<1>4. Cardinality(1..n) = n /\ IsFiniteSet(1..n)
  <2> HIDE DEF n
  <2> QED
    BY <1>1, FS_Interval
<1>5. w \in Surjection(1..n, W)
  BY <1>3, <1>4, FS_Injection
<1>6. \A t \in W : \E i \in 1..n : w[i] = t
  BY <1>5 DEF Surjection
<1> HIDE DEF n
<1>7. w \in Seq(S) /\ DOMAIN w = 1..n
  BY <1>1, <1>2
<1> QED
  BY <1>2, <1>6, <1>7 DEF In, Distinct
-----------------------------------------------------------------------------
(* The calls of the kernel, at the priorities of the application *)

(* The constants, as the assumptions have them. *)
LEMMA TheTasks ==
    /\ Tasks = {"led", "temp", "log", "alert"}
    /\ Base = [t \in Tasks |-> IF t = "alert" THEN 2 ELSE 1]
    /\ Idle \notin Tasks /\ Nobody \notin Tasks
    /\ Period \in Nat /\ Period > 0 /\ TempEvery \in Nat /\ TempEvery > 0
    /\ MutexWait \in Nat /\ MutexWait > 0 /\ QueueLength \in Nat /\ QueueLength > 0
  BY KernelAssumption, LoggerAssumption

(* Who runs: the alert task if it can, else the first in line.                 *)
LEMMA Election ==
    ASSUME NEW r \in Seq(Tasks), Distinct(r)
    PROVE  /\ r = << >> => Elected(r, Base) = Idle
           /\ In(r, "alert") => Elected(r, Base) = "alert"
           /\ r # << >> /\ ~In(r, "alert") => Elected(r, Base) = r[1]
<1> DEFINE Top(i) == \A j \in DOMAIN r : Base[r[j]] <= Base[r[i]] /\ (j < i => Base[r[j]] < Base[r[i]])
<1>1. r = << >> => Elected(r, Base) = Idle
  BY DEF Elected
<1>2. r # << >> => Elected(r, Base) = r[CHOOSE i \in DOMAIN r : Top(i)]
  BY DEF Elected
<1>3. DOMAIN r = 1..Len(r) /\ Len(r) \in Nat /\ \A i \in DOMAIN r : r[i] \in Tasks
  OBVIOUS
<1>4. \A i \in DOMAIN r : Base[r[i]] = IF r[i] = "alert" THEN 2 ELSE 1
  BY <1>3, TheTasks
<1>5. ASSUME In(r, "alert") PROVE Elected(r, Base) = "alert"
  <2>1. PICK a \in DOMAIN r : r[a] = "alert"
    BY <1>5 DEF In
  <2>2. \A j \in DOMAIN r : j # a => r[j] # "alert"
    BY <2>1 DEF Distinct
  <2>3. Top(a)
    BY <1>3, <1>4, <2>1, <2>2
  <2>4. \A i \in DOMAIN r : Top(i) => i = a
    BY <1>3, <1>4, <2>1, <2>2
  <2>5. (CHOOSE i \in DOMAIN r : Top(i)) = a
    <3> HIDE DEF Top
    <3> QED
      BY <2>3, <2>4
  <2>6. r # << >>
    BY <1>3, <2>1
  <2> QED
    BY <1>2, <2>1, <2>5, <2>6
<1>6. ASSUME r # << >>, ~In(r, "alert") PROVE Elected(r, Base) = r[1]
  <2>1. \A j \in DOMAIN r : Base[r[j]] = 1
    BY <1>4, <1>6 DEF In
  <2>2. 1 \in DOMAIN r
    BY <1>3, <1>6
  <2>3. Top(1)
    BY <1>3, <2>1, <2>2
  <2>4. \A i \in DOMAIN r : Top(i) => i = 1
    BY <1>3, <2>1, <2>2
  <2>5. (CHOOSE i \in DOMAIN r : Top(i)) = 1
    <3> HIDE DEF Top
    <3> QED
      BY <2>2, <2>3, <2>4
  <2> QED
    BY <1>2, <1>6, <2>5
<1> QED
  BY <1>1, <1>5, <1>6

(* Who runs is ready, the alert task if it is; the logger task runs when it is *)
(* ahead of all.                                                               *)
LEMMA Running ==
    ASSUME NEW r, NEW o, Listed(r, o)
    PROVE  /\ Elected(r, Base) \in Tasks \/ Elected(r, Base) = Idle
           /\ Elected(r, Base) \in Tasks => o[Elected(r, Base)] = "none"
           /\ o["alert"] = "none" => Elected(r, Base) = "alert"
           /\ \A t \in Tasks : o[t] = "none" => Elected(r, Base) \in Tasks
           /\ \A t \in Tasks : Elected(r, Base) = "log" /\ t # "log" /\ o[t] = "none"
                 => Ahead(r, "log", t)
<1> DEFINE c == Elected(r, Base)
<1>1. /\ r \in Seq(Tasks) /\ Distinct(r) /\ (\A t \in Tasks : In(r, t) <=> o[t] = "none")
      /\ "alert" \in Tasks /\ "log" \in Tasks /\ Idle \notin Tasks
  BY TheTasks DEF Listed
<1> HIDE DEF c
<1> SUFFICES
      /\ c \in Tasks \/ c = Idle
      /\ c \in Tasks => o[c] = "none"
      /\ o["alert"] = "none" => c = "alert"
      /\ \A t \in Tasks : o[t] = "none" => c \in Tasks
      /\ \A t \in Tasks : c = "log" /\ t # "log" /\ o[t] = "none" => Ahead(r, "log", t)
  BY DEF c
<1>2. CASE r = << >>
  <2>1. c = Idle /\ \A t \in Tasks : ~In(r, t)
    BY <1>1, <1>2, Election, Empty DEF c
  <2> QED
    BY <1>1, <2>1
<1>3. CASE In(r, "alert")
  <2>1. c = "alert"
    BY <1>1, <1>3, Election DEF c
  <2> QED
    BY <1>1, <1>3, <2>1
<1>4. CASE r # << >> /\ ~In(r, "alert")
  <2>1. c = r[1]
    BY <1>1, <1>4, Election DEF c
  <2>2. 1 \in DOMAIN r /\ r[1] \in Tasks
    BY <1>1, <1>4
  <2>3. In(r, r[1])
    BY <2>2 DEF In
  <2>4. ASSUME NEW t \in Tasks, c = "log", t # "log", o[t] = "none" PROVE Ahead(r, "log", t)
    <3>1. PICK i \in DOMAIN r : r[i] = t
      BY <1>1, <2>4 DEF In
    <3>2. i > 1
      <4>1. i \in Nat /\ i > 0
        BY <1>1
      <4>2. i # 1
        BY <2>1, <2>4, <3>1
      <4> QED
        BY <4>1, <4>2
    <3> QED
      BY <2>1, <2>2, <2>4, <3>1, <3>2 DEF Ahead
  <2> QED
    BY <1>1, <1>4, <2>1, <2>2, <2>3, <2>4
<1> QED
  BY <1>2, <1>3, <1>4

(* One more in line, and who runs is the same.                                 *)
LEMMA Queued ==
    ASSUME NEW r \in Seq(Tasks), Distinct(r), NEW t \in Tasks, ~In(r, t)
    PROVE  /\ r \o <<t>> \in Seq(Tasks) /\ Distinct(r \o <<t>>)
           /\ \A u : In(r \o <<t>>, u) <=> In(r, u) \/ u = t
           /\ r # << >> /\ t # "alert" => Elected(r \o <<t>>, Base) = Elected(r, Base)
           /\ r # << >> /\ t # "alert" => Elected(r \o <<t>>, Base) # t
<1>1. <<t>> \in Seq(Tasks) /\ Distinct(<<t>>) /\ \A u : In(<<t>>, u) <=> u = t
  BY Single
<1> DEFINE s == <<t>>
<1> HIDE DEF s
<1>2. /\ r \o s \in Seq(Tasks) /\ Distinct(r \o s)
      /\ (\A u : In(r \o s, u) <=> In(r, u) \/ u = t)
      /\ r # << >> => (r \o s)[1] = r[1] /\ r \o s # << >>
  <2>1. s \in Seq(Tasks) /\ Distinct(s) /\ \A u : In(s, u) <=> u = t
    BY <1>1 DEF s
  <2>2. \A u : ~(In(r, u) /\ In(s, u))
    BY <2>1
  <2>3. /\ r \o s \in Seq(Tasks) /\ Distinct(r \o s)
        /\ (\A u : In(r \o s, u) <=> In(r, u) \/ In(s, u))
        /\ r # << >> => (r \o s)[1] = r[1] /\ r \o s # << >>
    BY <2>1, <2>2, Joined
  <2> QED
    BY <2>1, <2>3
<1>3. ASSUME r # << >>, t # "alert"
      PROVE  Elected(r \o s, Base) = Elected(r, Base) /\ Elected(r \o s, Base) # t
  <2>1. CASE In(r, "alert")
    BY <1>2, <1>3, <2>1, Election
  <2>2. CASE ~In(r, "alert")
    <3>1. Elected(r \o s, Base) = r[1] /\ Elected(r, Base) = r[1]
      BY <1>2, <1>3, <2>2, Election
    <3>2. In(r, r[1])
      BY <1>3 DEF In
    <3> QED
      BY <3>1, <3>2
  <2> QED
    BY <2>1, <2>2
<1> QED
  BY <1>2, <1>3 DEF s

(* A call that blocks takes the caller off the list. *)
LEMMA Blocking ==
    ASSUME Listed(ready, on), prio = Base, on \in [Tasks -> Resources],
           NEW t \in Tasks, on[t] = "none", NEW r \in Resources \ {"none"}, NEW w,
           Blocks(t, r, w, prio)
    PROVE  /\ Listed(ready', on') /\ prio' = Base
           /\ on' = [on EXCEPT ![t] = r] /\ on' \in [Tasks -> Resources]
           /\ left' = [left EXCEPT ![t] = IF @ = None THEN w ELSE @]
           /\ \A u, v : Ahead(ready', u, v) => Ahead(ready, u, v)
<1>1. /\ ready \in Seq(Tasks) /\ Distinct(ready) /\ (\A u \in Tasks : In(ready, u) <=> on[u] = "none")
      /\ In(ready, t)
  BY DEF Listed
<1>2. /\ Drop(ready, t) \in Seq(Tasks) /\ Distinct(Drop(ready, t))
      /\ (\A u : In(Drop(ready, t), u) <=> In(ready, u) /\ u # t)
      /\ (\A u, v : Ahead(Drop(ready, t), u, v) => Ahead(ready, u, v))
  BY <1>1, Dropped
<1>3. ready' = Drop(ready, t) /\ on' = [on EXCEPT ![t] = r] /\ prio' = prio
  BY DEF Blocks
<1>4. \A u \in Tasks : In(ready', u) <=> on'[u] = "none"
  BY <1>1, <1>2, <1>3
<1> QED
  BY <1>2, <1>3, <1>4 DEF Listed, Blocks

(* A wakeup hands over the processor to the alert task, and to no other.       *)
LEMMA Waking ==
    ASSUME Listed(ready, on), prio = Base, on \in [Tasks -> Resources], Current \in Tasks,
           NEW u \in Tasks, on[u] # "none", on' = [on EXCEPT ![u] = "none"],
           Reschedule(<<u>>, prio)
    PROVE  /\ Listed(ready', on') /\ prio' = Base
           /\ Elected(ready', Base) = IF u = "alert" THEN "alert" ELSE Current
<1>1. /\ ready \in Seq(Tasks) /\ Distinct(ready) /\ (\A v \in Tasks : In(ready, v) <=> on[v] = "none")
      /\ ~In(ready, u)
  BY DEF Listed
<1>2. Current = Elected(ready, Base)
  BY DEF Current
<1>3. on[Current] = "none" /\ In(ready, Current) /\ Current # u
  BY <1>1, <1>2, Running
<1>4. ready # << >>
  BY <1>2, <1>1, Election, TheTasks
<1>5. CASE u = "alert"
  <2> DEFINE d == Drop(ready, Current)
  <2>1. ready' = d \o <<u>> \o <<Current>>
    <3>1. Base[u] > Base[Current]
      BY <1>3, <1>5, TheTasks
    <3>2. <<u>>[1] = u /\ 1 \in DOMAIN <<u>>
      OBVIOUS
    <3> QED
      BY <3>1, <3>2 DEF Reschedule
  <2>2. d \in Seq(Tasks) /\ Distinct(d) /\ \A v : In(d, v) <=> In(ready, v) /\ v # Current
    BY <1>1, <1>3, Dropped
  <2> HIDE DEF d
  <2>3. /\ d \o <<u>> \in Seq(Tasks) /\ Distinct(d \o <<u>>)
        /\ \A v : In(d \o <<u>>, v) <=> In(d, v) \/ v = u
    BY <1>1, <2>2, Queued
  <2>4. ~In(d \o <<u>>, Current)
    BY <1>3, <2>2, <2>3
  <2>5. /\ ready' \in Seq(Tasks) /\ Distinct(ready')
        /\ \A v : In(ready', v) <=> In(d \o <<u>>, v) \/ v = Current
    <3> DEFINE e == d \o <<u>>
    <3> HIDE DEF e
    <3>1. /\ e \o <<Current>> \in Seq(Tasks) /\ Distinct(e \o <<Current>>)
          /\ \A v : In(e \o <<Current>>, v) <=> In(e, v) \/ v = Current
      BY <2>3, <2>4, Queued DEF e
    <3> QED
      BY <2>1, <3>1 DEF e
  <2>6. \A v \in Tasks : In(ready', v) <=> on'[v] = "none"
    BY <1>1, <1>3, <2>2, <2>3, <2>5
  <2>7. Elected(ready', Base) = "alert"
    BY <1>5, <2>3, <2>5, Election
  <2> QED
    BY <1>5, <2>5, <2>6, <2>7 DEF Listed, Reschedule
<1>6. CASE u # "alert"
  <2>1. ready' = ready \o <<u>>
    <3>1. ~(Base[u] > Base[Current])
      BY <1>6, TheTasks
    <3>2. DOMAIN <<u>> = {1} /\ <<u>>[1] = u
      OBVIOUS
    <3>3. ~(prio[Current] < prio[Current])
      BY TheTasks
    <3> QED
      BY <3>1, <3>2, <3>3 DEF Reschedule
  <2>2. /\ ready' \in Seq(Tasks) /\ Distinct(ready')
        /\ (\A v : In(ready', v) <=> In(ready, v) \/ v = u)
        /\ Elected(ready', Base) = Elected(ready, Base)
    BY <1>1, <1>4, <1>6, <2>1, Queued
  <2>3. \A v \in Tasks : In(ready', v) <=> on'[v] = "none"
    BY <1>1, <2>2
  <2> QED
    BY <1>2, <1>6, <2>2, <2>3 DEF Listed, Reschedule
<1> QED
  BY <1>5, <1>6

(* A call that makes something available wakes who waits for it, if anyone. *)
LEMMA Signalling ==
    ASSUME Listed(ready, on), prio = Base, on \in [Tasks -> Resources], Current \in Tasks,
           NEW t \in Tasks, NEW r \in Resources \ {"none"}, Signals(t, r, prio)
    PROVE  /\ Listed(ready', on') /\ prio' = Base /\ left' = [left EXCEPT ![t] = None]
           /\ on' \in [Tasks -> Resources]
           /\ \/ /\ \A u \in Tasks : on[u] # r
                 /\ on' = on /\ ready' = ready
              \/ \E u \in Tasks :
                    /\ on[u] = r /\ on' = [on EXCEPT ![u] = "none"]
                    /\ Elected(ready', Base) = IF u = "alert" THEN "alert" ELSE Current
<1>1. left' = [left EXCEPT ![t] = None]
  BY DEF Signals
<1>2. CASE Foremost(r, prio) = {} /\ on' = on /\ Reschedule(<< >>, prio)
  <2>1. ~(prio[Current] < prio[Current])
    BY TheTasks
  <2>2. DOMAIN << >> = {}
    OBVIOUS
  <2>3. ready' = ready \o << >> /\ prio' = prio
    BY <1>2, <2>1, <2>2 DEF Reschedule
  <2>4. ready' = ready
    BY <2>3 DEF Listed
  <2>5. \A u \in Tasks : on[u] # r
    <3>1. \A u, v \in Tasks : u = "alert" \/ v # "alert" => Base[v] <= Base[u]
      BY TheTasks
    <3>2. ASSUME NEW u \in Tasks, on[u] = r PROVE FALSE
      <4>1. CASE on["alert"] = r
        BY <1>2, <3>1, <4>1, TheTasks DEF Foremost
      <4>2. CASE on["alert"] # r
        BY <1>2, <3>1, <3>2, <4>2 DEF Foremost
      <4> QED
        BY <4>1, <4>2
    <3> QED
      BY <3>2
  <2> QED
    BY <1>1, <1>2, <2>3, <2>4, <2>5
<1>3. ASSUME NEW u \in Foremost(r, prio), on' = [on EXCEPT ![u] = "none"], Reschedule(<<u>>, prio)
      PROVE  /\ on[u] = r /\ u \in Tasks /\ on' \in [Tasks -> Resources]
             /\ Listed(ready', on') /\ prio' = Base
             /\ Elected(ready', Base) = IF u = "alert" THEN "alert" ELSE Current
  <2>1. u \in Tasks /\ on[u] = r /\ on[u] # "none"
    BY DEF Foremost
  <2>2. on' \in [Tasks -> Resources]
    BY <1>3 DEF Resources
  <2> QED
    BY <1>3, <2>1, <2>2, Waking
<1> QED
  BY <1>1, <1>2, <1>3 DEF Signals

(* The logger task, if it runs, is last after the tick: behind whoever else is *)
(* ready then.                                                                 *)
LEMMA Ticking ==
    ASSUME Listed(ready, on), prio = Base, on \in [Tasks -> Resources],
           NEW G \in SUBSET Tasks, \A t \in G : on[t] # "none", Tick(G)
    PROVE  /\ Listed(ready', on') /\ prio' = Base /\ on' \in [Tasks -> Resources]
           /\ on' = [t \in Tasks |-> IF t \in Due \cup G THEN "none" ELSE on[t]]
           /\ left' = [t \in Tasks |-> IF t \in Due \cup G /\ on[t] = "delay" THEN None
                                       ELSE IF left[t] > 0 THEN left[t] - 1 ELSE left[t]]
           /\ Current = "log" => /\ \A u : ~Ahead(ready', "log", u)
                                 /\ \A u \in Tasks : u # "log" /\ on'[u] = "none"
                                       => Elected(ready', Base) # "log"
<1> DEFINE W == Due \cup G
<1>1. /\ on' = [t \in Tasks |-> IF t \in W THEN "none" ELSE on[t]]
      /\ left' = [t \in Tasks |-> IF t \in W /\ on[t] = "delay" THEN None
                                  ELSE IF left[t] > 0 THEN left[t] - 1 ELSE left[t]]
      /\ prio' = Base
  BY DEF Tick
<1>2. W \in SUBSET Tasks /\ \A t \in W : on[t] # "none"
  BY DEF Due
<1>3. PICK w \in SetToSeqs(W) :
         ready' = IF Current = Idle THEN w ELSE Drop(ready, Current) \o w \o <<Current>>
  BY DEF Tick
<1> HIDE DEF W
<1>4. IsFiniteSet(W)
  <2>1. IsFiniteSet(Tasks)
    <3>1. Tasks = (({"led"} \cup {"temp"}) \cup {"log"}) \cup {"alert"}
      BY TheTasks
    <3>2. IsFiniteSet({"led"}) /\ IsFiniteSet({"led"} \cup {"temp"})
      BY FS_Singleton, FS_AddElement
    <3>3. IsFiniteSet(({"led"} \cup {"temp"}) \cup {"log"})
      BY <3>2, FS_AddElement
    <3> QED
      BY <3>1, <3>3, FS_AddElement
  <2> QED
    BY <1>2, <2>1, FS_Subset
<1>5. w \in Seq(Tasks) /\ Distinct(w) /\ \A u : In(w, u) <=> u \in W
  BY <1>2, <1>4, InSomeOrder
<1>6. /\ ready \in Seq(Tasks) /\ Distinct(ready)
      /\ \A u \in Tasks : In(ready, u) <=> on[u] = "none"
  BY DEF Listed
<1>7. on' \in [Tasks -> Resources]
  BY <1>1 DEF Resources
<1>8. Current = Elected(ready, Base)
  BY DEF Current
<1>9. CASE Current = Idle
  <2>1. \A u \in Tasks : on[u] # "none"
    BY <1>8, <1>9, Running, TheTasks
  <2>2. \A u \in Tasks : In(w, u) <=> on'[u] = "none"
    BY <1>1, <1>2, <1>5, <2>1
  <2>3. ready' = w
    BY <1>3, <1>9
  <2>4. Current # "log"
    BY <1>9, TheTasks
  <2> QED
    BY <1>1, <1>5, <1>7, <2>2, <2>3, <2>4 DEF Listed, W
<1>10. CASE Current # Idle
  <2>1. Current \in Tasks /\ on[Current] = "none" /\ In(ready, Current) /\ Current \notin W
    BY <1>2, <1>6, <1>8, <1>10, Running
  <2> DEFINE d == Drop(ready, Current)
  <2>2. d \in Seq(Tasks) /\ Distinct(d) /\ \A v : In(d, v) <=> In(ready, v) /\ v # Current
    BY <1>6, <2>1, Dropped
  <2>3. ready' = d \o w \o <<Current>>
    BY <1>3, <1>10
  <2> HIDE DEF d
  <2>4. \A v : ~(In(d, v) /\ In(w, v))
    BY <1>2, <1>5, <1>6, <2>2
  <2> DEFINE e == d \o w
  <2>5. e \in Seq(Tasks) /\ Distinct(e) /\ \A v : In(e, v) <=> In(d, v) \/ In(w, v)
    BY <1>5, <2>2, <2>4, Joined
  <2>6. ready' = e \o <<Current>>
    BY <2>3
  <2> HIDE DEF e
  <2>7. ~In(e, Current)
    BY <1>5, <2>1, <2>2, <2>5
  <2>8. /\ ready' \in Seq(Tasks) /\ Distinct(ready')
        /\ \A v : In(ready', v) <=> In(e, v) \/ v = Current
        /\ e # << >> /\ Current # "alert" => Elected(ready', Base) # Current
    BY <2>1, <2>5, <2>6, <2>7, Queued
  <2>9. \A u \in Tasks : In(ready', u) <=> on'[u] = "none"
    BY <1>1, <1>2, <1>5, <1>6, <2>1, <2>2, <2>5, <2>8
  <2>10. ASSUME Current = "log" PROVE \A u : ~Ahead(ready', "log", u)
    BY <2>1, <2>5, <2>6, <2>7, <2>10, LastInLine
  <2>11. ASSUME Current = "log", NEW u \in Tasks, u # "log", on'[u] = "none"
         PROVE  Elected(ready', Base) # "log"
    <3>1. In(e, u)
      BY <2>8, <2>9, <2>11
    <3>2. e # << >>
      BY <3>1, Empty
    <3> QED
      BY <2>8, <2>11, <3>2
  <2> QED
    BY <1>1, <1>7, <2>8, <2>9, <2>10, <2>11 DEF Listed, W
<1> QED
  BY <1>9, <1>10
-----------------------------------------------------------------------------
(* What a step leaves alone, and what it wakes *)

(* The points of each task. *)
LEMMA Standing ==
    ASSUME Application
    PROVE  /\ pc["led"] \in {"take", "flash", "mutex", "send", "give", "rest"}
           /\ pc["temp"] \in {"take", "start", "notify", "mutex", "send", "give"}
           /\ pc["alert"] \in {"take", "mutex", "send", "give"}
           /\ pc["log"] \in {"receive", "print"}
           /\ Len(my_queue) \in Nat
  BY TheTasks DEF Application, Points

(* A step that takes one task to another point of its code. *)
LEMMA Moved ==
    ASSUME Application, NEW t \in Tasks, NEW l \in Points[t], pc' = [pc EXCEPT ![t] = l]
    PROVE  /\ pc' \in [Tasks -> UNION {Points[u] : u \in Tasks}]
           /\ \A u \in Tasks : pc'[u] \in Points[u]
           /\ pc'[t] = l /\ \A u \in Tasks \ {t} : pc'[u] = pc[u]
  BY DEF Application

(* A sender that a step leaves alone has as much left to do as before. *)
LEMMA Untouched ==
    ASSUME NEW u \in Senders, Placed(u), pc'[u] = pc[u], on'[u] = on[u], left'[u] = left[u],
           Woken(u)' = Woken(u), countdown' = countdown, Application,
           pc[u] = "send" => \/ my_queue' = my_queue
                             \/ Len(my_queue') \in Nat /\ Len(my_queue') < Len(my_queue)
    PROVE  Placed(u)' /\ Work(u)' = Work(u)
<1>1. Placed(u)'
  <2>1. pc[u] = "send" /\ Len(my_queue) < QueueLength => Len(my_queue') < QueueLength
    BY Standing, TheTasks
  <2> QED
    BY <2>1 DEF Placed, Waited, Elapsed, None, Forever
<1>2. Work(u)' = Work(u)
  BY DEF Work
<1> QED
  BY <1>1, <1>2

(* A sender that gets what it waited for: back in line for the mutex, which    *)
(* costs it a step, or for the queue, whose tick it has saved.                 *)
LEMMA WokenUp ==
    ASSUME NEW u \in Senders, Placed(u), pc'[u] = pc[u], left'[u] = left[u],
           on[u] \in {"mutex", "space"}, on'[u] = "none",
           Woken(u)' = Woken(u), countdown' = countdown, Application, Application',
           Kernel, Unhurried,
           on[u] = "space" => Len(my_queue') < QueueLength
    PROVE  Placed(u)' /\ Work(u)' = Work(u) + IF on[u] = "mutex" THEN 1 ELSE -1
<1>1. left[u] \in Int /\ left[u] >= -2
  BY TheTasks DEF Kernel, Senders, None, Forever
<1>2. CASE on[u] = "mutex"
  <2>1. pc[u] = "mutex" /\ Waited(u)
    BY <1>2 DEF Placed, Own, Senders
  <2> QED
    BY <1>1, <1>2, <2>1 DEF Placed, Work, After, Waited, Elapsed, Senders
<1>3. CASE on[u] = "space"
  <2>1. pc[u] = "send" /\ left[u] = 1
    BY <1>3 DEF Placed, Own, Senders
  <2> QED
    BY <1>1, <1>3, <2>1 DEF Placed, Work, After, None, Senders
<1> QED
  BY <1>2, <1>3

(* The lag is two ticks at most. *)
LEMMA LagRange ==
    ASSUME Application
    PROVE  /\ Lag \in 0..2
           /\ used => Lag >= 1
           /\ ~used => Lag <= 1
  BY DEF Lag, Application

(* The same of the next state. *)
LEMMA LagRangeNext ==
    ASSUME Application'
    PROVE  /\ Lag' \in 0..2
           /\ used' => Lag' >= 1
           /\ ~used' => Lag' <= 1
  BY DEF Lag, Application

(* A sender has nothing left to do exactly when it sleeps. *)
LEMMA WorkRange ==
    ASSUME Kernel, Application, NEW u \in Senders, Placed(u)
    PROVE  /\ Work(u) \in Nat
           /\ on[u] \notin {"led", "temp", "notify"} => Work(u) > 0
           /\ on[u] \in {"led", "temp", "notify"} => Work(u) = 0
<1>1. left[u] \in Int
  BY TheTasks DEF Kernel, Senders, None, Forever
<1>2. /\ pc[u] \in {"take", "flash", "start", "notify", "mutex", "send", "give", "rest"}
      /\ pc[u] = "flash" \/ pc[u] = "rest" => u = "led"
      /\ pc[u] = "start" \/ pc[u] = "notify" => u = "temp"
  BY Standing DEF Senders
<1>3. u # "none" /\ Own(u) \in {"led", "temp", "notify"}
  BY DEF Senders, Own
<1>4. CASE pc[u] = "take"
  <2>1. CASE on[u] = "none"
    <3>1. Work(u) \in {1, 5, 10, 11}
      BY <1>4, <2>1 DEF Work, Senders
    <3> QED
      BY <2>1, <3>1
  <2>2. CASE on[u] = Own(u)
    <3>1. Own(u) \notin {"none", "delay"}
      BY <1>3
    <3>2. Work(u) = 0
      BY <1>4, <2>2, <3>1 DEF Work
    <3> QED
      BY <1>3, <2>2, <3>2
  <2>3. CASE on[u] = "delay" /\ left[u] \in {1, 2}
    <3>1. Work(u) = left[u] + 1
      BY <1>4, <2>3 DEF Work
    <3> QED
      BY <2>3, <3>1
  <2> QED
    BY <1>4, <2>1, <2>2, <2>3 DEF Placed
<1>5. CASE pc[u] = "mutex"
  BY <1>1, <1>5 DEF Placed, Work, After
<1>6. CASE pc[u] = "send"
  BY <1>6 DEF Placed, Work, After
<1>7. CASE pc[u] \in {"flash", "start", "notify", "give", "rest"}
  <2>1. on[u] = "none"
    BY <1>7 DEF Placed
  <2>2. Work(u) \in {1, 2, 4, 5, 10, 11}
    BY <1>7 DEF Work, After
  <2> QED
    BY <2>1, <2>2
<1> QED
  BY <1>2, <1>4, <1>5, <1>6, <1>7

(* While a sender is ready, there is something left to do. *)
LEMMA SomeWork ==
    ASSUME IInv, NEW t \in Senders, on[t] = "none"
    PROVE  AllWork \in Nat /\ AllWork > 0 /\ Work(t) \in Nat /\ Work(t) > 0
<1>1. Work("led") \in Nat /\ Work("temp") \in Nat /\ Work("alert") \in Nat
  BY WorkRange DEF IInv, Senders
<1>2. Work(t) > 0
  BY WorkRange DEF IInv
<1>3. CASE t = "led"
  BY <1>1, <1>2, <1>3 DEF AllWork
<1>4. CASE t = "temp"
  BY <1>1, <1>2, <1>4 DEF AllWork
<1>5. CASE t = "alert"
  BY <1>1, <1>2, <1>5 DEF AllWork
<1> QED
  BY <1>3, <1>4, <1>5 DEF Senders

(* What counts for the budget: a step between two ticks adds nothing to what   *)
(* is left to do.                                                              *)
LEMMA Spending ==
    ASSUME IInv, Application', countdown' = countdown,
           AllWork \in Nat, AllWork > 0, AllWork' \in Int, Lag' + AllWork' <= Lag + AllWork
    PROVE  InBudget'
<1>1. Lag \in Int /\ Lag' \in Int
  BY LagRange, LagRangeNext DEF IInv
<1>2. Elapsed' = Elapsed /\ Elapsed \in Int
  BY TheTasks DEF IInv, Elapsed, Application
<1>3. AllWork # 0 /\ Elapsed + Lag + AllWork <= Budget
  BY DEF IInv, InBudget
<1>4. Elapsed' + Lag' + AllWork' <= Budget
  <2>1. \A e, a, b, c, d \in Int : c + d <= a + b /\ e + a + b <= Budget => e + c + d <= Budget
    BY DEF Budget
  <2>2. AllWork \in Int
    OBVIOUS
  <2>3. Elapsed + Lag' + AllWork' <= Budget
    BY <1>1, <1>2, <1>3, <2>1, <2>2, Zenon
  <2> QED
    BY <1>2, <2>3
<1> QED
  BY <1>4 DEF InBudget

(* The same where one sender alone has its work changed. *)
LEMMA SpendingAlone ==
    ASSUME IInv, Application', countdown' = countdown, NEW t \in Senders, on[t] = "none",
           \A u \in Senders \ {t} : Work(u)' = Work(u),
           Work(t)' \in Int, Lag' + Work(t)' <= Lag + Work(t)
    PROVE  InBudget'
<1>1. Work("led") \in Nat /\ Work("temp") \in Nat /\ Work("alert") \in Nat
  BY WorkRange DEF IInv, Senders
<1>2. Lag \in Int /\ Lag' \in Int
  BY LagRange, LagRangeNext DEF IInv
<1>3. AllWork' \in Int /\ Lag' + AllWork' <= Lag + AllWork
  <2>1. CASE t = "led"
    BY <1>1, <1>2, <2>1 DEF AllWork, Senders
  <2>2. CASE t = "temp"
    BY <1>1, <1>2, <2>2 DEF AllWork, Senders
  <2>3. CASE t = "alert"
    BY <1>1, <1>2, <2>3 DEF AllWork, Senders
  <2> QED
    BY <2>1, <2>2, <2>3 DEF Senders
<1> QED
  BY <1>3, SomeWork, Spending

-----------------------------------------------------------------------------
(* The steps *)

(* A step that wakes nobody and lets the caller run on. *)
LEMMA GoingOn ==
    ASSUME Kernel, NEW t \in Tasks, Returns(t)
    PROVE  /\ Kernel' /\ Current' = Current /\ on' = on /\ ready' = ready
           /\ left'[t] = None /\ \A u \in Tasks \ {t} : left'[u] = left[u]
  BY DEF Returns, Kernel, Current

(* A step that blocks the caller. *)
LEMMA Stopping ==
    ASSUME Kernel, NEW t \in Tasks, Current = t, NEW r \in Resources \ {"none"}, NEW w,
           w \in {Forever} \cup 0..MutexWait, Blocks(t, r, w, prio)
    PROVE  /\ Kernel' /\ on'[t] = r /\ \A u \in Tasks \ {t} : on'[u] = on[u]
           /\ left'[t] = IF left[t] = None THEN w ELSE left[t]
           /\ \A u \in Tasks \ {t} : left'[u] = left[u]
           /\ \A u, v : Ahead(ready', u, v) => Ahead(ready, u, v)
<1>1. on[t] = "none"
  <2>1. Current = Elected(ready, Base)
    BY DEF Kernel, Current
  <2> QED
    BY <2>1, Running DEF Kernel
<1>2. /\ Listed(ready', on') /\ prio' = Base
      /\ on' = [on EXCEPT ![t] = r] /\ on' \in [Tasks -> Resources]
      /\ left' = [left EXCEPT ![t] = IF @ = None THEN w ELSE @]
      /\ \A u, v : Ahead(ready', u, v) => Ahead(ready, u, v)
  BY <1>1, Blocking DEF Kernel
<1> QED
  BY <1>2 DEF Kernel

(* xSemaphoreTake of the LED and the temperature task. *)
LEMMA TakeKeeps ==
    ASSUME IInv, Unhurried, NEW t \in {"led", "temp"},
           Take(t, IF t = "led" THEN "flash" ELSE "start")
    PROVE  IInv'
<1>1. /\ Kernel /\ Application /\ Current = t /\ pc[t] = "take" /\ t \in Tasks /\ t \in Senders
      /\ \A u \in Senders : Placed(u)
      /\ UNCHANGED <<holder, my_queue, notified, data, countdown, count, used>>
  BY TheTasks DEF IInv, Take, At, Senders
<1>2. on[t] = "none" /\ (on["alert"] = "none" => FALSE)
  BY <1>1, Running, TheTasks DEF Kernel, Current
<1>3. CASE /\ semaphore[t] /\ semaphore' = [semaphore EXCEPT ![t] = FALSE]
           /\ Returns(t) /\ pc' = [pc EXCEPT ![t] = IF t = "led" THEN "flash" ELSE "start"]
  <2>1. /\ Kernel' /\ Current' = Current /\ on' = on /\ ready' = ready
        /\ left'[t] = None /\ \A u \in Tasks \ {t} : left'[u] = left[u]
    BY <1>1, <1>3, GoingOn
  <2>2. Application'
    BY <1>1, <1>3, TheTasks DEF Application, Points
  <2>3. /\ pc'[t] = (IF t = "led" THEN "flash" ELSE "start") /\ ~semaphore'[t]
        /\ \A u \in Tasks \ {t} : pc'[u] = pc[u] /\ (u \in {"led", "temp"} => semaphore'[u] = semaphore[u])
    BY <1>1, <1>3 DEF Application
  <2>4. Placed(t)' /\ Work(t)' = Work(t)
    BY <1>1, <1>2, <1>3, <2>1, <2>3 DEF Placed, Work, Woken
  <2>5. \A u \in Senders \ {t} : Placed(u)' /\ Work(u)' = Work(u)
    BY <1>1, <2>1, <2>3, Untouched, TheTasks DEF Senders, Woken
  <2>6. LogPlaced'
    BY <1>1, <2>1, <2>3, TheTasks DEF IInv, LogPlaced
  <2>7. Holding'
    BY <1>1, <2>1, <2>3, TheTasks DEF IInv, Holding, Senders
  <2>8. Undisturbed'
    BY <1>1, <1>3, <2>1, <2>3, TheTasks DEF IInv, Undisturbed, Harmless
  <2>9. Lag' = Lag
    BY <1>1, <2>1, <2>3, TheTasks DEF Lag, Harmless
  <2>10. InBudget'
    BY <1>1, <2>4, <2>5, <2>9 DEF IInv, InBudget, AllWork, Elapsed, Senders
  <2> QED
    BY <2>1, <2>2, <2>4, <2>5, <2>6, <2>7, <2>8, <2>10 DEF IInv
<1>4. CASE ~semaphore[t] /\ Blocks(t, t, Forever, prio) /\ UNCHANGED <<pc, semaphore>>
  <2>1. /\ Kernel' /\ on'[t] = t /\ (\A u \in Tasks \ {t} : on'[u] = on[u])
        /\ left'[t] = (IF left[t] = None THEN Forever ELSE left[t])
        /\ (\A u \in Tasks \ {t} : left'[u] = left[u])
        /\ \A u, v : Ahead(ready', u, v) => Ahead(ready, u, v)
    BY <1>1, <1>4, Stopping, TheTasks DEF Resources
  <2>2. Application'
    BY <1>1, <1>4 DEF Application
  <2>4. Placed(t)' /\ Work(t)' = Work(t) - 1
    BY <1>1, <1>2, <1>4, <2>1 DEF Placed, Work, Woken, Own
  <2>5. \A u \in Senders \ {t} : Placed(u)' /\ Work(u)' = Work(u)
    BY <1>1, <1>4, <2>1, Untouched, TheTasks DEF Senders, Woken
  <2>6. LogPlaced'
    BY <1>1, <1>4, <2>1, TheTasks DEF IInv, LogPlaced
  <2>7. Holding'
    BY <1>1, <1>4, <2>1, TheTasks DEF IInv, Holding, Senders
  <2>8. Undisturbed'
    BY <1>1, <1>2, <1>4, <2>1, TheTasks DEF IInv, Undisturbed, Harmless
  <2>9. Lag' <= Lag + 1
    BY <1>1, <2>2, LagRange, LagRangeNext
  <2>10. InBudget'
    <3>1. Work(t) \in Nat
      BY <1>1, <1>2, SomeWork
    <3>2. Lag \in Int /\ Lag' \in Int
      BY <1>1, <2>2, LagRange, LagRangeNext
    <3>3. Work(t)' \in Int /\ Lag' + Work(t)' <= Lag + Work(t)
      BY <2>4, <2>9, <3>1, <3>2
    <3> QED
      BY <1>1, <1>2, <2>2, <2>5, <3>3, SpendingAlone
  <2> QED
    BY <2>1, <2>2, <2>4, <2>5, <2>6, <2>7, <2>8, <2>10 DEF IInv
<1> QED
  BY <1>3, <1>4 DEF Take, Goto

(* What a step of a task leaves alone besides.                                 *)
LEMMA RunsAlone ==
    ASSUME IInv, NEW t \in Tasks, Current = t
    PROVE  /\ on[t] = "none" /\ t \in Tasks
           /\ \A u \in Senders : Placed(u)
           /\ t # "alert" => on["alert"] # "none"
           /\ t = "log" => \A u \in Tasks : u # "log" /\ on[u] = "none" => Ahead(ready, "log", u)
<1>1. Listed(ready, on) /\ Current = Elected(ready, Base)
  BY DEF IInv, Kernel, Current
<1> QED
  BY <1>1, Running, TheTasks DEF IInv

(* vTaskDelay of the LED task. *)
LEMMA DelayKeeps ==
    ASSUME IInv, Unhurried, NEW at \in {"flash", "rest"},
           Delay("led", at, IF at = "flash" THEN "mutex" ELSE "take")
    PROVE  IInv'
<1> DEFINE next == IF at = "flash" THEN "mutex" ELSE "take"
<1>1. /\ Current = "led" /\ pc["led"] = at /\ Blocks("led", "delay", 2, prio)
      /\ pc' = [pc EXCEPT !["led"] = next]
      /\ UNCHANGED <<semaphore, holder, my_queue, notified, data, countdown, count, used>>
      /\ Kernel /\ Application /\ "led" \in Tasks /\ "led" \in Senders
  BY TheTasks DEF IInv, Delay, At, Goto, appVars, Senders
<1>2. on["led"] = "none" /\ on["alert"] # "none" /\ \A u \in Senders : Placed(u)
  BY <1>1, RunsAlone
<1>3. /\ Kernel' /\ on'["led"] = "delay" /\ (\A u \in Tasks \ {"led"} : on'[u] = on[u])
      /\ left'["led"] = (IF left["led"] = None THEN 2 ELSE left["led"])
      /\ (\A u \in Tasks \ {"led"} : left'[u] = left[u])
      /\ \A u, v : Ahead(ready', u, v) => Ahead(ready, u, v)
  <2>1. 2 \in {Forever} \cup 0..MutexWait
    BY TheTasks DEF Unhurried, Budget
  <2> QED
    BY <1>1, <2>1, Stopping DEF Resources
<1>4. Application' /\ pc'["led"] = next /\ \A u \in Tasks \ {"led"} : pc'[u] = pc[u]
  BY <1>1, Moved, TheTasks DEF Application, Points
<1>5. left["led"] = None /\ ~semaphore["led"] /\ left'["led"] = 2
  BY <1>1, <1>2, <1>3 DEF Placed, Woken
<1>6. Placed("led")' /\ Work("led")' = Work("led") - 1
  BY <1>1, <1>3, <1>4, <1>5 DEF Placed, Work, Woken, After
<1>7. \A u \in Senders \ {"led"} : Placed(u)' /\ Work(u)' = Work(u)
  BY <1>1, <1>2, <1>3, <1>4, Untouched, TheTasks DEF Senders, Woken
<1>8. LogPlaced'
  BY <1>1, <1>3, <1>4, TheTasks DEF IInv, LogPlaced
<1>9. Holding'
  BY <1>1, <1>3, <1>4, TheTasks DEF IInv, Holding, Senders
<1>10. Undisturbed'
  BY <1>1, <1>3, <1>4, TheTasks DEF IInv, Undisturbed, Harmless
<1>11. InBudget'
  <2>1. Lag \in Int /\ Lag' \in Int /\ Lag' <= Lag + 1
    BY <1>1, <1>4, LagRange, LagRangeNext
  <2>2. Work("led") \in Nat
    BY <1>1, <1>2, SomeWork
  <2>3. Work("led")' \in Int /\ Lag' + Work("led")' <= Lag + Work("led")
    BY <1>6, <2>1, <2>2
  <2> QED
    BY <1>1, <1>2, <1>4, <1>7, <2>3, SpendingAlone
<1> QED
  BY <1>3, <1>4, <1>6, <1>7, <1>8, <1>9, <1>10, <1>11 DEF IInv

(* The budget is spent before a wait for the mutex is over.                    *)
LEMMA NoTimeout ==
    ASSUME IInv, Unhurried, NEW t \in {"led", "temp"}, pc[t] = "mutex", on[t] # "delay", Waited(t)
    PROVE  left[t] > 1
<1>1. /\ Work("led") \in Nat /\ Work("temp") \in Nat /\ Work("alert") \in Nat
      /\ Lag \in Nat /\ left[t] \in Int /\ Elapsed \in Nat
  <2>1. Work("led") \in Nat /\ Work("temp") \in Nat /\ Work("alert") \in Nat
    BY WorkRange DEF IInv, Senders
  <2>2. Lag \in Nat
    BY LagRange DEF IInv
  <2>3. left[t] \in Int
    BY TheTasks DEF IInv, Kernel, None, Forever
  <2>4. Elapsed \in Nat
    BY TheTasks DEF IInv, Application, Elapsed
  <2> QED
    BY <2>1, <2>2, <2>3, <2>4
<1>2. Work(t) >= 4
  <2>1. on[t] \in {"none", "mutex"}
    BY DEF IInv, Placed, Senders, Own
  <2> QED
    BY <2>1 DEF Work, After
<1>3. AllWork >= 4
  <2>1. CASE t = "led"
    BY <1>1, <1>2, <2>1 DEF AllWork
  <2>2. CASE t = "temp"
    BY <1>1, <1>2, <2>2 DEF AllWork
  <2> QED
    BY <2>1, <2>2
<1>4. Elapsed + Lag + AllWork <= Budget /\ AllWork \in Nat
  BY <1>1, <1>3 DEF IInv, InBudget, AllWork
<1>5. Elapsed <= 17
  <2>1. \A a, b, c \in Nat : a + b + c <= Budget /\ c >= 4 => a <= 17
    BY DEF Budget
  <2> QED
    BY <1>1, <1>3, <1>4, <2>1
<1> QED
  BY <1>1, <1>5, TheTasks DEF Waited, Unhurried, Budget

(* xSemaphoreTake of the mutex: it succeeds or blocks, and does not time out. *)
LEMMA LockKeeps ==
    ASSUME IInv, Unhurried, NEW t \in Senders, NEW timeout,
           Lock(t, IF t = "alert" THEN Forever ELSE MutexWait, timeout)
    PROVE  IInv'
<1> DEFINE w == IF t = "alert" THEN Forever ELSE MutexWait
<1>1. /\ Current = t /\ pc[t] = "mutex" /\ t \in Tasks
      /\ UNCHANGED <<semaphore, my_queue, notified, data, countdown, count, used>>
      /\ Kernel /\ Application
  BY TheTasks DEF IInv, Lock, At, Senders
<1>2. /\ on[t] = "none" /\ \A u \in Senders : Placed(u)
      /\ t # "alert" => on["alert"] # "none"
  BY <1>1, RunsAlone
<1>3. t # "alert" => ~notified /\ pc["alert"] # "mutex"
  BY <1>2 DEF Placed, Senders, Woken
<1>4. t = "alert" => ~notified /\ holder = Nobody
  BY <1>1, <1>2 DEF Placed, Senders, Woken, IInv, Holding
<1>5. CASE /\ holder = Nobody /\ holder' = t /\ Returns(t) /\ pc' = [pc EXCEPT ![t] = "send"]
  <2>1. /\ Kernel' /\ Current' = Current /\ on' = on /\ ready' = ready
        /\ left'[t] = None /\ \A u \in Tasks \ {t} : left'[u] = left[u]
    BY <1>1, <1>5, GoingOn
  <2>2. Application' /\ pc'[t] = "send" /\ \A u \in Tasks \ {t} : pc'[u] = pc[u]
    <3>1. "send" \in Points[t]
      BY DEF Points, Senders
    <3>2. /\ pc' \in [Tasks -> UNION {Points[u] : u \in Tasks}]
          /\ (\A u \in Tasks : pc'[u] \in Points[u])
          /\ pc'[t] = "send" /\ \A u \in Tasks \ {t} : pc'[u] = pc[u]
      BY <1>1, <1>5, <3>1, Moved
    <3> QED
      BY <1>1, <1>5, <3>2 DEF Application
  <2>3. Placed(t)' /\ Work(t)' = Work(t)
    <3>1. ~Woken(t) /\ Woken(t)' = Woken(t)
      BY <1>1, <1>2 DEF Placed, Woken
    <3> QED
      BY <1>1, <1>2, <2>1, <2>2, <3>1 DEF Placed, Work
  <2>4. \A u \in Senders \ {t} : Placed(u)' /\ Work(u)' = Work(u)
    BY <1>1, <1>2, <2>1, <2>2, Untouched, TheTasks DEF Senders, Woken
  <2>5. LogPlaced'
    BY <1>1, <2>1, <2>2, TheTasks DEF IInv, LogPlaced, Senders
  <2>6. Holding'
    BY <1>1, <1>3, <1>4, <1>5, <2>1, <2>2, TheTasks DEF IInv, Holding, Senders
  <2>7. Undisturbed'
    <3>1. ~(semaphore["temp"] \/ pc["temp"] \in {"start", "notify"})
      <4>1. semaphore["temp"] => pc["temp"] = "take" /\ on["temp"] = "none"
        BY <1>2 DEF Placed, Woken, Senders
      <4>2. semaphore["led"] => pc["led"] = "take"
        BY <1>2 DEF Placed, Woken, Senders
      <4> QED
        BY <1>1, <1>2, <4>1, <4>2 DEF IInv, Undisturbed, Senders
    <3> QED
      BY <1>1, <2>2, <3>1, TheTasks DEF Undisturbed
  <2>8. Lag' = Lag
    BY <1>1, <2>1, <2>2, TheTasks DEF Lag, Harmless, Senders
  <2>9. InBudget'
    <3>1. Work(t) \in Nat /\ Lag \in Int
      BY <1>1, <1>2, SomeWork, LagRange
    <3>2. Work(t)' \in Int /\ Lag' + Work(t)' <= Lag + Work(t)
      BY <2>3, <2>8, <3>1
    <3> QED
      BY <1>1, <1>2, <2>2, <2>4, <3>2, SpendingAlone
  <2> QED
    BY <2>1, <2>2, <2>3, <2>4, <2>5, <2>6, <2>7, <2>9 DEF IInv
<1>6. holder # Nobody => t \in {"led", "temp"} /\ (left[t] = None \/ left[t] > 1)
  <2> SUFFICES ASSUME holder # Nobody PROVE t \in {"led", "temp"} /\ (left[t] = None \/ left[t] > 1)
    OBVIOUS
  <2>1. t \in {"led", "temp"}
    BY <1>4 DEF Senders
  <2>2. left[t] = None \/ Waited(t)
    BY <1>1, <1>2 DEF Placed
  <2> QED
    BY <1>1, <1>2, <2>1, <2>2, NoTimeout
<1>7. CASE /\ holder # Nobody /\ left[t] # 0 /\ Blocks(t, "mutex", w, Inherit(holder, t))
           /\ UNCHANGED <<pc, holder>>
  <2>1. Inherit(holder, t) = prio
    <3>1. holder \in Tasks
      BY <1>1, <1>7 DEF Application
    <3> QED
      BY <1>1, <1>6, <1>7, <3>1, TheTasks DEF Inherit, Kernel
  <2>2. /\ Kernel' /\ on'[t] = "mutex" /\ (\A u \in Tasks \ {t} : on'[u] = on[u])
        /\ left'[t] = (IF left[t] = None THEN MutexWait ELSE left[t])
        /\ (\A u \in Tasks \ {t} : left'[u] = left[u])
        /\ \A u, v : Ahead(ready', u, v) => Ahead(ready, u, v)
    <3>1. w = MutexWait /\ MutexWait \in {Forever} \cup 0..MutexWait
      BY <1>6, <1>7, TheTasks
    <3> QED
      BY <1>1, <1>7, <2>1, <3>1, Stopping DEF Resources
  <2>3. Application'
    BY <1>1, <1>7 DEF Application
  <2>4. Placed(t)' /\ Work(t)' = Work(t) - 1
    <3>1. ~Woken(t) /\ Woken(t)' = Woken(t)
      BY <1>1, <1>2, <1>7 DEF Placed, Woken
    <3>2. Waited(t)'
      <4>1. Elapsed \in Nat /\ Elapsed' = Elapsed
        BY <1>1, TheTasks DEF Application, Elapsed
      <4> QED
        BY <1>1, <1>2, <2>2, <4>1, TheTasks DEF Placed, Waited
    <3>3. Placed(t)'
      BY <1>1, <1>2, <1>6, <1>7, <2>2, <3>1, <3>2 DEF Placed
    <3> QED
      BY <1>1, <1>2, <1>7, <2>2, <3>3 DEF Work, After
  <2>5. \A u \in Senders \ {t} : Placed(u)' /\ Work(u)' = Work(u)
    BY <1>1, <1>2, <1>7, <2>2, Untouched, TheTasks DEF Senders, Woken
  <2>6. LogPlaced'
    BY <1>1, <1>7, <2>2, TheTasks DEF IInv, LogPlaced, Senders
  <2>7. Holding'
    BY <1>1, <1>7, <2>2, TheTasks DEF IInv, Holding, Senders
  <2>8. Undisturbed'
    BY <1>1, <1>7, <2>2, TheTasks DEF IInv, Undisturbed, Senders
  <2>9. InBudget'
    <3>1. Lag \in Int /\ Lag' \in Int /\ Lag' <= Lag + 1
      BY <1>1, <2>3, LagRange, LagRangeNext
    <3>2. Work(t) \in Nat
      BY <1>1, <1>2, SomeWork
    <3>3. Work(t)' \in Int /\ Lag' + Work(t)' <= Lag + Work(t)
      BY <2>4, <3>1, <3>2
    <3> QED
      BY <1>1, <1>2, <2>3, <2>5, <3>3, SpendingAlone
  <2> QED
    BY <2>2, <2>3, <2>4, <2>5, <2>6, <2>7, <2>8, <2>9 DEF IInv
<1> QED
  BY <1>5, <1>6, <1>7 DEF Lock, Goto, None

(* xQueueSend: it can only wake the logger task. *)
LEMMA SendKeeps ==
    ASSUME IInv, NEW t \in Senders, Send(t), Unhurried
    PROVE  IInv'
<1>1. /\ Current = t /\ pc[t] = "send" /\ t \in Tasks
      /\ UNCHANGED <<semaphore, holder, notified, data, countdown, count, used>>
      /\ Kernel /\ Application
  BY TheTasks DEF IInv, Send, At, Senders
<1>2. on[t] = "none" /\ \A u \in Senders : Placed(u)
  BY <1>1, RunsAlone
<1>3. holder = t /\ holder # Nobody /\ \A u \in Senders \ {t} : pc[u] # "send"
  BY <1>1, TheTasks DEF IInv, Holding, Senders
<1>4. ~Woken(t) /\ Woken(t)' = Woken(t)
  BY <1>1, <1>2 DEF Placed, Woken
<1>5. ~(semaphore["temp"] \/ pc["temp"] \in {"start", "notify"})
  BY <1>3 DEF IInv, Undisturbed
<1>6. SUFFICES ASSUME /\ Kernel' /\ Application' /\ Placed(t)' /\ LogPlaced'
                      /\ pc'[t] \in {"send", "give"} /\ Work(t)' \in Int /\ Work(t)' <= Work(t) - 1
                      /\ \A u \in Tasks \ {t} : pc'[u] = pc[u] /\ left'[u] = left[u]
                      /\ \A u \in Senders \ {t} : on'[u] = on[u]
               PROVE  IInv'
  <2> DEFINE Done == /\ Kernel' /\ Application' /\ Placed(t)' /\ LogPlaced'
                     /\ pc'[t] \in {"send", "give"} /\ Work(t)' \in Int /\ Work(t)' <= Work(t) - 1
                     /\ \A u \in Tasks \ {t} : pc'[u] = pc[u] /\ left'[u] = left[u]
                     /\ \A u \in Senders \ {t} : on'[u] = on[u]
  <2>1. Work(t) \in Nat
    BY <1>1, <1>2, SomeWork
  <2>2. CASE Len(my_queue) < QueueLength /\ my_queue' = Append(my_queue, t)
             /\ Signals(t, "record", prio) /\ pc' = [pc EXCEPT ![t] = "give"]
    <3>1. /\ Listed(ready', on') /\ prio' = Base /\ left' = [left EXCEPT ![t] = None]
          /\ on' \in [Tasks -> Resources]
          /\ \/ (\A u \in Tasks : on[u] # "record") /\ on' = on
             \/ \E u \in Tasks : on[u] = "record" /\ on' = [on EXCEPT ![u] = "none"]
      BY <1>1, <2>2, Signalling DEF Kernel, Resources
    <3>2. Kernel' /\ left'[t] = None /\ \A u \in Tasks \ {t} : left'[u] = left[u]
      BY <1>1, <3>1 DEF Kernel
    <3>3. \A u \in Senders : on[u] # "record"
      BY <1>2 DEF Placed, Own, Senders
    <3>4. (\A u \in Senders : on'[u] = on[u]) /\ on'["log"] = "none"
      <4>1. CASE (\A u \in Tasks : on[u] # "record") /\ on' = on
        BY <4>1, TheTasks DEF IInv, LogPlaced
      <4>2. ASSUME NEW u \in Tasks, on[u] = "record", on' = [on EXCEPT ![u] = "none"]
            PROVE  (\A v \in Senders : on'[v] = on[v]) /\ on'["log"] = "none"
        <5>1. u = "log"
          BY <3>3, <4>2, TheTasks DEF Senders
        <5> QED
          BY <1>1, <4>2, <5>1, TheTasks DEF Kernel, Senders
      <4> QED
        BY <3>1, <4>1, <4>2
    <3>5. Application' /\ pc'[t] = "give" /\ \A u \in Tasks \ {t} : pc'[u] = pc[u]
      <4>1. "give" \in Points[t]
        BY DEF Points, Senders
      <4>2. /\ pc' \in [Tasks -> UNION {Points[u] : u \in Tasks}]
            /\ (\A u \in Tasks : pc'[u] \in Points[u])
            /\ pc'[t] = "give" /\ \A u \in Tasks \ {t} : pc'[u] = pc[u]
        BY <1>1, <2>2, <4>1, Moved
      <4>3. my_queue' \in Seq(Tasks) /\ Len(my_queue') <= QueueLength
        BY <1>1, <2>2, TheTasks DEF Application
      <4> QED
        BY <1>1, <4>2, <4>3 DEF Application
    <3>6. Placed(t)' /\ Work(t)' \in Int /\ Work(t)' <= Work(t) - 1
      <4>1. Placed(t)'
        BY <1>2, <1>4, <3>2, <3>4, <3>5 DEF Placed
      <4>2. Work(t)' = After(t) + 1 /\ Work(t) \in {After(t) + 4, After(t) + 2}
        BY <1>1, <1>2, <3>5 DEF Work, After
      <4> QED
        BY <4>1, <4>2 DEF After
    <3>7. LogPlaced'
      BY <1>1, <3>2, <3>4, TheTasks DEF IInv, LogPlaced, Senders
    <3> QED
      BY <3>2, <3>4, <3>5, <3>6, <3>7, <1>6
  <2>3. CASE left[t] = 0 /\ Returns(t) /\ pc' = [pc EXCEPT ![t] = "give"] /\ UNCHANGED my_queue
    <3>1. /\ Kernel' /\ on' = on /\ left'[t] = None /\ \A u \in Tasks \ {t} : left'[u] = left[u]
      BY <1>1, <2>3, GoingOn
    <3>2. Application' /\ pc'[t] = "give" /\ \A u \in Tasks \ {t} : pc'[u] = pc[u]
      <4>1. "give" \in Points[t]
        BY DEF Points, Senders
      <4>2. /\ pc' \in [Tasks -> UNION {Points[u] : u \in Tasks}]
            /\ (\A u \in Tasks : pc'[u] \in Points[u])
            /\ pc'[t] = "give" /\ \A u \in Tasks \ {t} : pc'[u] = pc[u]
        BY <1>1, <2>3, <4>1, Moved
      <4> QED
        BY <1>1, <2>3, <4>2 DEF Application
    <3>3. Placed(t)'
      BY <1>2, <1>4, <3>1, <3>2 DEF Placed
    <3>4. Work(t)' = Work(t) - 1
      BY <1>1, <1>2, <2>3, <3>2 DEF Work, After, None
    <3>5. LogPlaced'
      BY <1>1, <2>3, <3>1, <3>2, TheTasks DEF IInv, LogPlaced, Senders
    <3> QED
      BY <2>1, <3>1, <3>2, <3>3, <3>4, <3>5, <1>6
  <2>4. CASE /\ Len(my_queue) = QueueLength /\ left[t] # 0 /\ Blocks(t, "space", 1, prio)
             /\ UNCHANGED <<pc, my_queue>>
    <3>1. /\ Kernel' /\ on'[t] = "space" /\ (\A u \in Tasks \ {t} : on'[u] = on[u])
          /\ left'[t] = (IF left[t] = None THEN 1 ELSE left[t])
          /\ (\A u \in Tasks \ {t} : left'[u] = left[u])
      <4>1. 1 \in {Forever} \cup 0..MutexWait /\ "space" \in Resources \ {"none"}
        BY TheTasks DEF Resources
      <4>2. Kernel /\ Current = t /\ t \in Tasks /\ Blocks(t, "space", 1, prio)
        BY <1>1, <2>4
      <4> QED
        BY <4>1, <4>2, Stopping
    <3>2. Application'
      BY <1>1, <2>4 DEF Application
    <3>3. left[t] = None /\ left'[t] = 1
      BY <1>1, <1>2, <2>4, <3>1, TheTasks DEF Placed
    <3>4. Placed(t)' /\ Work(t)' = Work(t) - 1
      BY <1>1, <1>2, <1>4, <2>4, <3>1, <3>3 DEF Placed, Work, After
    <3>5. LogPlaced'
      BY <1>1, <2>4, <3>1, TheTasks DEF IInv, LogPlaced, Senders
    <3>6. pc'[t] = "send" /\ \A u \in Tasks \ {t} : pc'[u] = pc[u]
      BY <1>1, <2>4
    <3> QED
      BY <2>1, <3>1, <3>2, <3>4, <3>5, <3>6, <1>6, TheTasks DEF Senders
  <2> QED
    BY <2>2, <2>3, <2>4 DEF Send, Goto, SendWait
<1>7. \A u \in Senders \ {t} : Placed(u)' /\ Work(u)' = Work(u)
  BY <1>1, <1>2, <1>3, <1>6, Untouched, TheTasks DEF Senders, Woken
<1>8. Holding'
  BY <1>1, <1>3, <1>6, TheTasks DEF IInv, Holding, Senders
<1>9. Undisturbed'
  <2>1. ~(semaphore'["temp"] \/ pc'["temp"] \in {"start", "notify"})
    BY <1>1, <1>5, <1>6, TheTasks
  <2> QED
    BY <2>1 DEF Undisturbed
<1>10. InBudget'
  <2>1. Lag \in Int /\ Lag' \in Int /\ Lag' <= Lag + 1
    BY <1>1, <1>6, LagRange, LagRangeNext
  <2>2. Work(t) \in Nat
    BY <1>1, <1>2, SomeWork
  <2>3. Work(t)' \in Int /\ Lag' + Work(t)' <= Lag + Work(t)
    <3>1. \A a, b, c, d \in Int : a <= b + 1 /\ c <= d - 1 => a + c <= b + d
      OBVIOUS
    <3>2. Work(t) \in Int
      BY <2>2
    <3> QED
      BY <1>6, <2>1, <3>1, <3>2
  <2> QED
    BY <1>1, <1>2, <1>6, <1>7, <2>3, SpendingAlone
<1> QED
  BY <1>6, <1>7, <1>8, <1>9, <1>10 DEF IInv

(* xSemaphoreGive of the mutex: the caller holds it, and a sender woken to try *)
(* again costs the tick that the caller saves.                                 *)
LEMMA GiveKeeps ==
    ASSUME IInv, Unhurried, NEW t \in Senders, Give(t, IF t = "led" THEN "rest" ELSE "take")
    PROVE  IInv'
<1> DEFINE next == IF t = "led" THEN "rest" ELSE "take"
<1>1. /\ Current = t /\ pc[t] = "give" /\ t \in Tasks /\ holder' = Nobody
      /\ pc' = [pc EXCEPT ![t] = next]
      /\ UNCHANGED <<semaphore, my_queue, notified, data, countdown, count, used>>
      /\ Kernel /\ Application
  BY TheTasks DEF IInv, Give, At, Goto, Senders
<1>2. on[t] = "none" /\ \A u \in Senders : Placed(u)
  BY <1>1, RunsAlone
<1>3. holder = t /\ holder # Nobody /\ \A u \in Senders \ {t} : pc[u] \notin {"send", "give"}
  BY <1>1, TheTasks DEF IInv, Holding, Senders
<1>4. ~Woken(t) /\ \A u \in Senders : Woken(u)' = Woken(u)
  BY <1>1, <1>2 DEF Placed, Woken
<1>5. ~(semaphore["temp"] \/ pc["temp"] \in {"start", "notify"})
  BY <1>3 DEF IInv, Undisturbed
<1>6. Application' /\ pc'[t] = next /\ \A u \in Tasks \ {t} : pc'[u] = pc[u]
  <2>1. next \in Points[t]
    BY DEF Points, Senders
  <2>2. /\ pc' \in [Tasks -> UNION {Points[u] : u \in Tasks}]
        /\ (\A u \in Tasks : pc'[u] \in Points[u])
        /\ pc'[t] = next /\ \A u \in Tasks \ {t} : pc'[u] = pc[u]
    <3> HIDE DEF next
    <3> QED
      BY <1>1, <2>1, Moved
  <2> QED
    BY <1>1, <2>2 DEF Application
<1>7. /\ Listed(ready', on') /\ prio' = Base /\ left' = [left EXCEPT ![t] = None]
      /\ on' \in [Tasks -> Resources]
      /\ \/ /\ \A u \in Tasks : on[u] # "mutex"
            /\ on' = on /\ ready' = ready
         \/ \E u \in Tasks :
               /\ on[u] = "mutex" /\ on' = [on EXCEPT ![u] = "none"]
               /\ Elected(ready', Base) = IF u = "alert" THEN "alert" ELSE Current
  <2>1. Disinherit(holder) = prio
    BY <1>1, <1>3, TheTasks DEF Disinherit, Kernel
  <2>2. Signals(t, "mutex", prio)
    BY <1>3, <2>1 DEF Give
  <2> QED
    BY <1>1, <2>2, Signalling DEF Kernel, Resources
<1>8. Kernel' /\ left'[t] = None /\ \A u \in Tasks \ {t} : left'[u] = left[u]
  BY <1>1, <1>7 DEF Kernel
<1>9. Work(t) \in Nat /\ Work(t) = After(t) + 1 /\ After(t) \in Nat
  BY <1>1 DEF Work, After
<1>10. on'[t] = "none" => Placed(t)' /\ Work(t)' = Work(t) - 1
  BY <1>1, <1>2, <1>4, <1>6, <1>8, <1>9 DEF Placed, Work, After
<1>11. ASSUME on'["log"] = on["log"] PROVE LogPlaced'
  BY <1>1, <1>6, <1>8, <1>11, TheTasks DEF IInv, LogPlaced, Senders
<1>12. ASSUME Current' = t, on'["log"] = on["log"] PROVE Lag' = Lag
  BY <1>1, <1>6, <1>12, TheTasks DEF Lag, Harmless, Senders
<1>13. Undisturbed'
  <2>1. ~(semaphore'["temp"] \/ pc'["temp"] \in {"start", "notify"})
    BY <1>1, <1>5, <1>6, TheTasks
  <2> QED
    BY <2>1 DEF Undisturbed
<1>14. /\ \A u \in Senders : holder' = u <=> pc'[u] \in {"send", "give"}
       /\ holder' # "log"
  BY <1>1, <1>3, <1>6, TheTasks DEF Senders
<1>15. CASE (\A u \in Tasks : on[u] # "mutex") /\ on' = on /\ ready' = ready
  <2>1. Current' = t
    BY <1>1, <1>7, <1>15 DEF Current, Kernel
  <2>2. \A u \in Senders \ {t} : Placed(u)' /\ Work(u)' = Work(u)
    BY <1>1, <1>2, <1>4, <1>6, <1>8, <1>15, Untouched, TheTasks DEF Senders
  <2>3. Holding'
    BY <1>1, <1>14, <1>15, TheTasks DEF Holding, Senders
  <2>4. InBudget'
    <3>1. Work(t)' \in Int /\ Work(t)' = Work(t) - 1 /\ Lag \in Int
      BY <1>1, <1>2, <1>9, <1>10, <1>15, LagRange
    <3>2. Lag' = Lag
      BY <1>12, <1>15, <2>1
    <3>3. Lag' + Work(t)' <= Lag + Work(t)
      BY <1>9, <3>1, <3>2
    <3> QED
      BY <1>1, <1>2, <1>6, <2>2, <3>1, <3>3, SpendingAlone
  <2> QED
    BY <1>2, <1>6, <1>8, <1>10, <1>11, <1>13, <1>15, <2>2, <2>3, <2>4 DEF IInv
<1>16. ASSUME NEW u \in Tasks, on[u] = "mutex", on' = [on EXCEPT ![u] = "none"],
              Elected(ready', Base) = IF u = "alert" THEN "alert" ELSE Current
       PROVE  IInv'
  <2>1. u \in Senders \ {t} /\ u # "alert"
    <3>1. u # "log"
      BY <1>16 DEF IInv, LogPlaced
    <3>2. u \in Senders
      BY <3>1, TheTasks DEF Senders
    <3> QED
      BY <1>2, <1>16, <3>2 DEF Placed, Senders, Own
  <2>2. Current' = t /\ on'[u] = "none" /\ \A v \in Tasks \ {u} : on'[v] = on[v]
    BY <1>1, <1>7, <1>16, <2>1 DEF Current, Kernel
  <2>3. on'["log"] = on["log"] /\ on'[t] = "none"
    BY <1>1, <1>2, <2>1, <2>2, TheTasks DEF Senders
  <2>4. pc[u] = "mutex"
    BY <1>2, <1>16, <2>1 DEF Placed, Senders, Own
  <2>5. Placed(u)' /\ Work(u)' = Work(u) + 1
    <3>1. pc'[u] = pc[u] /\ left'[u] = left[u] /\ Woken(u)' = Woken(u)
      BY <1>4, <1>6, <1>8, <1>16, <2>1
    <3> QED
      BY <1>1, <1>2, <1>6, <1>16, <2>1, <2>2, <3>1, WokenUp
  <2>6. \A v \in Senders \ {t, u} : Placed(v)' /\ Work(v)' = Work(v)
    BY <1>1, <1>2, <1>4, <1>6, <1>8, <2>2, Untouched, TheTasks DEF Senders
  <2>7. Holding'
    <3>1. pc'[u] = "mutex" /\ on'[u] = "none"
      BY <1>6, <2>1, <2>2, <2>4, <1>16
    <3> QED
      BY <1>1, <1>14, <2>1, <3>1 DEF Holding
  <2>8. InBudget'
    <3>1. Work("led") \in Nat /\ Work("temp") \in Nat /\ Work("alert") \in Nat
      BY <1>1, <1>2, WorkRange DEF Senders
    <3>2. AllWork \in Nat /\ AllWork > 0
      BY <1>1, <1>2, SomeWork
    <3>3. AllWork' = AllWork
      <4>1. \E v \in Senders \ {t, u} : Senders = {t, u, v} /\ v # t /\ v # u
        BY <2>1 DEF Senders
      <4>2. PICK v \in Senders \ {t, u} : Senders = {t, u, v}
        BY <4>1
      <4>3. Work(t)' = Work(t) - 1 /\ Work(u)' = Work(u) + 1 /\ Work(v)' = Work(v)
        BY <1>10, <2>3, <2>5, <2>6
      <4> QED
        BY <2>1, <3>1, <4>3 DEF AllWork, Senders
    <3>4. Lag' = Lag /\ Lag \in Int
      BY <1>1, <1>12, <2>2, <2>3, LagRange
    <3>5. Lag' + AllWork' <= Lag + AllWork /\ AllWork' \in Int
      BY <3>2, <3>3, <3>4
    <3> QED
      BY <1>1, <1>6, <3>2, <3>5, Spending
  <2> QED
    BY <1>6, <1>8, <1>10, <1>11, <1>13, <2>3, <2>5, <2>6, <2>7, <2>8 DEF IInv
<1> QED
  BY <1>7, <1>15, <1>16

(* The exchanges with the sensor. *)
LEMMA ReadingKeeps ==
    ASSUME IInv, my_temp_function
    PROVE  IInv'
<1>1. /\ Current = "temp" /\ pc["temp"] = "start" /\ "temp" \in Tasks /\ Returns("temp")
      /\ pc' = [pc EXCEPT !["temp"] = "notify"] /\ data' \in BOOLEAN
      /\ UNCHANGED <<semaphore, holder, my_queue, notified, countdown, count, used>>
      /\ Kernel /\ Application
  BY TheTasks DEF IInv, Application, my_temp_function, At, Goto
<1>2. on["temp"] = "none" /\ \A u \in Senders : Placed(u)
  BY <1>1, RunsAlone
<1>3. /\ Kernel' /\ Current' = Current /\ on' = on /\ ready' = ready
      /\ left'["temp"] = None /\ \A u \in Tasks \ {"temp"} : left'[u] = left[u]
  BY <1>1, GoingOn
<1>4. Application' /\ pc'["temp"] = "notify" /\ \A u \in Tasks \ {"temp"} : pc'[u] = pc[u]
  BY <1>1, Moved DEF Application, Points
<1>5. Placed("temp")' /\ Work("temp")' = Work("temp")
  BY <1>1, <1>2, <1>3, <1>4 DEF Placed, Work, Woken, Senders
<1>6. \A u \in Senders \ {"temp"} : Placed(u)' /\ Work(u)' = Work(u)
  BY <1>1, <1>2, <1>3, <1>4, Untouched, TheTasks DEF Senders, Woken
<1>7. LogPlaced'
  BY <1>1, <1>3, <1>4, TheTasks DEF IInv, LogPlaced
<1>8. Holding'
  BY <1>1, <1>3, <1>4, TheTasks DEF IInv, Holding, Senders
<1>9. Undisturbed'
  BY <1>1, <1>3, <1>4, TheTasks DEF IInv, Undisturbed, Harmless
<1>10. Lag' = Lag
  BY <1>1, <1>3, <1>4, TheTasks DEF Lag, Harmless
<1>11. InBudget'
  BY <1>1, <1>5, <1>6, <1>10 DEF IInv, InBudget, AllWork, Elapsed, Senders
<1> QED
  BY <1>3, <1>4, <1>5, <1>6, <1>7, <1>8, <1>9, <1>11 DEF IInv

(* xTaskNotifyGive: the alert task is asleep, the mutex free, and the alert's  *)
(* work has been counted as the temperature task's.                            *)
LEMMA NotifyKeeps ==
    ASSUME IInv, Notify
    PROVE  IInv'
<1>1. /\ Current = "temp" /\ pc["temp"] = "notify" /\ "temp" \in Tasks /\ "temp" \in Senders
      /\ pc' = [pc EXCEPT !["temp"] = "mutex"]
      /\ UNCHANGED <<semaphore, holder, my_queue, data, countdown, count, used>>
      /\ Kernel /\ Application
  BY TheTasks DEF IInv, Notify, At, Goto, Senders
<1>2. on["temp"] = "none" /\ \A u \in Senders : Placed(u)
  BY <1>1, RunsAlone
<1>3. /\ ~used /\ on["alert"] = "notify" /\ holder = Nobody
      /\ \A u \in Senders : pc[u] \notin {"send", "give"}
  BY <1>1, TheTasks DEF IInv, Undisturbed, Holding, Senders
<1>4. on["led"] # "mutex" /\ ~semaphore["temp"] /\ pc["alert"] = "take" /\ left["alert"] = Forever
  <2>1. semaphore["led"] => pc["led"] = "take" /\ on["led"] = "none"
    BY <1>2 DEF Placed, Woken, Senders
  <2>2. on["led"] # "mutex"
    BY <1>1, <1>2, <2>1 DEF IInv, Undisturbed, Placed, Senders, Own
  <2>3. ~semaphore["temp"]
    BY <1>1, <1>2 DEF Placed, Woken, Senders
  <2>4. Placed("alert")
    BY <1>2 DEF Senders
  <2> QED
    BY <1>3, <2>2, <2>3, <2>4 DEF Placed, Own
<1>5. pc'["temp"] = "mutex" /\ \A u \in Tasks \ {"temp"} : pc'[u] = pc[u]
  BY <1>1, Moved DEF Points
<1>6. notified' \in BOOLEAN => Application'
  <2>1. "mutex" \in Points["temp"]
    BY DEF Points
  <2> QED
    BY <1>1, <2>1, Moved DEF Application
<1>7. ~Undisturbed' => FALSE
  <2>1. ~(semaphore'["temp"] \/ pc'["temp"] \in {"start", "notify"})
    BY <1>1, <1>4, <1>5
  <2> QED
    BY <2>1 DEF Undisturbed
<1>8. CASE ~data /\ Returns("temp") /\ UNCHANGED notified
  <2>1. /\ Kernel' /\ Current' = Current /\ on' = on /\ ready' = ready
        /\ left'["temp"] = None /\ \A u \in Tasks \ {"temp"} : left'[u] = left[u]
    BY <1>1, <1>8, GoingOn
  <2>2. Application'
    BY <1>1, <1>6, <1>8 DEF Application
  <2>3. Placed("temp")' /\ Work("temp")' = Work("temp") - 5
    BY <1>1, <1>2, <1>4, <1>5, <2>1 DEF Placed, Work, Woken, After
  <2>4. \A u \in Senders \ {"temp"} : Placed(u)' /\ Work(u)' = Work(u)
    BY <1>1, <1>2, <1>5, <1>8, <2>1, Untouched, TheTasks DEF Senders, Woken
  <2>5. LogPlaced'
    BY <1>1, <1>5, <2>1, TheTasks DEF IInv, LogPlaced
  <2>6. Holding'
    BY <1>1, <1>3, <1>5, <1>8, <2>1, TheTasks DEF IInv, Holding, Senders
  <2>7. InBudget'
    <3>1. Lag' = Lag /\ Lag \in Int
      BY <1>1, <1>5, <2>1, LagRange, TheTasks DEF Lag, Harmless
    <3>2. Work("temp") \in Nat
      BY <1>1, <1>2, SomeWork
    <3>3. Work("temp")' \in Int /\ Lag' + Work("temp")' <= Lag + Work("temp")
      BY <2>3, <3>1, <3>2
    <3> QED
      BY <1>1, <1>2, <2>2, <2>4, <3>3, SpendingAlone
  <2> QED
    BY <1>7, <2>1, <2>2, <2>3, <2>4, <2>5, <2>6, <2>7 DEF IInv
<1>9. CASE data /\ notified' = TRUE /\ Signals("temp", "notify", prio)
  <2>1. /\ Listed(ready', on') /\ prio' = Base /\ left' = [left EXCEPT !["temp"] = None]
        /\ on' \in [Tasks -> Resources]
        /\ \/ \A u \in Tasks : on[u] # "notify"
           \/ \E u \in Tasks :
                 /\ on[u] = "notify" /\ on' = [on EXCEPT ![u] = "none"]
                 /\ Elected(ready', Base) = IF u = "alert" THEN "alert" ELSE Current
    BY <1>1, <1>9, Signalling DEF Kernel, Resources
  <2>2. Kernel' /\ left'["temp"] = None /\ \A u \in Tasks \ {"temp"} : left'[u] = left[u]
    BY <1>1, <2>1 DEF Kernel
  <2>3. \A u \in Tasks : on[u] = "notify" => u = "alert"
    <3>1. on["log"] # "notify"
      BY DEF IInv, LogPlaced
    <3>2. on["led"] # "notify" /\ on["temp"] # "notify"
      BY <1>2 DEF Placed, Own, Senders
    <3> QED
      BY <3>1, <3>2, TheTasks
  <2>4. /\ on' = [on EXCEPT !["alert"] = "none"] /\ Current' = "alert"
    BY <1>3, <2>1, <2>3, TheTasks DEF Current
  <2>5. on'["alert"] = "none" /\ \A u \in Tasks \ {"alert"} : on'[u] = on[u]
    BY <1>1, <2>4, TheTasks DEF Kernel
  <2>6. Application'
    BY <1>6, <1>9
  <2>7. Placed("temp")' /\ Work("temp")' = 5 /\ Work("temp") = 10
    BY <1>1, <1>2, <1>4, <1>5, <2>2, <2>5 DEF Placed, Work, Woken, After
  <2>8. Placed("alert")' /\ Work("alert")' = 5 /\ Work("alert") = 0
    BY <1>3, <1>4, <1>5, <1>9, <2>2, <2>5, TheTasks DEF Placed, Work, Woken, Own
  <2>9. Placed("led")' /\ Work("led")' = Work("led")
    BY <1>1, <1>2, <1>5, <2>2, <2>5, Untouched, TheTasks DEF Senders, Woken
  <2>10. LogPlaced'
    BY <1>1, <1>5, <2>2, <2>5, TheTasks DEF IInv, LogPlaced
  <2>11. Holding'
    BY <1>1, <1>2, <1>3, <1>4, <1>5, <2>5, TheTasks DEF Holding, Senders
  <2>12. InBudget'
    <3>1. Lag' = 0 /\ Lag \in Nat
      BY <1>1, <1>3, <2>4, LagRange DEF Lag
    <3>2. AllWork \in Nat /\ AllWork > 0 /\ Work("led") \in Nat
      BY <1>1, <1>2, SomeWork, WorkRange DEF IInv, Senders
    <3>3. AllWork' = AllWork
      BY <2>7, <2>8, <2>9, <3>2 DEF AllWork
    <3>4. Lag' + AllWork' <= Lag + AllWork /\ AllWork' \in Int
      BY <3>1, <3>2, <3>3
    <3> QED
      BY <1>1, <2>6, <3>2, <3>4, Spending
  <2> QED
    BY <1>7, <2>2, <2>6, <2>7, <2>8, <2>9, <2>10, <2>11, <2>12 DEF IInv, Senders
<1> QED
  BY <1>8, <1>9 DEF Notify

(* ulTaskNotifyTake. *)
LEMMA NotifyTakeKeeps ==
    ASSUME IInv, NotifyTake
    PROVE  IInv'
<1>1. /\ Current = "alert" /\ pc["alert"] = "take" /\ "alert" \in Tasks /\ "alert" \in Senders
      /\ UNCHANGED <<semaphore, holder, my_queue, data, countdown, count, used>>
      /\ Kernel /\ Application
  BY TheTasks DEF IInv, NotifyTake, At, Senders
<1>2. on["alert"] = "none" /\ \A u \in Senders : Placed(u)
  BY <1>1, RunsAlone
<1>3. left["alert"] = IF notified THEN Forever ELSE None
  BY <1>1, <1>2 DEF Placed, Woken, Own
<1>4. ~(semaphore["temp"] \/ pc["temp"] \in {"start", "notify"})
  BY <1>2 DEF IInv, Undisturbed
<1>5. CASE notified /\ notified' = FALSE /\ Returns("alert") /\ pc' = [pc EXCEPT !["alert"] = "mutex"]
  <2>1. /\ Kernel' /\ Current' = Current /\ on' = on /\ ready' = ready
        /\ left'["alert"] = None /\ \A u \in Tasks \ {"alert"} : left'[u] = left[u]
    BY <1>1, <1>5, GoingOn
  <2>2. Application' /\ pc'["alert"] = "mutex" /\ \A u \in Tasks \ {"alert"} : pc'[u] = pc[u]
    BY <1>1, <1>5, Moved DEF Application, Points
  <2>3. Placed("alert")' /\ Work("alert")' = Work("alert")
    <3>1. on'["alert"] = "none" /\ pc'["alert"] = "mutex" /\ left'["alert"] = None /\ ~notified'
      BY <1>2, <1>5, <2>1, <2>2
    <3>2. Placed("alert")'
      BY <3>1 DEF Placed, Woken
    <3> QED
      BY <1>1, <1>2, <1>5, <3>1, <3>2 DEF Work, Woken, After
  <2>4. \A u \in Senders \ {"alert"} : Placed(u)' /\ Work(u)' = Work(u)
    BY <1>1, <1>2, <2>1, <2>2, Untouched, TheTasks DEF Senders, Woken
  <2>5. LogPlaced'
    BY <1>1, <2>1, <2>2, TheTasks DEF IInv, LogPlaced
  <2>6. Holding'
    BY <1>1, <1>5, <2>1, <2>2, TheTasks DEF IInv, Holding, Senders
  <2>7. Undisturbed'
    BY <1>1, <1>4, <2>2, TheTasks DEF Undisturbed
  <2>8. Lag' = Lag
    BY <1>1, <2>1, <2>2, TheTasks DEF Lag, Harmless
  <2>9. InBudget'
    BY <1>1, <2>3, <2>4, <2>8 DEF IInv, InBudget, AllWork, Elapsed, Senders
  <2> QED
    BY <2>1, <2>2, <2>3, <2>4, <2>5, <2>6, <2>7, <2>9 DEF IInv
<1>6. CASE ~notified /\ Blocks("alert", "notify", Forever, prio) /\ UNCHANGED <<pc, notified>>
  <2>1. /\ Kernel' /\ on'["alert"] = "notify" /\ (\A u \in Tasks \ {"alert"} : on'[u] = on[u])
        /\ left'["alert"] = Forever
        /\ \A u \in Tasks \ {"alert"} : left'[u] = left[u]
    BY <1>1, <1>3, <1>6, Stopping DEF Resources
  <2>2. Application'
    BY <1>1, <1>6 DEF Application
  <2>3. Placed("alert")' /\ Work("alert")' = 0 /\ Work("alert") = 1
    BY <1>1, <1>2, <1>6, <2>1 DEF Placed, Work, Woken, Own
  <2>4. \A u \in Senders \ {"alert"} : Placed(u)' /\ Work(u)' = Work(u)
    BY <1>1, <1>2, <1>6, <2>1, Untouched, TheTasks DEF Senders, Woken
  <2>5. LogPlaced'
    BY <1>1, <1>6, <2>1, TheTasks DEF IInv, LogPlaced
  <2>6. Holding'
    BY <1>1, <1>2, <1>6, <2>1, TheTasks DEF IInv, Holding, Senders
  <2>7. Undisturbed'
    BY <1>1, <1>4, <1>6 DEF Undisturbed
  <2>8. InBudget'
    <3>1. Lag \in Int /\ Lag' \in Int /\ Lag' <= Lag + 1
      BY <1>1, <2>2, LagRange, LagRangeNext
    <3>2. Work("alert")' \in Int /\ Lag' + Work("alert")' <= Lag + Work("alert")
      BY <2>3, <3>1
    <3> QED
      BY <1>1, <1>2, <2>2, <2>4, <3>2, SpendingAlone
  <2> QED
    BY <2>1, <2>2, <2>3, <2>4, <2>5, <2>6, <2>7, <2>8 DEF IInv
<1> QED
  BY <1>5, <1>6 DEF NotifyTake, Goto

(* While the logger task runs and has something to print, the temperature task *)
(* has not been woken, nor is it about to notify the alert task.               *)
LEMMA LogRuns ==
    ASSUME IInv, Current = "log", ~Harmless
    PROVE  ~(semaphore["temp"] \/ pc["temp"] \in {"start", "notify"})
<1>1. on["temp"] = "none" => Ahead(ready, "log", "temp")
  BY RunsAlone, TheTasks DEF IInv
<1>2. semaphore["temp"] \/ pc["temp"] \in {"start", "notify"} => on["temp"] = "none"
  BY DEF IInv, Placed, Woken, Senders
<1> QED
  BY <1>1, <1>2 DEF IInv, Undisturbed

(* The end of a printing uses up the tick, which the lag had counted. *)
LEMMA PrintKeeps ==
    ASSUME IInv, Print_ends
    PROVE  IInv'
<1>1. /\ Current = "log" /\ pc["log"] = "print" /\ "log" \in Tasks /\ Returns("log")
      /\ pc' = [pc EXCEPT !["log"] = "receive"] /\ used' = TRUE
      /\ UNCHANGED <<semaphore, holder, my_queue, notified, data, countdown, count>>
      /\ Kernel /\ Application
  BY TheTasks DEF IInv, Print_ends, At, Goto
<1>2. on["log"] = "none" /\ \A u \in Senders : Placed(u)
  BY <1>1, RunsAlone
<1>3. /\ Kernel' /\ Current' = Current /\ on' = on /\ ready' = ready
      /\ left'["log"] = None /\ \A u \in Tasks \ {"log"} : left'[u] = left[u]
  BY <1>1, GoingOn
<1>4. Application' /\ pc'["log"] = "receive" /\ \A u \in Tasks \ {"log"} : pc'[u] = pc[u]
  BY <1>1, Moved DEF Application, Points
<1>5. \A u \in Senders : Placed(u)' /\ Work(u)' = Work(u)
  BY <1>1, <1>2, <1>3, <1>4, Untouched, TheTasks DEF Senders, Woken
<1>6. LogPlaced'
  BY <1>2, <1>3 DEF LogPlaced
<1>7. Holding'
  BY <1>1, <1>3, <1>4, TheTasks DEF IInv, Holding, Senders
<1>8. Undisturbed'
  <2>1. ~(semaphore["temp"] \/ pc["temp"] \in {"start", "notify"})
    BY <1>1, LogRuns DEF Harmless
  <2> QED
    BY <1>1, <1>4, <2>1, TheTasks DEF Undisturbed
<1>9. Lag' = 1 /\ Lag = 1
  BY <1>1, <1>3 DEF Lag, Harmless
<1>10. InBudget'
  BY <1>1, <1>5, <1>9 DEF IInv, InBudget, AllWork, Elapsed, Senders
<1> QED
  BY <1>3, <1>4, <1>5, <1>6, <1>7, <1>8, <1>10 DEF IInv

(* xQueueReceive: the sender it makes room for may go ahead of the logger task, *)
(* and saves the tick that costs.                                              *)
LEMMA ReceiveKeeps ==
    ASSUME IInv, Unhurried, Receive
    PROVE  IInv'
<1>1. /\ Current = "log" /\ pc["log"] = "receive" /\ "log" \in Tasks
      /\ UNCHANGED <<semaphore, holder, notified, data, countdown, count, used>>
      /\ Kernel /\ Application
  BY TheTasks DEF IInv, Receive, At
<1>2. on["log"] = "none" /\ left["log"] \in {None, 0, 1} /\ \A u \in Senders : Placed(u)
  BY <1>1, RunsAlone DEF IInv, LogPlaced
<1>3. \A u \in Senders : Woken(u)' = Woken(u)
  BY <1>1 DEF Woken
<1>4. CASE my_queue # << >> /\ my_queue' = Tail(my_queue) /\ Signals("log", "space", prio)
           /\ pc' = [pc EXCEPT !["log"] = "print"]
  <2>1. /\ Listed(ready', on') /\ prio' = Base /\ left' = [left EXCEPT !["log"] = None]
        /\ on' \in [Tasks -> Resources]
        /\ \/ /\ \A u \in Tasks : on[u] # "space"
              /\ on' = on /\ ready' = ready
           \/ \E u \in Tasks :
                 /\ on[u] = "space" /\ on' = [on EXCEPT ![u] = "none"]
                 /\ Elected(ready', Base) = IF u = "alert" THEN "alert" ELSE Current
    BY <1>1, <1>4, Signalling DEF Kernel, Resources
  <2>2. Kernel' /\ left'["log"] = None /\ \A u \in Tasks \ {"log"} : left'[u] = left[u]
    BY <1>1, <2>1 DEF Kernel
  <2>3. /\ my_queue' \in Seq(Tasks) /\ Len(my_queue') \in Nat /\ Len(my_queue') < Len(my_queue)
        /\ Len(my_queue) <= QueueLength
    BY <1>1, <1>4 DEF Application
  <2>4. Application' /\ pc'["log"] = "print" /\ \A u \in Tasks \ {"log"} : pc'[u] = pc[u]
    <3>1. "print" \in Points["log"]
      BY DEF Points
    <3>2. Len(my_queue') <= QueueLength
      BY <2>3, TheTasks
    <3> QED
      BY <1>1, <1>4, <2>3, <3>1, <3>2, Moved DEF Application
  <2>5. \A u \in Senders : on'[u] = on[u] => Placed(u)' /\ Work(u)' = Work(u)
    <3> TAKE u \in Senders
    <3> HAVE on'[u] = on[u]
    <3>1. Placed(u) /\ pc'[u] = pc[u] /\ left'[u] = left[u] /\ Woken(u)' = Woken(u) /\ countdown' = countdown
      BY <1>1, <1>2, <1>3, <2>2, <2>4, TheTasks DEF Senders
    <3> QED
      BY <1>1, <2>3, <3>1, Untouched
  <2>6. on'["log"] = "none"
    BY <1>1, <1>2, <2>1 DEF Kernel
  <2>7. LogPlaced'
    BY <2>2, <2>6 DEF LogPlaced
  <2>8. Undisturbed'
    <3>1. ~(semaphore["temp"] \/ pc["temp"] \in {"start", "notify"})
      BY <1>1, <1>4, LogRuns DEF Harmless
    <3> QED
      BY <1>1, <2>4, <3>1, TheTasks DEF Undisturbed
  <2>9. Lag = 1
    BY <1>1, <1>4 DEF Lag, Harmless
  <2>10. CASE on' = on /\ ready' = ready
    <3>1. Lag' = 1
      BY <1>1, <2>1, <2>4, <2>10 DEF Lag, Harmless, Current, Kernel
    <3>2. Holding'
      BY <1>1, <2>4, <2>10, TheTasks DEF IInv, Holding, Senders
    <3>3. InBudget'
      BY <1>1, <2>5, <2>9, <2>10, <3>1 DEF IInv, InBudget, AllWork, Elapsed, Senders
    <3> QED
      BY <2>2, <2>4, <2>5, <2>7, <2>8, <2>10, <3>2, <3>3 DEF IInv
  <2>11. ASSUME NEW u \in Tasks, on[u] = "space", on' = [on EXCEPT ![u] = "none"]
         PROVE  IInv'
    <3>1. u \in Senders
      BY <1>2, <2>11, TheTasks DEF Senders
    <3>2. on'[u] = "none" /\ \A v \in Tasks \ {u} : on'[v] = on[v]
      BY <1>1, <2>11 DEF Kernel
    <3>3. Placed(u)' /\ Work(u)' = Work(u) - 1
      <4>1. pc'[u] = pc[u] /\ left'[u] = left[u] /\ countdown' = countdown
        BY <1>1, <2>2, <2>4, <3>1, TheTasks DEF Senders
      <4>2. Len(my_queue') < QueueLength
        BY <2>3, TheTasks
      <4>3. Work(u)' = Work(u) + IF on[u] = "mutex" THEN 1 ELSE -1
        BY <1>1, <1>2, <1>3, <2>4, <2>11, <3>1, <3>2, <4>1, <4>2, WokenUp
      <4>4. Work(u) \in Nat
        BY <1>1, <1>2, <3>1, WorkRange
      <4> QED
        BY <1>1, <1>2, <1>3, <2>4, <2>11, <3>1, <3>2, <4>1, <4>2, <4>3, <4>4, WokenUp
    <3>4. \A v \in Senders \ {u} : Placed(v)' /\ Work(v)' = Work(v)
      BY <2>5, <3>2, TheTasks DEF Senders
    <3>5. Holding'
      <4>1. \A v \in Senders : on'[v] = "mutex" /\ holder' = Nobody =>
               \E x \in Senders : on'[x] = "none" /\ pc'[x] = "mutex"
        <5> TAKE v \in Senders
        <5> HAVE on'[v] = "mutex" /\ holder' = Nobody
        <5>1. on[v] = "mutex" /\ holder = Nobody
          BY <1>1, <3>2, TheTasks DEF Senders
        <5>2. PICK x \in Senders : on[x] = "none" /\ pc[x] = "mutex"
          BY <5>1 DEF IInv, Holding
        <5>3. on'[x] = "none" /\ pc'[x] = "mutex"
          BY <2>4, <3>2, <5>2, TheTasks DEF Senders
        <5> QED
          BY <5>3
      <4> QED
        BY <1>1, <2>4, <4>1, TheTasks DEF IInv, Holding, Senders
    <3>6. InBudget'
      <4>1. Work("led") \in Nat /\ Work("temp") \in Nat /\ Work("alert") \in Nat /\ Work(u) > 0
        <5>1. \A v \in Senders : Work(v) \in Nat
          BY <1>1, <1>2, WorkRange
        <5>2. Work(u) > 0
          BY <1>1, <1>2, <2>11, <3>1, WorkRange
        <5> QED
          BY <5>1, <5>2 DEF Senders
      <4>2. AllWork \in Nat /\ AllWork > 0 /\ AllWork' \in Int /\ AllWork' = AllWork - 1
        <5>1. CASE u = "led"
          BY <3>3, <3>4, <4>1, <5>1 DEF AllWork, Senders
        <5>2. CASE u = "temp"
          BY <3>3, <3>4, <4>1, <5>2 DEF AllWork, Senders
        <5>3. CASE u = "alert"
          BY <3>3, <3>4, <4>1, <5>3 DEF AllWork, Senders
        <5> QED
          BY <3>1, <5>1, <5>2, <5>3 DEF Senders
      <4>3. Lag' \in Int /\ Lag' <= 2
        BY <2>4, LagRangeNext
      <4>4. Lag' + AllWork' <= Lag + AllWork
        <5>1. \A a, b, c, d \in Int : a <= 2 /\ b = d - 1 /\ c = 1 => a + b <= c + d
          OBVIOUS
        <5>2. AllWork \in Int /\ Lag \in Int
          BY <2>9, <4>2
        <5> QED
          BY <2>9, <4>2, <4>3, <5>1, <5>2, Zenon
      <4> QED
        BY <1>1, <2>4, <4>2, <4>4, Spending
    <3> QED
      BY <2>2, <2>4, <2>7, <2>8, <3>3, <3>4, <3>5, <3>6 DEF IInv
  <2> QED
    BY <2>1, <2>10, <2>11
<1>5. CASE my_queue = << >> /\ left["log"] = 0 /\ Returns("log") /\ UNCHANGED <<pc, my_queue>>
  <2>1. /\ Kernel' /\ Current' = Current /\ on' = on /\ ready' = ready
        /\ left'["log"] = None /\ \A u \in Tasks \ {"log"} : left'[u] = left[u]
    BY <1>1, <1>5, GoingOn
  <2>2. Application'
    BY <1>1, <1>5 DEF Application
  <2>3. \A u \in Senders : Placed(u)' /\ Work(u)' = Work(u)
    BY <1>1, <1>2, <1>3, <1>5, <2>1, Untouched, TheTasks DEF Senders
  <2>4. LogPlaced'
    BY <1>2, <2>1 DEF LogPlaced
  <2>5. Holding'
    BY <1>1, <1>5, <2>1 DEF IInv, Holding
  <2>6. Undisturbed'
    BY <1>1, <1>5, <2>1 DEF IInv, Undisturbed, Harmless
  <2>7. Lag' = Lag
    BY <1>1, <1>5, <2>1 DEF Lag, Harmless
  <2>8. InBudget'
    BY <1>1, <2>3, <2>7 DEF IInv, InBudget, AllWork, Elapsed, Senders
  <2> QED
    BY <2>1, <2>2, <2>3, <2>4, <2>5, <2>6, <2>8 DEF IInv
<1>6. CASE my_queue = << >> /\ left["log"] # 0 /\ Blocks("log", "record", 1, prio)
           /\ UNCHANGED <<pc, my_queue>>
  <2>1. /\ Kernel' /\ on'["log"] = "record" /\ (\A u \in Tasks \ {"log"} : on'[u] = on[u])
        /\ left'["log"] = (IF left["log"] = None THEN 1 ELSE left["log"])
        /\ (\A u \in Tasks \ {"log"} : left'[u] = left[u])
        /\ \A u, v : Ahead(ready', u, v) => Ahead(ready, u, v)
    <3>1. 1 \in {Forever} \cup 0..MutexWait
      BY TheTasks
    <3> QED
      BY <1>1, <1>6, <3>1, Stopping DEF Resources
  <2>2. Application'
    BY <1>1, <1>6 DEF Application
  <2>3. \A u \in Senders : Placed(u)' /\ Work(u)' = Work(u)
    BY <1>1, <1>2, <1>3, <1>6, <2>1, Untouched, TheTasks DEF Senders
  <2>4. LogPlaced'
    BY <1>1, <1>2, <1>6, <2>1 DEF LogPlaced
  <2>5. Holding'
    BY <1>1, <1>6, <2>1, TheTasks DEF IInv, Holding, Senders
  <2>6. Undisturbed'
    BY <1>1, <1>6, <2>1, TheTasks DEF IInv, Undisturbed, Harmless
  <2>7. Lag' = Lag
    BY <1>1, <1>6, <2>1 DEF Lag, Harmless
  <2>8. InBudget'
    BY <1>1, <2>3, <2>7 DEF IInv, InBudget, AllWork, Elapsed, Senders
  <2> QED
    BY <2>1, <2>2, <2>3, <2>4, <2>5, <2>6, <2>8 DEF IInv
<1> QED
  BY <1>4, <1>5, <1>6 DEF Receive, Goto
-----------------------------------------------------------------------------
(* The tick *)

(* What a tick does whether or not the timer expires in it.                    *)
LEMMA TickMoves ==
    ASSUME IInv, SysTick
    PROVE  /\ Kernel' /\ Application' /\ LogPlaced'
           /\ UNCHANGED <<pc, holder, my_queue, notified, data>>
           /\ semaphore' = [s \in {"led", "temp"} |-> semaphore[s] \/ s \in Given]
           /\ Given \subseteq {"led", "temp"} /\ used' = FALSE
           /\ countdown' = IF Expires THEN Period ELSE countdown - 1
           /\ \A t \in Tasks :
                 on'[t] = IF t \in Due \/ (t \in Given /\ on[t] = t) THEN "none" ELSE on[t]
           /\ \A t \in Tasks :
                 left'[t] = IF t \in Due /\ on[t] = "delay" THEN None
                            ELSE IF left[t] > 0 THEN left[t] - 1 ELSE left[t]
           /\ Current = "log" => /\ \A u : ~Ahead(ready', "log", u)
                                 /\ \A u \in Tasks : u # "log" /\ on'[u] = "none" => Current' # "log"
<1> DEFINE G == {t \in Given : on[t] = t}
<1>1. /\ UNCHANGED <<pc, holder, my_queue, notified, data>>
      /\ semaphore' = [s \in {"led", "temp"} |-> semaphore[s] \/ s \in Given]
      /\ used' = FALSE /\ countdown' = (IF Expires THEN Period ELSE countdown - 1)
      /\ count' = (IF Expires THEN (count + 1) % TempEvery ELSE count)
      /\ Tick(G) /\ Kernel /\ Application
  BY DEF SysTick, IInv
<1>2. Given \subseteq {"led", "temp"} /\ G \in SUBSET Tasks
  BY TheTasks DEF Given
<1>3. \A t \in G : on[t] = t /\ on[t] # "none" /\ on[t] # "delay"
  BY <1>2
<1>4. /\ Listed(ready', on') /\ prio' = Base /\ on' \in [Tasks -> Resources]
      /\ on' = [t \in Tasks |-> IF t \in Due \cup G THEN "none" ELSE on[t]]
      /\ left' = [t \in Tasks |-> IF t \in Due \cup G /\ on[t] = "delay" THEN None
                                  ELSE IF left[t] > 0 THEN left[t] - 1 ELSE left[t]]
      /\ Current = "log" => /\ \A u : ~Ahead(ready', "log", u)
                            /\ \A u \in Tasks : u # "log" /\ on'[u] = "none"
                                  => Elected(ready', Base) # "log"
  <2> HIDE DEF G
  <2> QED
    BY <1>1, <1>2, <1>3, Ticking DEF Kernel
<1>5. Current' = Elected(ready', Base)
  BY <1>4 DEF Current
<1>6. /\ \A t \in Tasks :
            on'[t] = IF t \in Due \/ (t \in Given /\ on[t] = t) THEN "none" ELSE on[t]
      /\ \A t \in Tasks :
            left'[t] = IF t \in Due /\ on[t] = "delay" THEN None
                       ELSE IF left[t] > 0 THEN left[t] - 1 ELSE left[t]
  BY <1>3, <1>4
<1>7. Kernel'
  <2>1. left' \in [Tasks -> {Forever, None} \cup 0..MutexWait]
    <3>1. \A t \in Tasks : left[t] \in {Forever, None} \cup 0..MutexWait
      BY <1>1 DEF Kernel
    <3>2. \A t \in Tasks : left'[t] \in {Forever, None} \cup 0..MutexWait
      BY <1>6, <3>1, TheTasks DEF None, Forever
    <3> QED
      BY <1>4, <3>2
  <2> QED
    BY <1>4, <2>1 DEF Kernel
<1>8. Application'
  <2>1. countdown' \in 1..Period
    BY <1>1, TheTasks DEF Application, Expires
  <2>2. count' \in 0..(TempEvery - 1)
    <3>1. count + 1 \in Nat /\ (count + 1) % TempEvery \in 0..(TempEvery - 1)
      BY <1>1, TheTasks DEF Application
    <3> QED
      BY <1>1, <3>1 DEF Application
  <2>3. semaphore' \in [{"led", "temp"} -> BOOLEAN]
    BY <1>1 DEF Application
  <2> QED
    BY <1>1, <2>1, <2>2, <2>3 DEF Application
<1>9. LogPlaced'
  <2>1. "log" \in Tasks /\ "log" \notin Given
    BY <1>2, TheTasks
  <2>2. CASE on["log"] = "none" /\ left["log"] \in {None, 0, 1}
    <3>1. on'["log"] = "none"
      BY <1>6, <2>1, <2>2
    <3>2. left'["log"] \in {None, 0, 1}
      BY <1>6, <2>1, <2>2 DEF None
    <3> QED
      BY <3>1, <3>2 DEF LogPlaced
  <2>3. CASE on["log"] = "record" /\ left["log"] = 1
    <3>1. "log" \in Due
      BY <2>1, <2>3 DEF Due
    <3>2. on'["log"] = "none" /\ left'["log"] = 0
      BY <1>6, <2>1, <2>3, <3>1
    <3> QED
      BY <3>2 DEF LogPlaced
  <2> QED
    BY <2>2, <2>3 DEF IInv, LogPlaced
<1> QED
  BY <1>1, <1>2, <1>4, <1>5, <1>6, <1>7, <1>8, <1>9

(* No tick falls between an expiry that wakes the temperature task and the     *)
(* notification.                                                               *)
LEMMA NoTickThen ==
    ASSUME IInv, SysTick
    PROVE  ~(semaphore["temp"] \/ pc["temp"] \in {"start", "notify"})
<1> SUFFICES ASSUME semaphore["temp"] \/ pc["temp"] \in {"start", "notify"} PROVE FALSE
  OBVIOUS
<1>1. ~used /\ on["temp"] = "none"
  BY DEF IInv, Undisturbed, Placed, Woken, Senders
<1>2. Current \in Tasks
  <2>1. Listed(ready, on) /\ Current = Elected(ready, Base)
    BY DEF IInv, Kernel, Current
  <2> QED
    BY <1>1, <2>1, Running, TheTasks
<1>3. Current = "log" /\ pc["log"] = "print"
  BY <1>1, <1>2, TheTasks DEF SysTick, At
<1> QED
  BY <1>3, LogRuns DEF Harmless

(* A tick does not add to the lag, and shortens it while a sender is ready.    *)
LEMMA LagFalls ==
    ASSUME IInv, SysTick
    PROVE  /\ Lag' <= Lag
           /\ Current = Idle => Harmless
           /\ \A u \in Senders : on[u] = "none" => Lag' <= Lag - 1
<1>1. /\ Kernel' /\ Application' /\ LogPlaced'
      /\ UNCHANGED <<pc, my_queue>> /\ used' = FALSE /\ "log" \in Tasks
      /\ \A t \in Tasks : on[t] = "none" => on'[t] = "none"
      /\ Current = "log" =>
            \A u \in Tasks : u # "log" /\ on'[u] = "none" => Current' # "log"
  BY TickMoves, TheTasks
<1>2. Listed(ready, on) /\ Current = Elected(ready, Base)
  BY DEF IInv, Kernel, Current
<1>3. on["log"] # "none" => Harmless
  BY DEF IInv, LogPlaced, Harmless
<1>4. Current = Idle => Harmless
  <2>1. Current = Idle => on["log"] # "none"
    BY <1>1, <1>2, Running, TheTasks
  <2> QED
    BY <1>3, <2>1
<1>5. Lag' = IF Current' = "log" /\ ~Harmless THEN 1 ELSE 0
  BY <1>1 DEF Lag, Harmless
<1>6. Lag \in 0..2 /\ (used => Lag >= 1) /\ (Current = "log" /\ ~Harmless => Lag = 1)
  BY LagRange DEF IInv, Lag
<1>7. Current = Idle \/ used \/ (Current = "log" /\ ~Harmless)
  BY DEF SysTick, At, Harmless
<1>8. Lag' <= Lag
  BY <1>4, <1>5, <1>6, <1>7
<1>9. ASSUME NEW u \in Senders, on[u] = "none" PROVE Lag' <= Lag - 1
  <2>1. u \in Tasks /\ u # "log" /\ on'[u] = "none"
    BY <1>1, <1>9, TheTasks DEF Senders
  <2>2. Current \in Tasks /\ Current # Idle
    BY <1>2, <1>9, <2>1, Running, TheTasks
  <2>3. CASE Current = "log"
    <3>1. Current' # "log"
      BY <1>1, <2>1, <2>3
    <3>2. Lag >= 1
      BY <1>6, <1>7, <2>2
    <3> QED
      BY <1>5, <1>6, <3>1, <3>2
  <2>4. CASE Current # "log"
    <3>1. used
      BY <1>7, <2>2, <2>4
    <3>2. Lag = IF on["log"] = "none" THEN 2 ELSE 1
      BY <2>4, <3>1 DEF Lag
    <3> QED
      BY <1>3, <1>5, <3>2
  <2> QED
    BY <2>3, <2>4
<1> QED
  BY <1>4, <1>8, <1>9

(* A tick brings every sender that waits for time to pass closer to the end of *)
(* its wait.                                                                   *)
LEMMA TickWork ==
    ASSUME IInv, Unhurried, SysTick, ~Expires, NEW u \in Senders
    PROVE  /\ Placed(u)'
           /\ Work(u)' = IF on[u] \in {"delay", "space"} THEN Work(u) - 1 ELSE Work(u)
<1>1. /\ UNCHANGED <<pc, holder, my_queue, notified, data>>
      /\ Woken(u)' = Woken(u) /\ countdown' = countdown - 1 /\ u \in Tasks
      /\ on'[u] = (IF u \in Due THEN "none" ELSE on[u])
      /\ left'[u] = IF u \in Due /\ on[u] = "delay" THEN None
                    ELSE IF left[u] > 0 THEN left[u] - 1 ELSE left[u]
  <2>1. Given = {} /\ u \in Tasks
    BY TheTasks DEF Given, Senders
  <2>2. Woken(u)' = Woken(u)
    <3>1. /\ semaphore \in [{"led", "temp"} -> BOOLEAN] /\ notified' = notified
          /\ semaphore' = [s \in {"led", "temp"} |-> semaphore[s] \/ s \in {}]
      BY <2>1, TickMoves DEF IInv, Application
    <3>2. semaphore' = semaphore
      BY <3>1
    <3> QED
      BY <3>1, <3>2 DEF Woken
  <2> QED
    BY <2>1, <2>2, TickMoves
<1>2. /\ u \in Due <=> on[u] # "none" /\ left[u] = 1
      /\ left[u] \in Int /\ Placed(u)
  BY <1>1, TheTasks DEF Due, IInv, Kernel, None, Forever
<1>3. ASSUME Waited(u), pc[u] = "mutex", on[u] # "delay", u # "alert"
      PROVE  Waited(u)' /\ left[u] > 1
  <2>1. left[u] > 1
    BY <1>3, NoTimeout DEF Senders
  <2>2. Elapsed' = Elapsed + 1 /\ Elapsed \in Int
    BY <1>1, TheTasks DEF Elapsed, IInv, Application
  <2>3. left'[u] = left[u] - 1
    BY <1>1, <1>2, <2>1
  <2>4. left[u] + Elapsed >= MutexWait
    BY <1>3 DEF Waited
  <2>5. left'[u] + Elapsed' >= MutexWait
    BY <1>2, <2>2, <2>3, <2>4, TheTasks
  <2> QED
    BY <2>1, <2>5 DEF Waited
<1>4. CASE on[u] = "none"
  <2>1. on'[u] = "none" /\ left'[u] = IF left[u] > 0 THEN left[u] - 1 ELSE left[u]
    BY <1>1, <1>2, <1>4
  <2>2. Placed(u)'
    BY <1>1, <1>2, <1>3, <1>4, <2>1 DEF Placed, None, Forever, Senders
  <2>3. Work(u)' = Work(u)
    BY <1>1, <1>2, <1>4, <2>1 DEF Work, Placed, None, Forever
  <2> QED
    BY <1>4, <2>2, <2>3
<1>5. CASE on[u] = "delay"
  <2>1. u = "led" /\ left[u] \in {1, 2} /\ pc[u] \in {"take", "mutex"} /\ ~Woken(u)
    BY <1>2, <1>5 DEF Placed, Own, Senders
  <2>2. CASE left[u] = 1
    BY <1>1, <1>2, <1>5, <2>1, <2>2 DEF Placed, Work, After, None
  <2>3. CASE left[u] = 2
    BY <1>1, <1>2, <1>5, <2>1, <2>3 DEF Placed, Work, After, None
  <2> QED
    BY <2>1, <2>2, <2>3
<1>6. CASE on[u] = "space"
  <2>1. left[u] = 1 /\ pc[u] = "send" /\ ~Woken(u)
    BY <1>2, <1>6 DEF Placed, Own, Senders
  <2> QED
    BY <1>1, <1>2, <1>6, <2>1 DEF Placed, Work, After, None, Senders
<1>7. CASE on[u] = "mutex"
  <2>1. Waited(u) /\ pc[u] = "mutex" /\ u # "alert" /\ ~Woken(u)
    BY <1>2, <1>7 DEF Placed, Own, Senders
  <2>2. Waited(u)' /\ on'[u] = "mutex"
    BY <1>1, <1>2, <1>3, <1>7, <2>1
  <2> QED
    BY <1>1, <1>7, <2>1, <2>2 DEF Placed, Work, After
<1>8. CASE on[u] = Own(u)
  <2>1. left[u] = Forever /\ pc[u] = "take" /\ ~Woken(u)
    BY <1>2, <1>8 DEF Placed, Own, Senders
  <2>2. on'[u] = Own(u) /\ left'[u] = Forever
    BY <1>1, <1>2, <1>8, <2>1 DEF Forever, None
  <2> QED
    BY <1>1, <1>8, <2>1, <2>2 DEF Placed, Work, Own, Senders
<1> QED
  BY <1>2, <1>4, <1>5, <1>6, <1>7, <1>8 DEF Placed

(* A tick in which the timer does not expire is paid for by what there was     *)
(* left to do.                                                                 *)
LEMMA TickSpends ==
    ASSUME IInv, Unhurried, SysTick, ~Expires
    PROVE  InBudget'
<1>1. /\ Kernel /\ Application /\ Application' /\ (\A u \in Senders : Placed(u))
      /\ countdown' = countdown - 1
  BY TickMoves DEF IInv
<1>2. \A u \in Senders :
         /\ Work(u) \in Nat
         /\ Work(u)' = IF on[u] \in {"delay", "space"} THEN Work(u) - 1 ELSE Work(u)
         /\ on[u] \notin {"led", "temp", "notify"} <=> Work(u) > 0
  BY <1>1, WorkRange, TickWork
<1>3. \A u \in Senders :
         /\ Work(u)' \in Int /\ Work(u)' <= Work(u)
         /\ on[u] \in {"delay", "space"} => Work(u)' <= Work(u) - 1
         /\ Work(u) = 0 => Work(u)' = 0
  BY <1>2
<1>4. /\ AllWork \in Nat /\ AllWork' \in Int /\ AllWork' <= AllWork
      /\ AllWork = 0 => AllWork' = 0
      /\ \A u \in Senders : on[u] \in {"delay", "space"} => AllWork' <= AllWork - 1
  <2>1. /\ Work("led") \in Nat /\ Work("temp") \in Nat /\ Work("alert") \in Nat
        /\ Work("led")' \in Int /\ Work("temp")' \in Int /\ Work("alert")' \in Int
        /\ Work("led")' <= Work("led") /\ Work("temp")' <= Work("temp") /\ Work("alert")' <= Work("alert")
        /\ Work("led") = 0 => Work("led")' = 0
        /\ Work("temp") = 0 => Work("temp")' = 0
        /\ Work("alert") = 0 => Work("alert")' = 0
    BY <1>2, <1>3 DEF Senders
  <2>2. \A a, b, c, d, e, f \in Int : d <= a /\ e <= b /\ f <= c => d + e + f <= a + b + c
    OBVIOUS
  <2>3. AllWork \in Nat /\ AllWork' \in Int /\ (AllWork = 0 => AllWork' = 0)
    BY <2>1 DEF AllWork
  <2>4. AllWork' <= AllWork
    BY <2>1 DEF AllWork
  <2>5. ASSUME NEW u \in Senders, on[u] \in {"delay", "space"} PROVE AllWork' <= AllWork - 1
    <3>1. Work(u)' <= Work(u) - 1
      BY <1>3, <2>5
    <3>2. CASE u = "led"
      BY <2>1, <3>1, <3>2 DEF AllWork
    <3>3. CASE u = "temp"
      BY <2>1, <3>1, <3>3 DEF AllWork
    <3>4. CASE u = "alert"
      BY <2>1, <3>1, <3>4 DEF AllWork
    <3> QED
      BY <3>2, <3>3, <3>4 DEF Senders
  <2> QED
    BY <2>3, <2>4, <2>5
<1>5. Lag \in Int /\ Lag' \in Int /\ Lag' <= Lag
  BY <1>1, LagRange, LagRangeNext, LagFalls
<1>6. AllWork > 0 =>
         (\E u \in Senders : on[u] \in {"delay", "space"}) \/ (\E u \in Senders : on[u] = "none")
  <2> SUFFICES ASSUME AllWork > 0, \A u \in Senders : on[u] \notin {"delay", "space"}
               PROVE  \E u \in Senders : on[u] = "none"
    OBVIOUS
  <2>1. PICK u \in Senders : Work(u) > 0
    <3>1. ~(Work("led") = 0 /\ Work("temp") = 0 /\ Work("alert") = 0)
      BY DEF AllWork
    <3>2. PICK u \in Senders : Work(u) # 0
      BY <3>1 DEF Senders
    <3> QED
      BY <1>2, <3>2
  <2>2. on[u] \in {"none", "mutex"}
    <3>1. on[u] \notin {"led", "temp", "notify", "delay", "space"}
      BY <1>2, <2>1
    <3>2. on[u] # "record"
      BY <1>1 DEF Placed, Own, Senders
    <3> QED
      BY <1>1, <3>1, <3>2, TheTasks DEF Kernel, Resources, Senders
  <2>3. CASE on[u] = "mutex" /\ holder = Nobody
    BY <2>3 DEF IInv, Holding
  <2>4. CASE holder # Nobody
    <3>1. holder \in Senders
      BY <1>1, <2>4, TheTasks DEF IInv, Holding, Application, Senders
    <3>2. pc[holder] \in {"send", "give"}
      BY <3>1 DEF IInv, Holding
    <3>3. on[holder] \in {"none", "space"}
      BY <1>1, <3>1, <3>2 DEF Placed
    <3> QED
      BY <3>1, <3>3
  <2> QED
    BY <2>2, <2>3, <2>4
<1>7. AllWork > 0 => Lag' + AllWork' <= Lag + AllWork - 1
  <2>2. ASSUME NEW u \in Senders, on[u] \in {"delay", "space"}
        PROVE  Lag' + AllWork' <= Lag + AllWork - 1
    <3>1. AllWork' <= AllWork - 1
      BY <1>4, <2>2
    <3>2. \A a, b, c, d \in Int : a <= b /\ c <= d - 1 => a + c <= b + d - 1
      OBVIOUS
    <3>3. AllWork \in Int
      BY <1>4
    <3> QED
      BY <1>4, <1>5, <3>1, <3>2, <3>3, Zenon
  <2>3. ASSUME NEW u \in Senders, on[u] = "none"
        PROVE  Lag' + AllWork' <= Lag + AllWork - 1
    <3>1. Lag' <= Lag - 1
      BY <2>3, LagFalls
    <3>2. \A a, b, c, d \in Int : a <= b - 1 /\ c <= d => a + c <= b + d - 1
      OBVIOUS
    <3>3. AllWork \in Int
      BY <1>4
    <3> QED
      BY <1>4, <1>5, <3>1, <3>2, <3>3, Zenon
  <2> QED
    BY <1>6, <2>2, <2>3
<1>8. CASE AllWork = 0
  BY <1>4, <1>8 DEF InBudget
<1>9. CASE AllWork > 0
  <2>1. Elapsed \in Int /\ Elapsed' = Elapsed + 1
    BY <1>1, TheTasks DEF Elapsed, Application
  <2>2. Elapsed + Lag + AllWork <= Budget
    BY <1>9 DEF IInv, InBudget
  <2>3. Lag' + AllWork' <= Lag + AllWork - 1
    BY <1>7, <1>9
  <2>4. \A e, a, b, c, d \in Int : c + d <= a + b - 1 /\ e + a + b <= Budget => (e + 1) + c + d <= Budget
    BY DEF Budget
  <2>5. AllWork \in Int
    BY <1>4
  <2>6. (Elapsed + 1) + Lag' + AllWork' <= Budget
    BY <1>4, <1>5, <2>1, <2>2, <2>3, <2>4, <2>5, Zenon
  <2>7. Elapsed' + Lag' + AllWork' <= Budget
    BY <2>1, <2>6
  <2> QED
    BY <2>7 DEF InBudget
<1> QED
  BY <1>4, <1>8, <1>9

(* A tick without an expiry. *)
LEMMA TickKeeps ==
    ASSUME IInv, Unhurried, SysTick, ~Expires
    PROVE  IInv'
<1>1. /\ Kernel' /\ Application' /\ LogPlaced'
      /\ UNCHANGED <<pc, holder, my_queue, notified, data>>
      /\ \A t \in Tasks : on'[t] = "mutex" => on[t] = "mutex"
      /\ \A t \in Tasks : on[t] = "none" => on'[t] = "none"
  BY TickMoves
<1>2. \A u \in Senders : Placed(u)'
  BY TickWork
<1>3. Holding'
  <2>1. \A t \in Senders : on'[t] = "mutex" /\ holder' = Nobody =>
           \E u \in Senders : on'[u] = "none" /\ pc'[u] = "mutex"
    BY <1>1, TheTasks DEF IInv, Holding, Senders
  <2> QED
    BY <1>1, <2>1 DEF IInv, Holding
<1>4. Undisturbed'
  <2>1. semaphore'["temp"] = semaphore["temp"]
    <3>1. Given = {} /\ semaphore["temp"] \in BOOLEAN
      BY DEF Given, IInv, Application
    <3>2. semaphore'["temp"] = (semaphore["temp"] \/ "temp" \in {})
      BY <3>1, TickMoves
    <3> QED
      BY <3>1, <3>2
  <2> QED
    BY <1>1, <2>1, NoTickThen DEF Undisturbed
<1>5. InBudget'
  BY TickSpends
<1> QED
  BY <1>1, <1>2, <1>3, <1>4, <1>5 DEF IInv

(* When the timer expires, every sender is asleep.                             *)
LEMMA AllAsleep ==
    ASSUME IInv, Unhurried, Expires
    PROVE  \A u \in Senders : on[u] = Own(u) /\ pc[u] = "take" /\ left[u] = Forever /\ ~Woken(u)
<1>1. Kernel /\ Application /\ \A u \in Senders : Placed(u)
  BY DEF IInv
<1>2. Work("led") \in Nat /\ Work("temp") \in Nat /\ Work("alert") \in Nat /\ Lag \in Nat
  BY <1>1, WorkRange, LagRange DEF Senders
<1>3. Elapsed >= Budget /\ Elapsed \in Int
  BY TheTasks DEF Elapsed, Expires, Unhurried, Budget
<1>4. AllWork = 0
  <2>1. AllWork \in Nat
    BY <1>2 DEF AllWork
  <2>2. \A e, l, w \in Int : e >= Budget /\ l >= 0 /\ w >= 0 /\ e + l + w <= Budget => w = 0
    BY DEF Budget
  <2> QED
    BY <1>2, <1>3, <2>1, <2>2 DEF IInv, InBudget
<1>5. Work("led") = 0 /\ Work("temp") = 0 /\ Work("alert") = 0
  BY <1>2, <1>4 DEF AllWork
<1>6. ASSUME NEW u \in Senders PROVE on[u] = Own(u) /\ pc[u] = "take" /\ left[u] = Forever /\ ~Woken(u)
  <2>1. on[u] \in {"led", "temp", "notify"}
    BY <1>1, <1>5, WorkRange DEF Senders
  <2> QED
    BY <1>1, <2>1, TheTasks DEF Placed, Own
<1> QED
  BY <1>6

(* A tick with an expiry: the budget starts anew. *)
LEMMA ExpiryKeeps ==
    ASSUME IInv, Unhurried, SysTick, Expires
    PROVE  IInv'
<1>1. \A u \in Senders : on[u] = Own(u) /\ pc[u] = "take" /\ left[u] = Forever /\ ~Woken(u)
  BY AllAsleep
<1>2. /\ Kernel' /\ Application' /\ LogPlaced'
      /\ UNCHANGED <<pc, holder, my_queue, notified, data>>
      /\ used' = FALSE /\ countdown' = Period
      /\ semaphore' = [s \in {"led", "temp"} |-> semaphore[s] \/ s \in Given]
  BY TickMoves
<1>3. "led" \in Given /\ Given \subseteq {"led", "temp"}
  BY DEF Given
<1>4. \A u \in Senders : left'[u] = Forever /\ on'[u] = IF u \in Given THEN "none" ELSE Own(u)
  <2> TAKE u \in Senders
  <2>1. /\ u \in Tasks /\ on[u] = Own(u) /\ left[u] = -2 /\ u \notin Due
    BY <1>1, TheTasks DEF Due, Senders, Forever
  <2>2. on'[u] = IF u \in Given /\ on[u] = u THEN "none" ELSE on[u]
    BY <2>1, TickMoves
  <2>3. left'[u] = left[u]
    BY <2>1, TickMoves
  <2> QED
    BY <1>1, <1>3, <2>1, <2>2, <2>3 DEF Own
<1>5. \A s \in {"led", "temp"} : semaphore'[s] = (s \in Given)
  BY <1>1, <1>2 DEF Woken, Senders
<1>6. ~notified'
  BY <1>1, <1>2 DEF Woken, Senders
<1>7. \A u \in Senders : (Woken(u)' <=> u \in Given) /\ pc'[u] = "take"
  <2> TAKE u \in Senders
  <2>1. pc'[u] = "take"
    BY <1>1, <1>2
  <2>2. CASE u = "alert"
    BY <1>3, <1>6, <2>1, <2>2 DEF Woken
  <2>3. CASE u \in {"led", "temp"}
    BY <1>5, <2>1, <2>3 DEF Woken
  <2> QED
    BY <2>2, <2>3 DEF Senders
<1>8. \A u \in Senders : Placed(u)'
  BY <1>4, <1>7 DEF Placed
<1>9. holder = Nobody
  BY <1>1, TheTasks DEF IInv, Holding, Application, Senders
<1>10. Holding'
  BY <1>1, <1>2, <1>4, <1>6, <1>7, <1>9, TheTasks DEF Holding, Senders, Own
<1>11. Lag' = 0 /\ (Ahead(ready', "log", "temp") => Harmless')
  <2>1. Harmless' = Harmless
    BY <1>2 DEF Harmless
  <2>2. Current = "log" \/ Current = Idle
    <3>1. Listed(ready, on) /\ Current = Elected(ready, Base)
      BY DEF IInv, Kernel, Current
    <3>2. \A u \in Senders : on[u] # "none"
      BY <1>1 DEF Senders, Own
    <3> QED
      BY <3>1, <3>2, Running, TheTasks DEF Senders
  <2>3. CASE Current = Idle
    <3>1. Harmless
      BY <2>3, LagFalls
    <3> QED
      BY <1>2, <2>1, <3>1 DEF Lag
  <2>4. CASE Current = "log"
    <3>1. on'["led"] = "none" /\ "led" \in Tasks
      BY <1>3, <1>4, TheTasks DEF Senders
    <3>2. ~Ahead(ready', "log", "temp") /\ Current' # "log"
      BY <2>4, <3>1, TickMoves
    <3> QED
      BY <1>2, <3>2 DEF Lag
  <2> QED
    BY <2>2, <2>3, <2>4
<1>12. Undisturbed'
  <2>1. on'["alert"] = "notify" /\ semaphore'["led"]
    BY <1>3, <1>4, <1>5 DEF Senders, Own
  <2> QED
    BY <1>2, <1>9, <1>11, <2>1 DEF Undisturbed
<1>13. InBudget'
  <2>1. Work("led")' = 11 /\ Work("temp")' \in {0, 10} /\ Work("alert")' = 0
    <3>1. Work("led")' = 11
      <4>1. on'["led"] = "none" /\ pc'["led"] = "take" /\ Woken("led")'
        BY <1>3, <1>4, <1>7 DEF Senders
      <4> QED
        BY <4>1 DEF Work
    <3>2. Work("temp")' \in {0, 10}
      <4>1. /\ pc'["temp"] = "take"
            /\ \/ on'["temp"] = "none" /\ Woken("temp")'
               \/ on'["temp"] = "temp"
        BY <1>4, <1>7 DEF Senders, Own
      <4> QED
        BY <4>1 DEF Work
    <3>3. Work("alert")' = 0
      <4>1. pc'["alert"] = "take" /\ on'["alert"] = "notify"
        BY <1>3, <1>4, <1>7 DEF Senders, Own
      <4> QED
        BY <4>1 DEF Work
    <3> QED
      BY <3>1, <3>2, <3>3
  <2>2. AllWork' \in {11, 21}
    BY <2>1 DEF AllWork
  <2>3. Elapsed' = 0
    BY <1>2, TheTasks DEF Elapsed
  <2>4. \A e, l, w \in Int : e = 0 /\ l = 0 /\ w \in {11, 21} => e + l + w <= Budget
    BY DEF Budget
  <2>5. Elapsed' + Lag' + AllWork' <= Budget
    <3>1. Elapsed' \in Int /\ Lag' \in Int /\ AllWork' \in Int
      BY <1>11, <2>2, <2>3
    <3> QED
      BY <1>11, <2>2, <2>3, <2>4, <3>1, Zenon
  <2> QED
    BY <2>5 DEF InBudget
<1> QED
  BY <1>2, <1>8, <1>10, <1>12, <1>13 DEF IInv
-----------------------------------------------------------------------------
(* The application *)

(* At first the senders have only to go to sleep. *)
LEMMA InitIInv ==
    ASSUME Init
    PROVE  IInv
<1>1. /\ ready = <<"led", "temp", "log", "alert">> /\ prio = Base
      /\ on = [t \in Tasks |-> "none"] /\ left = [t \in Tasks |-> None]
      /\ pc = [t \in Tasks |-> IF t = "log" THEN "receive" ELSE "take"]
      /\ semaphore = [s \in {"led", "temp"} |-> FALSE]
      /\ holder = Nobody /\ my_queue = << >> /\ notified = FALSE /\ data \in BOOLEAN
      /\ countdown = Period /\ count = 0 /\ used = FALSE
      /\ "led" \in Tasks /\ "temp" \in Tasks /\ "log" \in Tasks /\ "alert" \in Tasks
  BY TheTasks DEF Init, KernelInit
<1>2. Kernel
  <2>1. ready \in Seq(Tasks) /\ DOMAIN ready = 1..4
    BY <1>1
  <2>2. /\ ready[1] = "led" /\ ready[2] = "temp" /\ ready[3] = "log" /\ ready[4] = "alert"
    BY <1>1
  <2>3. Distinct(ready)
    BY <2>1, <2>2 DEF Distinct
  <2>4. \A t \in Tasks : In(ready, t)
    <3>1. 1 \in DOMAIN ready /\ 2 \in DOMAIN ready /\ 3 \in DOMAIN ready /\ 4 \in DOMAIN ready
      BY <2>1
    <3> QED
      BY <2>2, <3>1, TheTasks DEF In
  <2>5. Listed(ready, on)
    BY <1>1, <2>1, <2>3, <2>4 DEF Listed
  <2> QED
    BY <1>1, <2>5 DEF Kernel, Resources
<1>3. Application
  <2>1. \A t \in Tasks : pc[t] \in Points[t]
    BY <1>1, TheTasks DEF Points
  <2>2. pc \in [Tasks -> UNION {Points[t] : t \in Tasks}]
    BY <1>1, <2>1
  <2>3. my_queue \in Seq(Tasks) /\ Len(my_queue) = 0
    BY <1>1
  <2>4. countdown \in 1..Period /\ count \in 0..(TempEvery - 1) /\ Len(my_queue) <= QueueLength
    BY <1>1, <2>3, TheTasks
  <2>5. semaphore \in [{"led", "temp"} -> BOOLEAN]
    BY <1>1
  <2> QED
    BY <1>1, <2>1, <2>2, <2>3, <2>4, <2>5 DEF Application
<1>4. \A t \in Senders : /\ pc[t] = "take" /\ on[t] = "none" /\ left[t] = None /\ ~Woken(t)
  BY <1>1 DEF Senders, Woken
<1>5. \A t \in Senders : Placed(t)
  BY <1>4 DEF Placed
<1>6. LogPlaced
  BY <1>1 DEF LogPlaced
<1>7. Holding
  BY <1>1, <1>4, TheTasks DEF Holding, Senders
<1>8. Undisturbed
  BY <1>1 DEF Undisturbed
<1>9. InBudget
  <2>1. Lag \in 0..2
    BY <1>3, LagRange
  <2>2. \A t \in Senders : Work(t) = 1
    BY <1>4 DEF Work
  <2>3. AllWork = 3
    BY <2>2 DEF AllWork, Senders
  <2>4. Elapsed = 0
    BY <1>1, TheTasks DEF Elapsed
  <2> QED
    BY <2>1, <2>3, <2>4 DEF InBudget, Budget
<1> QED
  BY <1>2, <1>3, <1>5, <1>6, <1>7, <1>8, <1>9 DEF IInv

(* No step leaves the invariant. *)
LEMMA NextKeeps ==
    ASSUME IInv, Unhurried, [Next]_vars
    PROVE  IInv'
<1>1. CASE led_thread
  <2>1. ASSUME Take("led", "flash") PROVE IInv'
    BY <2>1, TakeKeeps
  <2>2. ASSUME Delay("led", "flash", "mutex") PROVE IInv'
    BY <2>2, DelayKeeps
  <2>3. ASSUME Lock("led", MutexWait, "rest") PROVE IInv'
    BY <2>3, LockKeeps DEF Senders
  <2>4. ASSUME Send("led") PROVE IInv'
    BY <2>4, SendKeeps DEF Senders
  <2>5. ASSUME Give("led", "rest") PROVE IInv'
    BY <2>5, GiveKeeps DEF Senders
  <2>6. ASSUME Delay("led", "rest", "take") PROVE IInv'
    BY <2>6, DelayKeeps
  <2> QED
    BY <1>1, <2>1, <2>2, <2>3, <2>4, <2>5, <2>6 DEF led_thread
<1>2. CASE temperature_thread
  <2>1. ASSUME Take("temp", "start") PROVE IInv'
    BY <2>1, TakeKeeps
  <2>2. ASSUME my_temp_function PROVE IInv'
    BY <2>2, ReadingKeeps
  <2>3. ASSUME Notify PROVE IInv'
    BY <2>3, NotifyKeeps
  <2>4. ASSUME Lock("temp", MutexWait, "send") PROVE IInv'
    BY <2>4, LockKeeps DEF Senders
  <2>5. ASSUME Send("temp") PROVE IInv'
    BY <2>5, SendKeeps DEF Senders
  <2>6. ASSUME Give("temp", "take") PROVE IInv'
    BY <2>6, GiveKeeps DEF Senders
  <2> QED
    BY <1>2, <2>1, <2>2, <2>3, <2>4, <2>5, <2>6 DEF temperature_thread
<1>3. CASE alert_thread
  <2>1. ASSUME NotifyTake PROVE IInv'
    BY <2>1, NotifyTakeKeeps
  <2>2. ASSUME Lock("alert", Forever, "send") PROVE IInv'
    BY <2>2, LockKeeps DEF Senders
  <2>3. ASSUME Send("alert") PROVE IInv'
    BY <2>3, SendKeeps DEF Senders
  <2>4. ASSUME Give("alert", "take") PROVE IInv'
    BY <2>4, GiveKeeps DEF Senders
  <2> QED
    BY <1>3, <2>1, <2>2, <2>3, <2>4 DEF alert_thread
<1>4. CASE logger_thread
  BY <1>4, ReceiveKeeps, PrintKeeps DEF logger_thread
<1>5. CASE SysTick
  BY <1>5, TickKeeps, ExpiryKeeps
<1>6. CASE UNCHANGED vars
  <2>1. /\ UNCHANGED <<ready, prio, on, left, pc, semaphore, holder, my_queue, notified, data>>
        /\ UNCHANGED <<countdown, count, used>>
    BY <1>6 DEF vars, kernelVars, appVars
  <2>2. Kernel' /\ Application'
    BY <2>1 DEF IInv, Kernel, Application
  <2>3. \A u \in Senders : Placed(u)' /\ Work(u)' = Work(u)
    BY <2>1 DEF IInv, Placed, Work, Woken, Waited, Elapsed
  <2>4. LogPlaced' /\ Holding' /\ Undisturbed'
    BY <2>1 DEF IInv, LogPlaced, Holding, Undisturbed, Harmless
  <2>5. Lag' = Lag
    BY <2>1 DEF Lag, Current, Harmless
  <2>6. InBudget'
    BY <2>1, <2>3, <2>5 DEF IInv, InBudget, AllWork, Elapsed, Senders
  <2> QED
    BY <2>2, <2>3, <2>4, <2>6 DEF IInv
<1> QED
  BY <1>1, <1>2, <1>3, <1>4, <1>5, <1>6 DEF Next, Step
-----------------------------------------------------------------------------
(* The results.  main.c creates the timer with 100 ticks and mythread.c waits  *)
(* 20 of them for the mutex: the application is Unhurried.                     *)

(* The budget holds at every tick: whatever the timer has woken is asleep      *)
(* again within Budget ticks, however long the logger task prints.             *)
THEOREM Invariant == ASSUME Unhurried PROVE Spec => []IInv
<1>1. IInv /\ [Next]_vars => IInv'
  BY NextKeeps
<1>2. Init => IInv
  BY InitIInv
<1> QED
  BY <1>1, <1>2, PTL DEF Spec

(* The ready list holds the tasks that are blocked on nothing, each once, and  *)
(* every timeout, record and count keeps its range.                            *)
THEOREM TypeCorrect == ASSUME Unhurried PROVE Spec => []TypeOK
<1>1. IInv => TypeOK
  <2> SUFFICES ASSUME IInv PROVE TypeOK
    OBVIOUS
  <2>1. Kernel /\ Application
    BY DEF IInv
  <2>2. prio \in [Tasks -> {1, 2}]
    BY <2>1, TheTasks DEF Kernel
  <2>3. /\ ready \in Seq(Tasks)
        /\ \A i, j \in DOMAIN ready : i # j => ready[i] # ready[j]
        /\ \A t \in Tasks : (\E i \in DOMAIN ready : ready[i] = t) <=> on[t] = "none"
    BY <2>1 DEF Kernel, Listed, Distinct, In
  <2> QED
    BY <2>1, <2>2, <2>3 DEF TypeOK, Kernel, Application
<1> QED
  BY <1>1, Invariant, PTL

(* Who sends a record and gives sync_mutex back holds it, although the         *)
(* temperature task does not look at what its take returned (mythread.c).      *)
THEOREM SendersHoldTheMutex == ASSUME Unhurried PROVE Spec => []GivenByHolder
<1>1. IInv => GivenByHolder
  BY TheTasks DEF IInv, Holding, GivenByHolder, Senders
<1> QED
  BY <1>1, Invariant, PTL

(* The record of an alert comes before the record of its temperature.          *)
THEOREM AlertsGoFirst == ASSUME Unhurried PROVE Spec => []AlertFirst
<1>1. IInv => AlertFirst
  <2> SUFFICES ASSUME IInv, pc["temp"] \in {"send", "give"}
               PROVE  pc["alert"] = "take" /\ ~notified
    BY DEF AlertFirst
  <2>1. holder = "temp" /\ holder # Nobody
    BY TheTasks DEF IInv, Holding, Senders
  <2>2. pc["alert"] \notin {"mutex", "send", "give"} /\ ~notified
    BY <2>1 DEF IInv, Holding, Senders
  <2> QED
    BY <2>2, Standing DEF IInv
<1> QED
  BY <1>1, Invariant, PTL

(* The alert task finds the mutex free, so no priority is ever inherited.      *)
THEOREM AlertsGoAhead == ASSUME Unhurried PROVE Spec => []AlertUnhindered
<1>1. IInv => AlertUnhindered
  <2> SUFFICES ASSUME IInv PROVE on["alert"] # "mutex" /\ prio = Base
    BY DEF AlertUnhindered
  <2>1. Placed("alert")
    BY DEF IInv, Senders
  <2>2. on["alert"] # "mutex"
    BY <2>1 DEF Placed, Own
  <2> QED
    BY <2>2 DEF IInv, Kernel
<1> QED
  BY <1>1, Invariant, PTL

(* Each expiry finds the three senders blocked on what wakes them, with every  *)
(* earlier wakeup used up.                                                     *)
THEOREM ExpiriesFindAllAsleep ==
    ASSUME Unhurried
    PROVE  Spec => [](Expires => \A u \in Senders : on[u] = Own(u) /\ ~Woken(u))
<1>1. IInv => (Expires => \A u \in Senders : on[u] = Own(u) /\ ~Woken(u))
  BY AllAsleep
<1> QED
  BY <1>1, Invariant, PTL

(* The timer gives no semaphore that is still given from before.               *)
THEOREM GivesAreTaken == ASSUME Unhurried PROVE Spec => NoGiveLost
<1> DEFINE Taken == \A s \in {"led", "temp"} :
                       countdown = 1 /\ countdown' = Period => ~(semaphore[s] /\ s \in Given)
<1>1. IInv => Taken
  <2> SUFFICES ASSUME IInv, countdown = 1, NEW s \in {"led", "temp"} PROVE ~semaphore[s]
    OBVIOUS
  <2>1. ~Woken(s)
    BY AllAsleep DEF Expires, Senders
  <2> QED
    BY <2>1 DEF Woken
<1>2. IInv /\ [Next]_vars => [Taken]_vars
  BY <1>1
<1> QED
  BY <1>2, Invariant, PTL DEF Spec, NoGiveLost

(* No tick interrupt falls into the temperature task's exchanges with the I2C  *)
(* master, whose wait for its busy flag could otherwise last for ever          *)
(* (main.c:128).                                                               *)
THEOREM ExchangesAreUncut == ASSUME Unhurried PROVE Spec => ExchangeUncut
<1>1. IInv /\ [Next]_vars => [pc["temp"] = "start" => UNCHANGED <<countdown, count>>]_vars
  <2> SUFFICES ASSUME IInv, [Next]_vars, pc["temp"] = "start"
               PROVE  UNCHANGED <<countdown, count>>
    OBVIOUS
  <2>1. ~SysTick
    BY NoTickThen
  <2>2. CASE Step
    BY <2>2 DEF Step, led_thread, temperature_thread, alert_thread, logger_thread, Take, Delay,
                Lock, Send, Give, my_temp_function, Notify, NotifyTake, Receive, Print_ends, appVars
  <2>3. CASE UNCHANGED vars
    BY <2>3 DEF vars, appVars
  <2> QED
    BY <2>1, <2>2, <2>3 DEF Next
<1> QED
  BY <1>1, Invariant, PTL DEF Spec, ExchangeUncut

(* No wait of the LED or the temperature task for sync_mutex times out: the    *)
(* take that temperature_thread does not look at has succeeded.                *)
THEOREM TakesSucceed ==
    ASSUME Unhurried
    PROVE  Spec => [](\A t \in Senders : At(t, "mutex") /\ holder # Nobody => left[t] # 0)
<1>1. IInv => \A t \in Senders : At(t, "mutex") /\ holder # Nobody => left[t] # 0
  <2> SUFFICES ASSUME IInv, NEW t \in Senders, At(t, "mutex"), holder # Nobody PROVE left[t] # 0
    OBVIOUS
  <2>1. Current = t /\ pc[t] = "mutex" /\ t \in Tasks
    BY TheTasks DEF At, Senders
  <2>2. on[t] = "none" /\ Placed(t)
    BY <2>1, RunsAlone
  <2>3. t \in {"led", "temp"}
    BY <2>1 DEF IInv, Holding, Senders
  <2>4. left[t] = None \/ Waited(t)
    BY <2>1, <2>2 DEF Placed
  <2>5. left[t] = None \/ left[t] > 1
    BY <2>1, <2>2, <2>3, <2>4, NoTimeout
  <2> QED
    BY <2>5 DEF None
<1> QED
  BY <1>1, Invariant, PTL
=============================================================================
