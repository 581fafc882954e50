----------------------------- MODULE LogChannel -----------------------------
(***************************************************************************)
(* What the log of the sensor monitor promises, without its threads: the   *)
(* records of one sensor reach the log file once each and in the order in  *)
(* which they were handed over, and at most Capacity of them wait.  The    *)
(* writer takes one record at a time and lets go of it by writing it; only *)
(* the death of the process takes it out of its hand, and that one alone.  *)
(***************************************************************************)
EXTENDS Naturals, Sequences

CONSTANTS Sensors, Levels, Capacity

VARIABLES
    life,       \* toggled whenever the process dies and another takes over
    waiting,    \* per sensor, the records handed over and not yet taken
    hand,       \* the record the writer has taken, <<sensor, level>>, or <<>>
    journal     \* per sensor, the records in the file

vars == <<life, waiting, hand, journal>>

Init ==
    /\ life = TRUE
    /\ waiting = [s \in Sensors |-> <<>>]
    /\ hand = <<>>
    /\ journal = [s \in Sensors |-> <<>>]

Put(s, m) ==
    /\ Len(waiting[s]) < Capacity
    /\ waiting' = [waiting EXCEPT ![s] = Append(@, m)]
    /\ UNCHANGED <<life, hand, journal>>

Take(s) ==
    /\ hand = <<>>
    /\ waiting[s] # <<>>
    /\ hand' = <<s, Head(waiting[s])>>
    /\ waiting' = [waiting EXCEPT ![s] = Tail(@)]
    /\ UNCHANGED <<life, journal>>

Record ==
    /\ hand # <<>>
    /\ journal' = [journal EXCEPT ![hand[1]] = Append(@, hand[2])]
    /\ hand' = <<>>
    /\ UNCHANGED <<life, waiting>>

Die ==
    /\ life' = ~life
    /\ hand' = <<>>
    /\ UNCHANGED <<waiting, journal>>

Next ==
    \/ \E s \in Sensors : Take(s) \/ \E m \in Levels : Put(s, m)
    \/ Record
    \/ Die

Spec == Init /\ [][Next]_vars
=============================================================================
