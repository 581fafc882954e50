------------------------- MODULE SocketServerProofs -------------------------
(***************************************************************************)
(* For any number of handlers, clients and descriptors, and for every word *)
(* and channel pair the sensors may hold: what the socket server answers,  *)
(* to whom, and that no command is dropped.                                *)
(***************************************************************************)
EXTENDS SocketServer, FiniteSetTheorems, TLAPS

-----------------------------------------------------------------------------
(* The arithmetic of the replies, for every word and every pair of channels *)

LEMMA CelsiusRight ==
    ASSUME NEW w \in Words
    PROVE  Read_Temperature(w, 1) = InUnit(w, "C") <=> w < 2048
<1>1. InUnit(w, "C") = Measured(w)
  BY SMT DEF InUnit
<1> QED BY <1>1, SMT DEF Words, Read_Temperature, Final_temperature, Minus_Correction, Measured

(* The command for Kelvin is answered in Fahrenheit. *)
LEMMA KelvinWrong ==
    ASSUME NEW w \in Words
    PROVE  Read_Temperature(w, 2) # InUnit(w, "K")
<1>1. InUnit(w, "K") = Measured(w) + 21880
  BY SMT DEF InUnit, Kelvin
<1>2. Read_Temperature(w, 2)
        = IF Final_temperature(w) = 0 THEN 80 ELSE (Final_temperature(w) * 9) \div 5 + 2560
  BY SMT DEF Read_Temperature, Temp_Conversion, Fahrenheit, Degrees
<1>3. CASE w < 2048
  <2>1. Final_temperature(w) = 5 * w /\ Measured(w) = 5 * w
    BY <1>3, SMT DEF Words, Final_temperature, Minus_Correction, Measured
  <2>2. ((5 * w) * 9) \div 5 = 9 * w
    BY SMT DEF Words
  <2> QED BY <1>1, <1>2, <1>3, <2>1, <2>2, SMT DEF Words
<1>4. CASE w >= 2048
  <2>1. Final_temperature(w) = 5 * (w + 61440) /\ Measured(w) = 5 * (w - 4096)
    BY <1>4, SMT DEF Words, Final_temperature, Minus_Correction, Measured
  <2>2. ((5 * (w + 61440)) * 9) \div 5 = 9 * (w + 61440)
    BY SMT DEF Words
  <2> QED BY <1>1, <1>2, <1>4, <2>1, <2>2, SMT DEF Words
<1> QED BY <1>3, <1>4, SMT DEF Words

(* ... and the one for Fahrenheit in Kelvin. *)
LEMMA FahrenheitWrong ==
    ASSUME NEW w \in Words
    PROVE  Read_Temperature(w, 3) # InUnit(w, "F")
<1>1. InUnit(w, "F") = (Measured(w) * 9) \div 5 + 2560
  BY SMT DEF InUnit, Fahrenheit, Degrees
<1>2. Read_Temperature(w, 3)
        = IF Final_temperature(w) = 0 THEN 80 ELSE Final_temperature(w) + 21880
  BY SMT DEF Read_Temperature, Temp_Conversion, Kelvin, Degrees
<1>3. CASE w < 2048
  <2>1. Final_temperature(w) = 5 * w /\ Measured(w) = 5 * w
    BY <1>3, SMT DEF Words, Final_temperature, Minus_Correction, Measured
  <2>2. ((5 * w) * 9) \div 5 = 9 * w
    BY SMT DEF Words
  <2>3. InUnit(w, "F") = 9 * w + 2560
    BY <1>1, <2>1, <2>2
  <2>4. Read_Temperature(w, 3) = IF 5 * w = 0 THEN 80 ELSE 5 * w + 21880
    BY <1>2, <2>1
  <2>5. 9 * w + 2560 # 80 /\ 9 * w + 2560 # 5 * w + 21880
    BY <1>3, SMT DEF Words
  <2> QED BY <2>3, <2>4, <2>5
<1>4. CASE w >= 2048
  <2>1. Final_temperature(w) = 5 * (w + 61440) /\ Measured(w) = 5 * (w - 4096)
    BY <1>4, SMT DEF Words, Final_temperature, Minus_Correction, Measured
  <2>2. ((5 * (w - 4096)) * 9) \div 5 = 9 * (w - 4096)
    BY SMT DEF Words
  <2>3. InUnit(w, "F") = 9 * (w - 4096) + 2560
    BY <1>1, <2>1, <2>2
  <2>4. Read_Temperature(w, 3) = 5 * (w + 61440) + 21880
    BY <1>2, <1>4, <2>1, SMT DEF Words
  <2>5. 9 * (w - 4096) + 2560 # 5 * (w + 61440) + 21880
    BY <1>4, SMT DEF Words
  <2> QED BY <2>3, <2>4, <2>5
<1> QED BY <1>3, <1>4, SMT DEF Words

(* For every word the sensor may hold, the reply to TEMPK is not the           *)
(* temperature in Kelvin nor the one to TEMPF that in Fahrenheit: units 2 and  *)
(* 3 of temperature.h:72-75 are swapped in Temp_Conversion.                    *)
THEOREM UnitsSwapped ==
    \A w \in Words :
        Read_Temperature(w, 2) # InUnit(w, "K") /\ Read_Temperature(w, 3) # InUnit(w, "F")
BY KelvinWrong, FahrenheitWrong

(* Of all pairs of channels exactly those with a ratio between 0.80 and 1.30   *)
(* get the lux formula of the interval written in front of it (light.c:261-280):*)
(* C compares truth values in 0 < ADC < 0.50.                                  *)
THEOREM LuxRightWhere ==
    \A data0 \in Nat \ {0}, data1 \in Nat :
        Lux_branch(data0, data1) = Lux_interval(data0, data1)
            <=> Above(data0, data1, 80) /\ 100 * data1 < 130 * data0
BY SMT DEF Lux_branch, Lux_interval, Above

(* The state logged with a temperature (temperature.c:139, 238-250) is "hot"   *)
(* above the threshold, and below zero as well: the sign of the sensor's word  *)
(* is lost.                                                                    *)
THEOREM FrostIsHot ==
    \A w \in Words :
        temp_state(Read_Temperature(w, 1), 1) = "hot"
            <=> Measured(w) > CELSIUS_THRESHOLD \/ Measured(w) < 0
<1> TAKE w \in Words
<1>1. Threshold(1) = 2000 /\ CELSIUS_THRESHOLD = 2000
  BY SMT DEF Threshold, CELSIUS_THRESHOLD, Degrees
<1>2. temp_state(Read_Temperature(w, 1), 1) = "hot" <=> Read_Temperature(w, 1) > 2000
  BY <1>1, SMT DEF temp_state
<1>3. Read_Temperature(w, 1) > 2000 <=> Measured(w) > 2000 \/ Measured(w) < 0
  BY SMT DEF Words, Read_Temperature, Final_temperature, Minus_Correction, Measured
<1> QED BY <1>1, <1>2, <1>3
-----------------------------------------------------------------------------
(* The type invariant and the descriptors *)

(* The descriptor accept has set aside is in use already, and not yet a        *)
(* connection's.                                                               *)
Aside == IF srv = "accepting" THEN 1 ELSE 0
Costs == fds >= Cardinality(open) + Aside
Serving == srv \in {"reading", "dispatch", "asking"} => conn \in open

Accounts == Costs /\ Serving

LEMMA ServerKnown == Server \in Threads /\ Handlers \subseteq Threads /\ Server \notin Handlers
BY ServerAssumption DEF ServerAssumption, Threads, Handlers

(* The caller's side of the bus keeps its types, frees no descriptor, and      *)
(* moves one caller only.                                                      *)
LEMMA CallTyped ==
    ASSUME CallTypeOK, NEW t \in Threads, Work(t) \/ \E s \in Sensors : Begin(t, s)
    PROVE  /\ CallTypeOK'
           /\ fds' >= fds
           /\ \A u \in Threads : u # t => phase'[u] = phase[u] /\ ret'[u] = ret[u]
<1> USE CallsAssumption DEF CallsAssumption, CallTypeOK
<1>1. ASSUME NEW p \in Phases, MoveTo(t, p)
      PROVE  phase' \in [Threads -> Phases] /\ \A u \in Threads : u # t => phase'[u] = phase[u]
  BY <1>1, SMT DEF MoveTo
<1>2. ASSUME NEW r \in Statuses, Returns(t, r)
      PROVE  ret' \in [Threads -> Statuses] /\ \A u \in Threads : u # t => ret'[u] = ret[u]
  BY <1>2, SMT DEF Returns
<1> USE DEF Phases, Statuses
<1>3. CASE \E s \in Sensors : Begin(t, s)
  <2>1. PICK s \in Sensors : Begin(t, s)
    BY <1>3
  <2>2. /\ phase' \in [Threads -> Phases] /\ ret' \in [Threads -> Statuses]
        /\ \A u \in Threads : u # t => phase'[u] = phase[u] /\ ret'[u] = ret[u]
    BY <2>1, <1>1, <1>2, Zenon DEF Begin
  <2>3. call' \in [Threads -> Sensors] /\ lock' = lock /\ fds' = fds
    BY <2>1, SMT DEF Begin
  <2>4. fds' >= fds
    BY <2>3, SMT
  <2> QED BY <2>2, <2>3, <2>4
<1>4. CASE Enter(t)
  BY <1>4, <1>1, SMT DEF Enter
<1>5. CASE Bind(t)
  <2>1. fds' \in 0..MaxFds /\ fds' >= fds /\ lock' = lock /\ call' = call
    BY <1>5, SMT DEF Bind
  <2>2. \/ MoveTo(t, "leaving") /\ Returns(t, "EXIT_FAILURE")
        \/ MoveTo(t, "talking") /\ ret' = ret
    BY <1>5, Zenon DEF Bind
  <2>3. /\ phase' \in [Threads -> Phases] /\ ret' \in [Threads -> Statuses]
        /\ \A u \in Threads : u # t => phase'[u] = phase[u] /\ ret'[u] = ret[u]
    BY <2>2, <1>1, <1>2, Zenon
  <2> QED BY <2>1, <2>3
<1>6. CASE Conclude(t)
  BY <1>6, <1>1, <1>2, SMT DEF Conclude
<1>7. CASE Leave(t)
  BY <1>7, <1>1, SMT DEF Leave
<1> QED BY <1>3, <1>4, <1>5, <1>6, <1>7 DEF Work

(* What a step of a handler leaves to the server. *)
LEMMA HandlerApart ==
    ASSUME TypeOK, NEW t \in Handlers, Handler_starts(t) \/ Handler_works(t)
    PROVE  /\ CallTypeOK'
           /\ fds' >= fds /\ phase'[Server] = phase[Server] /\ ret'[Server] = ret[Server]
           /\ UNCHANGED <<serverVars, clientVars>>
<1>1. t \in Threads /\ Server # t /\ Server \in Threads
  BY ServerKnown
<1>2. Work(t) \/ \E s \in Sensors : Begin(t, s)
  BY DEF Handler_starts, Handler_works
<1>3. UNCHANGED <<serverVars, clientVars>>
  BY DEF Handler_starts, Handler_works
<1> QED BY <1>1, <1>2, <1>3, CallTyped DEF TypeOK

(* Counting: one element more, one less, or a part. *)
LEMMA Counting ==
    ASSUME NEW S, IsFiniteSet(S)
    PROVE  /\ Cardinality(S) \in Nat
           /\ \A x : Cardinality(S \cup {x}) <= Cardinality(S) + 1
           /\ \A x \in S : Cardinality(S \ {x}) = Cardinality(S) - 1
           /\ \A T \in SUBSET S : IsFiniteSet(T) /\ Cardinality(T) <= Cardinality(S)
<1>1. Cardinality(S) \in Nat
  BY FS_CardinalityType
<1>2. \A x : Cardinality(S \cup {x}) <= Cardinality(S) + 1
  <2> TAKE x
  <2>1. Cardinality(S \cup {x}) = IF x \in S THEN Cardinality(S) ELSE Cardinality(S) + 1
    BY FS_AddElement
  <2> QED BY <1>1, <2>1, SMT
<1>3. \A x \in S : Cardinality(S \ {x}) = Cardinality(S) - 1
  BY FS_RemoveElement
<1>4. \A T \in SUBSET S : IsFiniteSet(T) /\ Cardinality(T) <= Cardinality(S)
  BY FS_Subset
<1> QED BY <1>1, <1>2, <1>3, <1>4

LEMMA FiniteParts ==
    ASSUME TypeOK
    PROVE  IsFiniteSet(open) /\ Cardinality(open) \in Nat /\ fds \in Nat
<1>1. IsFiniteSet(Clients) /\ open \in SUBSET Clients
  BY ServerAssumption DEF ServerAssumption, TypeOK
<1>2. IsFiniteSet(open)
  BY <1>1, FS_Subset
<1>3. fds \in Nat
  <2>1. fds \in 0..MaxFds /\ MaxFds \in Nat
    BY CallsAssumption DEF CallsAssumption, TypeOK, CallTypeOK
  <2> QED BY <2>1, SMT
<1> QED BY <1>2, <1>3, FS_CardinalityType

LEMMA FinitePartsAfter ==
    ASSUME TypeOK'
    PROVE  Cardinality(open') \in Nat /\ fds' \in Nat
<1>1. IsFiniteSet(Clients) /\ open' \in SUBSET Clients
  BY ServerAssumption DEF ServerAssumption, TypeOK
<1>2. IsFiniteSet(open')
  BY <1>1, FS_Subset
<1>3. fds' \in Nat
  <2>1. fds' \in 0..MaxFds /\ MaxFds \in Nat
    BY CallsAssumption DEF CallsAssumption, TypeOK, CallTypeOK
  <2> QED BY <2>1, SMT
<1> QED BY <1>2, <1>3, FS_CardinalityType

(* A served connection is in use: it can be given back. *)
LEMMA OneServed ==
    ASSUME TypeOK, Accounts, srv = "reading"
    PROVE  conn \in open /\ fds >= 1
<1>1. conn \in open
  BY DEF Accounts, Serving
<1>2. IsFiniteSet(open) /\ Cardinality(open \ {conn}) = Cardinality(open) - 1
  BY <1>1, FiniteParts, Counting
<1>3. IsFiniteSet(open \ {conn})
  BY <1>2, Counting
<1>4. Cardinality(open \ {conn}) \in Nat
  BY <1>3, FS_CardinalityType
<1>5. Aside \in Nat
  BY SMT DEF Aside
<1> QED BY <1>1, <1>2, <1>4, <1>5, FiniteParts, SMT DEF Accounts, Costs

(* A function changed at one place. *)
LEMMA ExceptTyped ==
    ASSUME NEW S, NEW T, NEW f \in [S -> T], NEW x, NEW v \in T
    PROVE  [f EXCEPT ![x] = v] \in [S -> T]
OBVIOUS

LEMMA ExceptElsewhere ==
    ASSUME NEW S, NEW T, NEW f \in [S -> T], NEW x, NEW v, NEW y \in S
    PROVE  [f EXCEPT ![x] = v][y] = IF y = x THEN v ELSE f[y]
OBVIOUS

(* The words of the protocol. *)
LEMMA CommandFacts ==
    /\ Commands \in SUBSET [1..5 -> Letters]
    /\ \A w \in Commands : Len(w) = 5
    /\ \A w \in Commands : Label(w) \in {"C", "K", "F", "L"}
    /\ \A w \in Commands : Sensor(w) = "Temper" <=> w # LIGHT
    /\ Unit(TEMP("C")) = 1 /\ Unit(TEMP("K")) = 2 /\ Unit(TEMP("F")) = 3
    /\ Label(LIGHT) = "L" /\ \A l \in {"C", "K", "F"} : Label(TEMP(l)) = l /\ TEMP(l) # LIGHT
<1>1. /\ \A l \in {"C", "K", "F"} : TEMP(l) \in [1..5 -> Letters] /\ Len(TEMP(l)) = 5
      /\ LIGHT \in [1..5 -> Letters] /\ Len(LIGHT) = 5
  BY SMT DEF TEMP, LIGHT, Letters
<1>2. \A l \in {"C", "K", "F"} : TEMP(l)[5] = l /\ TEMP(l) # LIGHT
  <2>1. \A l : TEMP(l)[1] = "T" /\ TEMP(l)[5] = l
    BY SMT DEF TEMP
  <2>2. LIGHT[1] = "L"
    BY SMT DEF LIGHT
  <2> QED BY <2>1, <2>2
<1>3. TEMP("C") # TEMP("K") /\ TEMP("C") # TEMP("F") /\ TEMP("K") # TEMP("F")
  BY <1>2
<1>4. Unit(TEMP("C")) = 1 /\ Unit(TEMP("K")) = 2 /\ Unit(TEMP("F")) = 3
  BY <1>3, Zenon DEF Unit
<1>5. Label(LIGHT) = "L" /\ \A l \in {"C", "K", "F"} : Label(TEMP(l)) = l
  BY <1>2 DEF Label
<1> QED BY <1>1, <1>2, <1>4, <1>5 DEF Commands, Sensor

LEMMA TypedFacts ==
    /\ << >> \notin Typed
    /\ \A w \in Typed : w \in Seq(Letters) /\ Len(w) \in Nat
<1>1. \A w \in Commands : w \in Seq(Letters) /\ w # << >>
  <2>1. \A l \in {"C", "K", "F"} : TEMP(l) \in Seq(Letters) /\ TEMP(l) # << >>
    BY SMT DEF TEMP, Letters
  <2>2. LIGHT \in Seq(Letters) /\ LIGHT # << >>
    BY SMT DEF LIGHT, Letters
  <2> QED BY <2>1, <2>2 DEF Commands
<1> QED BY <1>1, ServerAssumption DEF Typed, ServerAssumption

(* What a word leaves in the buffer. *)
Overlay(w) == [i \in 1..5 |-> IF i <= Len(w) THEN w[i] ELSE buffer[i]]

LEMMA OverlayTyped ==
    ASSUME NEW w \in Typed, buffer \in [1..5 -> Letters]
    PROVE  Overlay(w) \in [1..5 -> Letters]
<1>1. w \in Seq(Letters) /\ Len(w) \in Nat
  BY TypedFacts
<1>2. ASSUME NEW i \in 1..5 PROVE (IF i <= Len(w) THEN w[i] ELSE buffer[i]) \in Letters
  BY <1>1
<1> QED BY <1>2 DEF Overlay

(* What Send_data leaves: a reading of the command in the buffer, and where it *)
(* came from.                                                                  *)
FromSensor(c, w) ==
    /\ reply[c].label = Label(w)
    /\ IF w = LIGHT
       THEN source[c] \in Channels /\ reply[c].value = Lux_branch(source[c][1], source[c][2])
       ELSE \E s \in Samples :
               source[c] = <<s>> /\ reply[c].value = Read_Temperature(s, Unit(w))

LEMMA FillTyped ==
    ASSUME TypeOK, NEW c \in Clients, conn = c, Fill_reply
    PROVE  /\ reply' \in [Clients -> Replies] /\ source' \in [Clients -> Sources]
           /\ \A d \in Clients : d # c => reply'[d] = reply[d] /\ source'[d] = source[d]
           /\ \E w \in Spelled : FromSensor(c, w)'
<1>1. PICK w \in Spelled :
          \/ \E s \in Samples :
                /\ reply' = [reply EXCEPT ![c] = Data(Label(w), Read_Temperature(s, Unit(w)))]
                /\ source' = [source EXCEPT ![c] = <<s>>]
                /\ Sensor(w) = "Temper"
          \/ \E ch \in Channels :
                /\ reply' = [reply EXCEPT ![c] = Data(Label(w), Lux_branch(ch[1], ch[2]))]
                /\ source' = [source EXCEPT ![c] = ch]
                /\ Sensor(w) # "Temper"
  BY Zenon DEF Fill_reply
<1>2. /\ Label(w) \in {"C", "K", "F", "L"} /\ (Sensor(w) = "Temper" => Unit(w) \in 1..3)
      /\ Sensor(w) = "Temper" <=> w # LIGHT
  BY CommandFacts DEF Spelled, Commands
<1>3. ASSUME NEW s \in Samples, NEW u \in 1..3 PROVE Read_Temperature(s, u) \in Int
  BY ServerAssumption, SMT DEF ServerAssumption, Words, Read_Temperature, Final_temperature,
     Minus_Correction, Temp_Conversion, Fahrenheit, Kelvin, Degrees
<1>4. \A x, y : Lux_branch(x, y) \in Int
  BY SMT DEF Lux_branch
<1>5. reply \in [Clients -> Replies] /\ source \in [Clients -> Sources]
  BY Zenon DEF TypeOK
<1>6. ASSUME NEW v \in Int PROVE Data(Label(w), v) \in Replies
  BY <1>2, SMT DEF Data, Replies
<1>7. ASSUME NEW v \in Int, NEW x \in Sources,
             reply' = [reply EXCEPT ![c] = Data(Label(w), v)], source' = [source EXCEPT ![c] = x]
      PROVE  /\ reply' \in [Clients -> Replies] /\ source' \in [Clients -> Sources]
             /\ \A d \in Clients : d # c => reply'[d] = reply[d] /\ source'[d] = source[d]
             /\ reply'[c].label = Label(w) /\ reply'[c].value = v /\ source'[c] = x
  <2>1. reply' \in [Clients -> Replies] /\ source' \in [Clients -> Sources]
    BY <1>5, <1>6, <1>7, ExceptTyped
  <2>2. ASSUME NEW d \in Clients, d # c PROVE reply'[d] = reply[d] /\ source'[d] = source[d]
    BY <1>5, <1>7, <2>2, ExceptElsewhere
  <2>3. reply'[c] = Data(Label(w), v) /\ source'[c] = x
    BY <1>5, <1>7, ExceptElsewhere
  <2>4. reply'[c].label = Label(w) /\ reply'[c].value = v
    BY <2>3 DEF Data
  <2> QED BY <2>1, <2>2, <2>3, <2>4
<1>8. CASE w # LIGHT
  <2>1. PICK s \in Samples :
           /\ reply' = [reply EXCEPT ![c] = Data(Label(w), Read_Temperature(s, Unit(w)))]
           /\ source' = [source EXCEPT ![c] = <<s>>]
    BY <1>1, <1>2, <1>8, Zenon
  <2>2. <<s>> \in Sources /\ Read_Temperature(s, Unit(w)) \in Int
    BY <1>2, <1>3, <1>8 DEF Sources
  <2> QED BY <1>7, <1>8, <2>1, <2>2, Zenon DEF FromSensor
<1>9. CASE w = LIGHT
  <2>1. PICK ch \in Channels :
           /\ reply' = [reply EXCEPT ![c] = Data(Label(w), Lux_branch(ch[1], ch[2]))]
           /\ source' = [source EXCEPT ![c] = ch]
    BY <1>1, <1>2, <1>9, Zenon
  <2>2. ch \in Sources /\ Lux_branch(ch[1], ch[2]) \in Int
    BY <1>4 DEF Sources
  <2> QED BY <1>7, <1>9, <2>1, <2>2, Zenon DEF FromSensor
<1> QED BY <1>8, <1>9

LEMMA TypeStep == ASSUME TypeOK, Accounts, [Next]_vars PROVE TypeOK'
<1> USE DEF serverVars, clientVars, callVars
<1>1. CASE Exit \/ UNCHANGED vars
  BY <1>1, Zenon DEF Exit, vars, TypeOK, CallTypeOK
<1>2. CASE Start \/ Loop_ends \/ Ignore
  BY <1>2, Zenon DEF Start, Loop_ends, Ignore, Serve, Exit, TypeOK, CallTypeOK
<1>3. CASE Call_accept
  <2>1. CASE Exit
    BY <1>1, <2>1
  <2>2. CASE ~Exit
    <3>1. fds' \in 0..MaxFds
      <4>1. fds \in 0..MaxFds /\ MaxFds \in Nat /\ fds < MaxFds /\ fds' = fds + 1
        BY <1>3, <2>2, CallsAssumption DEF Call_accept, TypeOK, CallTypeOK, CallsAssumption
      <4> QED BY <4>1, SMT
    <3> QED BY <1>3, <2>2, <3>1, Zenon DEF Call_accept, Serve, TypeOK, CallTypeOK
  <2> QED BY <2>1, <2>2
<1>4. CASE Accept
  <2>1. backlog \in Seq(Clients) /\ backlog # << >>
    BY <1>4 DEF Accept, TypeOK
  <2>2. Head(backlog) \in Clients /\ Tail(backlog) \in Seq(Clients)
    BY <2>1, SMT
  <2>3. open' \in SUBSET Clients
    BY <1>4, <2>2 DEF Accept, TypeOK
  <2> QED BY <1>4, <2>2, <2>3, Zenon DEF Accept, Serve, TypeOK, CallTypeOK
<1>5. CASE Read_some
  <2>1. conn \in Clients
    BY <1>5 DEF Read_some, Serve, Accounts, Serving, TypeOK
  <2>2. asked[conn] \in Typed
    BY <1>5, <2>1 DEF Read_some, TypeOK
  <2>3. buffer' \in [1..5 -> Letters]
    <3>1. buffer' = Overlay(asked[conn])
      BY <1>5 DEF Read_some, Overlay
    <3>2. buffer \in [1..5 -> Letters]
      BY Zenon DEF TypeOK
    <3> QED BY <2>2, <3>1, <3>2, OverlayTyped
  <2> QED BY <1>5, <2>3, Zenon DEF Read_some, Serve, TypeOK, CallTypeOK
<1>6. CASE Read_nothing
  <2>1. fds' \in 0..MaxFds
    <3>1. fds \in 0..MaxFds /\ MaxFds \in Nat /\ fds >= 1 /\ fds' = fds - 1
      BY <1>6, CallsAssumption, OneServed
         DEF Read_nothing, Serve, TypeOK, CallTypeOK, CallsAssumption
    <3> QED BY <3>1, SMT
  <2>2. open' \in SUBSET Clients
    BY <1>6 DEF Read_nothing, TypeOK
  <2> QED BY <1>6, <2>1, <2>2, Zenon DEF Read_nothing, Serve, TypeOK, CallTypeOK
<1>7. CASE Dispatch \/ Read_sensor
  <2>1. Work(Server) \/ \E s \in Sensors : Begin(Server, s)
    BY <1>7, Zenon DEF Dispatch, Read_sensor, Sensor, Sensors
  <2>2. CallTypeOK'
    BY <2>1, ServerKnown, CallTyped DEF TypeOK
  <2> QED BY <1>7, <2>2, Zenon DEF Dispatch, Read_sensor, Serve, TypeOK
<1>8. CASE Send_error \/ Send_data
  <2>1. conn \in Clients
    BY <1>8 DEF Send_error, Send_data, Serve, Accounts, Serving, TypeOK
  <2>2. reply' \in [Clients -> Replies] /\ source' \in [Clients -> Sources]
    <3>1. CASE Send_error
      <4>1. ErrorReply \in Replies
        BY DEF Replies
      <4>2. reply \in [Clients -> Replies] /\ reply' = [reply EXCEPT ![conn] = ErrorReply]
        BY <3>1, Zenon DEF Send_error, TypeOK
      <4>3. source' = source /\ source \in [Clients -> Sources]
        BY <3>1, Zenon DEF Send_error, TypeOK
      <4> QED BY <4>1, <4>2, <4>3, ExceptTyped
    <3>2. CASE Send_data
      BY <2>1, <3>2, FillTyped DEF Send_data
    <3> QED BY <1>8, <3>1, <3>2
  <2> QED BY <1>8, <2>2, Zenon DEF Send_error, Send_data, Serve, TypeOK, CallTypeOK
<1>9. ASSUME NEW t \in Handlers, Handler_starts(t) \/ Handler_works(t) PROVE TypeOK'
  BY <1>9, HandlerApart, Zenon DEF TypeOK
<1>10. CASE Exit_requested \/ Monitor_ends
  BY <1>10, Zenon DEF Exit_requested, Monitor_ends, Exit, TypeOK, CallTypeOK
<1>11. ASSUME NEW c \in Clients, Client_types(c) \/ Client_runs(c) PROVE TypeOK'
  <2>1. UNCHANGED <<callVars, alive, exit_flag, srv, conn, buffer, open, reply, source>>
    BY <1>11, SMT DEF Client_types, Client_runs, Connect, Connect_refused, Give_up, Send, Receive,
                      Receive_end
  <2>2. client' \in [Clients -> {"off", "prompt", "waiting", "gone"}]
    <3>1. client \in [Clients -> {"off", "prompt", "waiting", "gone"}]
      BY Zenon DEF TypeOK
    <3>2. \E x \in {"prompt", "waiting", "gone"} : client' = [client EXCEPT ![c] = x]
      BY <1>11, Zenon DEF Client_types, Client_runs, Connect, Connect_refused, Give_up, Send,
                          Receive, Receive_end, Client_at
    <3> QED BY <3>1, <3>2, SMT
  <2>3. asked' \in [Clients -> Typed \cup { << >> }]
    <3>1. asked \in [Clients -> Typed \cup { << >> }]
      BY Zenon DEF TypeOK
    <3>2. asked' = asked \/ \E w \in Typed : asked' = [asked EXCEPT ![c] = w]
      BY <1>11, Zenon DEF Client_types, Client_runs, Connect, Connect_refused, Give_up, Send,
                          Receive, Receive_end
    <3>3. CASE \E w \in Typed : asked' = [asked EXCEPT ![c] = w]
      <4>1. PICK w \in Typed \cup { << >> } : asked' = [asked EXCEPT ![c] = w]
        BY <3>3
      <4> QED BY <3>1, <4>1, ExceptTyped
    <3> QED BY <3>1, <3>2, <3>3
  <2>4. backlog' \in Seq(Clients)
    <3>1. backlog \in Seq(Clients)
      BY Zenon DEF TypeOK
    <3>2. backlog' = backlog \/ backlog' = Append(backlog, c)
      BY <1>11, Zenon DEF Client_types, Client_runs, Connect, Connect_refused, Give_up, Send,
                          Receive, Receive_end
    <3> QED BY <3>1, <3>2, SMT
  <2>5. shown' \in [Clients -> {"nothing", "DATA", "ERROR"}]
    <3>1. shown \in [Clients -> {"nothing", "DATA", "ERROR"}]
      BY Zenon DEF TypeOK
    <3>2. Receive(c) => reply[c].level \in {"nothing", "DATA", "ERROR"}
      <4>1. Receive(c) => reply[c] \in Replies \ {NoReply}
        BY Zenon DEF Receive, TypeOK
      <4>2. \A r \in Replies \ {NoReply} : r.level \in {"nothing", "DATA", "ERROR"}
        BY SMT DEF Replies, ErrorReply, NoReply
      <4> QED BY <4>1, <4>2
    <3>3. shown' = shown \/ \E x \in {"nothing", "DATA", "ERROR"} : shown' = [shown EXCEPT ![c] = x]
      BY <1>11, <3>2, Zenon DEF Client_types, Client_runs, Connect, Connect_refused, Give_up, Send,
                                Receive, Receive_end
    <3> QED BY <3>1, <3>3, SMT
  <2> QED BY <2>1, <2>2, <2>3, <2>4, <2>5, Zenon DEF TypeOK, CallTypeOK
<1> QED
  BY <1>1, <1>2, <1>3, <1>4, <1>5, <1>6, <1>7, <1>8, <1>9, <1>10, <1>11 DEF Next, Socket_thread
-----------------------------------------------------------------------------
(* Accounts is inductive. *)

(* A step that touches nothing the accounts speak of, or spends descriptors. *)
LEMMA AccountsFrame ==
    ASSUME TypeOK, TypeOK', Accounts, fds' >= fds, UNCHANGED <<conn, open>>,
           \/ srv' = srv
           \/ srv' \in {"top", "ended"}
           \/ srv \in {"reading", "dispatch"} /\ srv' \in {"dispatch", "asking"}
    PROVE  Accounts'
<1>1. fds \in Nat /\ fds' \in Nat /\ open' = open /\ Cardinality(open) \in Nat
  BY FiniteParts, FinitePartsAfter
<1>2. Aside \in Nat /\ Aside' \in Nat /\ Aside' <= Aside
  BY SMT DEF Aside
<1>3. Costs'
  BY <1>1, <1>2, SMT DEF Accounts, Costs
<1>4. Serving'
  BY DEF Accounts, Serving
<1> QED BY <1>3, <1>4 DEF Accounts

LEMMA AccountsStep == ASSUME TypeOK, TypeOK', Accounts, [Next]_vars PROVE Accounts'
<1> USE DEF serverVars, clientVars, callVars
<1>1. /\ Cardinality(open) \in Nat /\ fds \in Nat
      /\ Cardinality(open') \in Nat /\ fds' \in Nat
  BY FiniteParts, FinitePartsAfter
<1>2. fds >= Cardinality(open) + Aside /\ Serving
  BY DEF Accounts, Costs
<1>3. ASSUME fds' >= Cardinality(open') + Aside' PROVE Costs'
  BY <1>3 DEF Costs
<1>4. Aside = IF srv = "accepting" THEN 1 ELSE 0
  BY DEF Aside
<1>5. Aside' = IF srv' = "accepting" THEN 1 ELSE 0
  BY DEF Aside
<1>6. CASE Exit \/ UNCHANGED vars \/ Exit_requested \/ Monitor_ends
  <2>1. fds' >= fds /\ UNCHANGED <<srv, conn, open>>
    BY <1>1, <1>6, SMT DEF Exit, vars, Exit_requested, Monitor_ends
  <2> QED BY <2>1, AccountsFrame
<1>7. CASE (Start /\ ~Exit) \/ Loop_ends \/ Ignore \/ Read_some \/ Dispatch \/ Send_error \/ Send_data
  <2>1. /\ UNCHANGED <<fds, conn, open>>
        /\ \/ srv' \in {"top", "ended"}
           \/ srv \in {"reading", "dispatch"} /\ srv' \in {"dispatch", "asking"}
    BY <1>7, Zenon DEF Start, Loop_ends, Ignore, Read_some, Dispatch, Send_error, Send_data, Serve,
       Begin
  <2>2. fds' >= fds
    BY <1>1, <2>1, SMT
  <2> QED BY <2>1, <2>2, AccountsFrame
<1>8. CASE Call_accept /\ ~Exit
  <2>1. UNCHANGED open /\ srv = "top" /\ srv' = "accepting" /\ fds' = fds + 1
    BY <1>8, Zenon DEF Call_accept, Serve
  <2>2. Costs'
    BY <1>1, <1>2, <1>3, <1>4, <1>5, <2>1, SMT
  <2> QED BY <2>1, <2>2 DEF Accounts, Serving
<1>9. CASE Accept
  <2>1. /\ UNCHANGED fds /\ srv = "accepting" /\ srv' = "reading"
        /\ conn' = Head(backlog) /\ open' = open \cup {Head(backlog)}
    BY <1>9, Zenon DEF Accept, Serve
  <2>2. Cardinality(open') <= Cardinality(open) + 1
    BY <2>1, FiniteParts, Counting
  <2>3. Costs'
    BY <1>1, <1>2, <1>3, <1>4, <1>5, <2>1, <2>2, SMT
  <2> QED BY <2>1, <2>3 DEF Accounts, Serving
<1>10. CASE Read_nothing
  <2>1. /\ srv = "reading" /\ srv' = "top"
        /\ fds' = fds - 1 /\ open' = open \ {conn}
    BY <1>10, Zenon DEF Read_nothing, Serve
  <2>2. Cardinality(open') = Cardinality(open) - 1
    BY <2>1, FiniteParts, OneServed, Counting
  <2>3. Costs'
    BY <1>1, <1>2, <1>3, <1>4, <1>5, <2>1, <2>2, SMT
  <2> QED BY <2>1, <2>3 DEF Accounts, Serving
<1>11. CASE Read_sensor
  <2>1. fds' >= fds /\ UNCHANGED <<srv, conn, open>>
    BY <1>11, ServerKnown, CallTyped DEF Read_sensor, TypeOK
  <2> QED BY <2>1, AccountsFrame
<1>12. ASSUME NEW t \in Handlers, Handler_starts(t) \/ Handler_works(t) PROVE Accounts'
  BY <1>12, HandlerApart, AccountsFrame
<1>13. ASSUME NEW c \in Clients, Client_types(c) \/ Client_runs(c) PROVE Accounts'
  <2>1. UNCHANGED <<fds, srv, conn, open>>
    BY <1>13, Zenon DEF Client_types, Client_runs, Connect, Connect_refused, Give_up, Send, Receive,
                        Receive_end
  <2>2. fds' >= fds
    BY <1>1, <2>1, SMT
  <2> QED BY <2>1, <2>2, AccountsFrame
<1> QED
  BY <1>6, <1>7, <1>8, <1>9, <1>10, <1>11, <1>12, <1>13 DEF Next, Socket_thread

Inv == TypeOK /\ Accounts

LEMMA InvInit == Init => Inv
<1> SUFFICES ASSUME Init PROVE Inv
  OBVIOUS
<1>1. TypeOK
  <2>1. CallTypeOK
    <3>1. /\ lock = NoOne /\ fds = 0 /\ MaxFds \in Nat
          /\ phase = [t \in Threads |-> "idle"] /\ call = [t \in Threads |-> "Temper"]
          /\ ret = [t \in Threads |-> "none"]
      BY CallsAssumption, Zenon DEF Init, CallInit, CallsAssumption
    <3>2. fds \in 0..MaxFds
      BY <3>1, SMT
    <3>3. "idle" \in Phases /\ "Temper" \in Sensors /\ "none" \in Statuses
      BY Zenon DEF Phases, Sensors, Statuses
    <3> QED BY <3>1, <3>2, <3>3, Zenon DEF CallTypeOK
  <2>2. backlog \in Seq(Clients)
    <3>1. backlog = << >>
      BY Zenon DEF Init
    <3> QED BY <3>1
  <2>3. /\ client \in [Clients -> {"off", "prompt", "waiting", "gone"}]
        /\ asked \in [Clients -> Typed \cup {<< >>}]
        /\ reply \in [Clients -> Replies]
        /\ shown \in [Clients -> {"nothing", "DATA", "ERROR"}]
        /\ source \in [Clients -> Sources]
    <3>1. /\ client = [c \in Clients |-> "off"] /\ asked = [c \in Clients |-> << >>]
          /\ reply = [c \in Clients |-> NoReply] /\ shown = [c \in Clients |-> "nothing"]
          /\ source = [c \in Clients |-> NoSource]
      BY Zenon DEF Init
    <3>2. NoReply \in Replies /\ NoSource \in Sources
      BY Zenon DEF Replies, Sources
    <3> QED BY <3>1, <3>2, Zenon
  <2>4. buffer \in [1..5 -> Letters]
    <3>1. buffer = [i \in 1..5 |-> NUL]
      BY Zenon DEF Init
    <3> QED BY <3>1 DEF Letters
  <2> QED BY <2>1, <2>2, <2>3, <2>4, Zenon DEF Init, TypeOK
<1>2. Accounts
  <2>1. fds = 0 /\ srv = "start" /\ open = {}
    BY Zenon DEF Init, CallInit
  <2>2. Cardinality(open) = 0 /\ Aside = 0
    BY <2>1, FS_EmptySet DEF Aside
  <2> QED BY <2>1, <2>2, SMT DEF Accounts, Costs, Serving
<1> QED BY <1>1, <1>2 DEF Inv

LEMMA InvStep == Inv /\ [Next]_vars => Inv'
BY TypeStep, AccountsStep DEF Inv

LEMMA InvHolds == Spec => []Inv
BY InvInit, InvStep, PTL DEF Spec

(* The variables of the server, the clients and the bus keep their types. *)
THEOREM TypeCorrect == Spec => []TypeOK
<1>1. Inv => TypeOK
  BY DEF Inv
<1> QED BY <1>1, InvHolds, PTL

-----------------------------------------------------------------------------
(* Where the numbers come from: every reading sent is that of one command, for *)
(* what the sensor then held.                                                  *)
Provenance == \A c \in Clients : Answered(c) => \E w \in Commands : FromSensor(c, w)

LEMMA ProvenanceHolds == Spec => []Provenance
<1>1. Init => Provenance
  <2> SUFFICES ASSUME Init, NEW c \in Clients PROVE ~Answered(c)
    BY DEF Provenance
  <2>1. reply = [d \in Clients |-> NoReply]
    BY Zenon DEF Init
  <2> QED BY <2>1 DEF Answered, NoReply
<1>2. Inv /\ Provenance /\ [Next]_vars => Provenance'
  <2> SUFFICES ASSUME Inv, Provenance, [Next]_vars, NEW c \in Clients, Answered(c)'
               PROVE  \E w \in Commands : FromSensor(c, w)'
    BY DEF Provenance
  <2> USE DEF serverVars, clientVars, callVars
  <2>1. CASE UNCHANGED <<reply, source>>
    <3>1. PICK w \in Commands : FromSensor(c, w)
      BY <2>1 DEF Provenance, Answered
    <3>2. FromSensor(c, w)'
      BY <2>1, <3>1, SMT DEF FromSensor
    <3> QED BY <3>2
  <2>2. CASE reply'[c] = reply[c] /\ source'[c] = source[c]
    <3>1. PICK w \in Commands : FromSensor(c, w)
      BY <2>2 DEF Provenance, Answered
    <3>2. FromSensor(c, w)'
      BY <2>2, <3>1, SMT DEF FromSensor
    <3> QED BY <3>2
  <2>3. CASE Send_error
    <3>1. reply \in [Clients -> Replies] /\ reply' = [reply EXCEPT ![conn] = ErrorReply]
      BY <2>3, Zenon DEF Inv, TypeOK, Send_error
    <3>2. reply'[c] = IF c = conn THEN ErrorReply ELSE reply[c]
      BY <3>1, ExceptElsewhere
    <3>3. c # conn
      BY <3>2 DEF Answered, ErrorReply
    <3>4. source' = source
      BY <2>3 DEF Send_error
    <3> QED BY <2>2, <3>2, <3>3, <3>4
  <2>4. CASE Send_data
    <3>1. conn \in Clients
      BY <2>4, Zenon DEF Send_data, Serve, Inv, Accounts, Serving, TypeOK
    <3>2. CASE c = conn
      BY <2>4, <3>2, FillTyped DEF Send_data, Inv, Spelled
    <3>3. CASE c # conn
      BY <2>2, <2>4, <3>1, <3>3, FillTyped DEF Send_data, Inv
    <3> QED BY <3>2, <3>3
  <2>5. CASE Socket_thread /\ ~Send_error /\ ~Send_data
    BY <2>1, <2>5, Zenon DEF Socket_thread, Start, Call_accept, Loop_ends, Accept, Read_some,
       Read_nothing, Dispatch, Ignore, Read_sensor, Exit
  <2>6. ASSUME NEW t \in Handlers, Handler_starts(t) \/ Handler_works(t)
        PROVE  UNCHANGED <<reply, source>>
    BY <2>6, Zenon DEF Handler_starts, Handler_works
  <2>7. CASE Exit_requested \/ Monitor_ends
    BY <2>1, <2>7, Zenon DEF Exit_requested, Monitor_ends, Exit
  <2>8. ASSUME NEW d \in Clients, Client_types(d) \/ Client_runs(d)
        PROVE  UNCHANGED <<reply, source>>
    BY <2>8, Zenon DEF Client_types, Client_runs, Connect, Connect_refused, Give_up, Send,
       Receive, Receive_end
  <2>9. CASE UNCHANGED vars
    BY <2>1, <2>9 DEF vars
  <2> QED BY <2>1, <2>3, <2>4, <2>5, <2>6, <2>7, <2>8, <2>9 DEF Next
<1> QED BY <1>1, <1>2, InvHolds, PTL DEF Spec

(* A reading in Celsius is the temperature the sensor held, for every word not *)
(* below zero (socket.c:74, temperature.c:206-222).                             *)
THEOREM CelsiusTold == Spec => []CelsiusTrue
<1>1. Provenance => CelsiusTrue
  <2> SUFFICES ASSUME Provenance, NEW c \in Clients, Answered(c), reply[c].label = "C",
                      source[c][1] < 2048
               PROVE  reply[c].value = Measured(source[c][1])
    BY DEF CelsiusTrue
  <2>1. PICK w \in Commands : FromSensor(c, w)
    BY DEF Provenance
  <2>2. w = TEMP("C") /\ w # LIGHT /\ Unit(w) = 1
    BY <2>1, CommandFacts DEF FromSensor, Commands
  <2>3. PICK s \in Samples : source[c] = <<s>> /\ reply[c].value = Read_Temperature(s, 1)
    BY <2>1, <2>2 DEF FromSensor
  <2>4. s \in Words /\ source[c][1] = s
    BY <2>3, ServerAssumption DEF ServerAssumption
  <2>5. InUnit(s, "C") = Measured(s)
    BY SMT DEF InUnit
  <2> QED BY <2>3, <2>4, <2>5, CelsiusRight
<1> QED BY <1>1, ProvenanceHolds, PTL
-----------------------------------------------------------------------------
(* Who is answered with what.  A client sends one word; a letter in the buffer *)
(* is that of a word sent on a connection still open, in the same place; and   *)
(* while a connection is served, the buffer begins with what came on it.       *)
SentOnce == \A c \in Clients : client[c] \in {"off", "prompt"} => asked[c] = << >>
LetterFrom ==
    \A i \in 1..5 : buffer[i] # NUL =>
        \E d \in open : i <= Len(asked[d]) /\ asked[d][i] = buffer[i]
BufferOf ==
    srv \in {"dispatch", "asking"} =>
        /\ asked[conn] \in Typed
        /\ \A i \in 1..5 : i <= Len(asked[conn]) => buffer[i] = asked[conn][i]

Buffered == SentOnce /\ LetterFrom /\ BufferOf

(* Words once sent stay, and so do the connections they came on. *)
LEMMA WordsStay ==
    ASSUME Inv, Buffered, [Next]_vars
    PROVE  /\ \A c \in Clients : asked[c] # << >> => asked'[c] = asked[c]
           /\ \A d \in open : asked[d] # << >> => d \in open'
           /\ SentOnce'
<1> USE DEF serverVars, clientVars, callVars
<1>1. /\ asked \in [Clients -> Typed \cup {<< >>}] /\ open \in SUBSET Clients
      /\ client \in [Clients -> {"off", "prompt", "waiting", "gone"}]
  BY Zenon DEF Inv, TypeOK
<1>2. CASE UNCHANGED <<client, asked>> /\ \A d \in open : asked[d] # << >> => d \in open'
  BY <1>2 DEF Buffered, SentOnce
<1>3. ASSUME NEW c \in Clients, Client_types(c) \/ Client_runs(c)
      PROVE  /\ \A d \in Clients : asked[d] # << >> => asked'[d] = asked[d]
             /\ SentOnce'
             /\ open' = open
  <2>1. open' = open
    BY <1>3, Zenon DEF Client_types, Client_runs, Connect, Connect_refused, Give_up, Send,
       Receive, Receive_end
  <2>2. CASE asked' = asked /\ \E x \in {"waiting", "gone"} : client' = [client EXCEPT ![c] = x]
    <3>1. PICK x \in {"waiting", "gone"} : client' = [client EXCEPT ![c] = x]
      BY <2>2
    <3>2. \A d \in Clients : client'[d] = IF d = c THEN x ELSE client[d]
      BY <1>1, <3>1, ExceptElsewhere
    <3> QED BY <2>1, <2>2, <3>2 DEF Buffered, SentOnce
  <2>3. CASE Connect(c)
    <3>1. client[c] = "off" /\ client' = [client EXCEPT ![c] = "prompt"] /\ asked' = asked
      BY <2>3, Zenon DEF Connect, Client_at
    <3>2. \A d \in Clients : client'[d] = IF d = c THEN "prompt" ELSE client[d]
      BY <1>1, <3>1, ExceptElsewhere
    <3> QED BY <2>1, <3>1, <3>2 DEF Buffered, SentOnce
  <2>4. CASE \E w \in Typed : Send(c, w)
    <3>1. PICK w \in Typed : /\ client[c] = "prompt" /\ client' = [client EXCEPT ![c] = "waiting"]
                             /\ asked' = [asked EXCEPT ![c] = w]
      BY <2>4, Zenon DEF Send, Client_at
    <3>2. \A d \in Clients : client'[d] = IF d = c THEN "waiting" ELSE client[d]
      BY <1>1, <3>1, ExceptElsewhere
    <3>3. \A d \in Clients : asked'[d] = IF d = c THEN w ELSE asked[d]
      BY <1>1, <3>1, ExceptElsewhere
    <3>4. asked[c] = << >>
      BY <3>1 DEF Buffered, SentOnce
    <3>5. \A d \in Clients : asked[d] # << >> => asked'[d] = asked[d]
      BY <3>3, <3>4
    <3>6. ASSUME NEW d \in Clients, client'[d] \in {"off", "prompt"} PROVE asked'[d] = << >>
      <4>1. d # c /\ client'[d] = client[d]
        BY <3>2, <3>6
      <4> QED BY <3>3, <3>6, <4>1 DEF Buffered, SentOnce
    <3> QED BY <2>1, <3>5, <3>6 DEF SentOnce
  <2> QED
    BY <1>3, <2>2, <2>3, <2>4, Zenon DEF Client_types, Client_runs, Connect_refused, Give_up,
       Receive, Receive_end, Client_at
<1>4. CASE Read_nothing
  <2>1. open' = open \ {conn} /\ asked[conn] = << >> /\ UNCHANGED <<client, asked>>
    BY <1>4, Zenon DEF Read_nothing
  <2> QED BY <1>2, <2>1
<1>5. CASE Accept
  <2>1. open' = open \cup {Head(backlog)} /\ UNCHANGED <<client, asked>>
    BY <1>5, Zenon DEF Accept
  <2> QED BY <1>2, <2>1
<1>6. CASE Socket_thread /\ ~Accept /\ ~Read_nothing
  <2>1. UNCHANGED <<open, client, asked>>
    BY <1>6, Zenon DEF Socket_thread, Start, Call_accept, Loop_ends, Read_some, Dispatch, Ignore,
       Read_sensor, Send_error, Send_data, Exit
  <2> QED BY <1>2, <2>1
<1>7. ASSUME NEW t \in Handlers, Handler_starts(t) \/ Handler_works(t)
      PROVE  UNCHANGED <<open, client, asked>>
  BY <1>7, Zenon DEF Handler_starts, Handler_works
<1>8. CASE Exit_requested \/ Monitor_ends \/ UNCHANGED vars
  <2>1. UNCHANGED <<open, client, asked>>
    BY <1>8, Zenon DEF Exit_requested, Monitor_ends, Exit, vars
  <2> QED BY <1>2, <2>1
<1> QED BY <1>1, <1>2, <1>3, <1>4, <1>5, <1>6, <1>7, <1>8 DEF Next

LEMMA BufferedHolds == Spec => []Buffered
<1>1. Init => Buffered
  <2> SUFFICES ASSUME Init PROVE Buffered
    OBVIOUS
  <2>1. /\ asked = [c \in Clients |-> << >>] /\ srv = "start" /\ buffer = [i \in 1..5 |-> NUL]
    BY Zenon DEF Init
  <2> QED BY <2>1 DEF Buffered, SentOnce, LetterFrom, BufferOf
<1>2. Inv /\ Buffered /\ [Next]_vars => Buffered'
  <2> SUFFICES ASSUME Inv, Buffered, [Next]_vars PROVE LetterFrom' /\ BufferOf'
    BY WordsStay DEF Buffered
  <2> USE DEF serverVars, clientVars, callVars
  <2>1. /\ \A c \in Clients : asked[c] # << >> => asked'[c] = asked[c]
        /\ \A d \in open : asked[d] # << >> => d \in open'
        /\ open \in SUBSET Clients
    BY WordsStay, Zenon DEF Inv, TypeOK
  <2>2. \A w, i : i \in 1..5 /\ i <= Len(w) => w # << >>
    OBVIOUS
  <2>3. ASSUME NEW i \in 1..5, \E d \in open : i <= Len(asked[d]) /\ asked[d][i] = buffer[i]
        PROVE  \E d \in open' : i <= Len(asked'[d]) /\ asked'[d][i] = buffer[i]
    <3>1. PICK d \in open : i <= Len(asked[d]) /\ asked[d][i] = buffer[i]
      BY <2>3
    <3>2. d \in open' /\ asked'[d] = asked[d]
      BY <2>1, <2>2, <3>1
    <3> QED BY <3>1, <3>2
  <2>4. buffer' = buffer => LetterFrom'
    BY <2>3 DEF Buffered, LetterFrom
  <2>5. CASE UNCHANGED <<buffer, conn, srv>>
    <3>1. CASE srv \in {"dispatch", "asking"}
      <4>1. conn \in Clients /\ asked[conn] \in Typed /\ asked[conn] # << >>
        BY <2>1, TypedFacts, <3>1, Zenon DEF Inv, Accounts, Serving, Buffered, BufferOf
      <4>2. asked'[conn] = asked[conn]
        BY <2>1, <4>1
      <4> QED BY <2>4, <2>5, <3>1, <4>2 DEF Buffered, BufferOf
    <3>2. CASE srv \notin {"dispatch", "asking"}
      BY <2>4, <2>5, <3>2 DEF BufferOf
    <3> QED BY <3>1, <3>2
  <2>6. CASE buffer' = buffer /\ srv' \notin {"dispatch", "asking"}
    BY <2>4, <2>6 DEF BufferOf
  <2>7. CASE Start \/ Call_accept \/ Loop_ends \/ Accept \/ Read_nothing \/ Ignore \/ Send_error
              \/ Send_data \/ Read_sensor
    <3>1. \/ UNCHANGED <<buffer, conn, srv>>
          \/ buffer' = buffer /\ srv' \in {"top", "accepting", "ended", "reading"}
      BY <2>7, Zenon DEF Start, Call_accept, Loop_ends, Accept, Read_nothing, Ignore, Send_error,
         Send_data, Read_sensor, Serve, Exit
    <3> QED BY <2>5, <2>6, <3>1
  <2>8. CASE Read_some
    <3> DEFINE word == asked[conn]
    <3>1. /\ srv = "reading" /\ word # << >> /\ UNCHANGED <<conn, open, asked>>
          /\ buffer' = Overlay(word)
      BY <2>8, Zenon DEF Read_some, Serve, Overlay
    <3>2. conn \in open /\ word \in Typed
      <4>1. conn \in open /\ asked \in [Clients -> Typed \cup {<< >>}]
        BY <3>1, Zenon DEF Inv, Accounts, Serving, TypeOK
      <4> QED BY <2>1, <3>1, <4>1
    <3>3. \A i \in 1..5 : buffer'[i] = IF i <= Len(word) THEN word[i] ELSE buffer[i]
      BY <3>1 DEF Overlay
    <3>4. BufferOf'
      BY <3>1, <3>2, <3>3 DEF BufferOf
    <3>5. ASSUME NEW i \in 1..5, buffer'[i] # NUL
          PROVE  \E d \in open' : i <= Len(asked'[d]) /\ asked'[d][i] = buffer'[i]
      <4>1. CASE i <= Len(word)
        BY <3>1, <3>2, <3>3, <4>1
      <4>2. CASE ~(i <= Len(word))
        BY <3>1, <3>3, <3>5, <4>2 DEF Buffered, LetterFrom
      <4> QED BY <4>1, <4>2
    <3> QED BY <3>4, <3>5 DEF LetterFrom
  <2>9. CASE Dispatch
    <3>1. srv = "dispatch" /\ UNCHANGED <<conn, buffer, asked>>
      BY <2>9, Zenon DEF Dispatch, Serve
    <3> QED BY <2>4, <3>1 DEF Buffered, BufferOf
  <2>10. ASSUME NEW t \in Handlers, Handler_starts(t) \/ Handler_works(t)
         PROVE  UNCHANGED <<buffer, conn, srv>>
    BY <2>10, Zenon DEF Handler_starts, Handler_works
  <2>11. ASSUME NEW c \in Clients, Client_types(c) \/ Client_runs(c)
         PROVE  UNCHANGED <<buffer, conn, srv>>
    BY <2>11, Zenon DEF Client_types, Client_runs, Connect, Connect_refused, Give_up, Send,
       Receive, Receive_end
  <2>12. CASE Exit_requested \/ Monitor_ends \/ UNCHANGED vars
    <3>1. UNCHANGED <<buffer, conn, srv>>
      BY <2>12, Zenon DEF Exit_requested, Monitor_ends, Exit, vars
    <3> QED BY <2>5, <3>1
  <2> QED BY <2>5, <2>7, <2>8, <2>9, <2>10, <2>11, <2>12 DEF Next, Socket_thread
<1> QED BY <1>1, <1>2, InvHolds, PTL DEF Spec

(* A command spelled in the buffer begins with what the client sent; the rest  *)
(* of it came on other connections.                                            *)
LEMMA SpelledOut ==
    ASSUME Inv, Buffered, srv = "asking", NEW w \in Spelled, NEW i \in 1..5
    PROVE  IF i <= Len(asked[conn])
           THEN asked[conn][i] = w[i]
           ELSE \E d \in open \ {conn} : i <= Len(asked[d]) /\ asked[d][i] = w[i]
<1>1. w \in Commands /\ buffer[i] = w[i]
  BY DEF Spelled
<1>2. w[i] # NUL
  <2>1. \A l : /\ TEMP(l)[1] = "T" /\ TEMP(l)[2] = "E" /\ TEMP(l)[3] = "M"
              /\ TEMP(l)[4] = "P" /\ TEMP(l)[5] = l
    BY SMT DEF TEMP
  <2>2. /\ LIGHT[1] = "L" /\ LIGHT[2] = "I" /\ LIGHT[3] = "G" /\ LIGHT[4] = "H"
        /\ LIGHT[5] = "T"
    BY SMT DEF LIGHT
  <2>3. i = 1 \/ i = 2 \/ i = 3 \/ i = 4 \/ i = 5
    BY SMT
  <2>4. LIGHT[i] # NUL
    BY <2>2, <2>3 DEF NUL
  <2>5. ASSUME NEW l \in {"C", "K", "F"} PROVE TEMP(l)[i] # NUL
    BY <2>1, <2>3 DEF NUL
  <2> QED BY <1>1, <2>4, <2>5 DEF Commands
<1>3. CASE i <= Len(asked[conn])
  BY <1>1, <1>3 DEF Buffered, BufferOf
<1>4. CASE ~(i <= Len(asked[conn]))
  BY <1>1, <1>2, <1>4 DEF Buffered, LetterFrom
<1> QED BY <1>3, <1>4

(* No interleaving of clients sends a reading to a client that sent neither    *)
(* its command nor a beginning of it.                                          *)
THEOREM RepliesToAskers == Spec => []RepliesMatch
<1>1. Init => RepliesMatch
  <2> SUFFICES ASSUME Init, NEW c \in Clients PROVE ~Answered(c)
    BY DEF RepliesMatch
  <2>1. reply = [d \in Clients |-> NoReply]
    BY Zenon DEF Init
  <2> QED BY <2>1 DEF Answered, NoReply
<1>2. Inv /\ Buffered /\ RepliesMatch /\ [Next]_vars => RepliesMatch'
  <2> SUFFICES ASSUME Inv, Buffered, RepliesMatch, [Next]_vars, NEW c \in Clients, Answered(c)'
               PROVE  \E w \in Commands :
                          /\ reply'[c].label = Label(w)
                          /\ asked'[c] # << >>
                          /\ \A i \in 1..5 :
                                IF i <= Len(asked'[c])
                                THEN asked'[c][i] = w[i]
                                ELSE \E d \in open' \ {c} :
                                        i <= Len(asked'[d]) /\ asked'[d][i] = w[i]
    BY DEF RepliesMatch
  <2> USE DEF serverVars, clientVars, callVars
  <2>1. /\ \A d \in Clients : asked[d] # << >> => asked'[d] = asked[d]
        /\ \A d \in open : asked[d] # << >> => d \in open'
        /\ open \in SUBSET Clients
    BY WordsStay, Zenon DEF Inv, TypeOK
  <2>2. \A w, i : i \in 1..5 /\ i <= Len(w) => w # << >>
    OBVIOUS
  <2>3. CASE reply'[c] = reply[c]
    <3>1. PICK w \in Commands :
             /\ reply[c].label = Label(w)
             /\ asked[c] # << >>
             /\ \A i \in 1..5 :
                   IF i <= Len(asked[c])
                   THEN asked[c][i] = w[i]
                   ELSE \E d \in open \ {c} : i <= Len(asked[d]) /\ asked[d][i] = w[i]
      BY <2>3 DEF RepliesMatch, Answered
    <3>2. asked'[c] = asked[c]
      BY <2>1, <3>1
    <3>3. ASSUME NEW i \in 1..5, ~(i <= Len(asked[c]))
          PROVE  \E d \in open' \ {c} : i <= Len(asked'[d]) /\ asked'[d][i] = w[i]
      <4>1. PICK d \in open \ {c} : i <= Len(asked[d]) /\ asked[d][i] = w[i]
        BY <3>1, <3>3
      <4>2. d \in open' /\ asked'[d] = asked[d]
        BY <2>1, <2>2, <4>1
      <4> QED BY <4>1, <4>2
    <3> QED BY <2>3, <3>1, <3>2, <3>3
  <2>4. CASE Send_error
    <3>1. reply \in [Clients -> Replies] /\ reply' = [reply EXCEPT ![conn] = ErrorReply]
      BY <2>4, Zenon DEF Inv, TypeOK, Send_error
    <3>2. reply'[c] = IF c = conn THEN ErrorReply ELSE reply[c]
      BY <3>1, ExceptElsewhere
    <3>3. c # conn
      BY <3>2 DEF Answered, ErrorReply
    <3> QED BY <2>3, <3>2, <3>3
  <2>5. CASE Send_data
    <3>1. conn \in Clients /\ srv = "asking" /\ UNCHANGED <<asked, open>>
      BY <2>5, Zenon DEF Send_data, Serve, Inv, Accounts, Serving, TypeOK
    <3>2. CASE c # conn
      BY <2>3, <2>5, <3>1, <3>2, FillTyped DEF Send_data, Inv
    <3>3. CASE c = conn
      <4>1. PICK w \in Spelled : FromSensor(c, w)'
        BY <2>5, <3>1, <3>3, FillTyped DEF Send_data, Inv
      <4>2. reply'[c].label = Label(w) /\ w \in Commands
        BY <4>1 DEF FromSensor, Spelled
      <4>3. asked[c] # << >>
        BY <3>1, <3>3, TypedFacts DEF Buffered, BufferOf
      <4>4. \A i \in 1..5 : IF i <= Len(asked[c])
                            THEN asked[c][i] = w[i]
                            ELSE \E d \in open \ {c} : i <= Len(asked[d]) /\ asked[d][i] = w[i]
        BY <3>1, <3>3, SpelledOut
      <4> QED BY <3>1, <4>2, <4>3, <4>4
    <3> QED BY <3>2, <3>3
  <2>6. CASE Socket_thread /\ ~Send_error /\ ~Send_data
    BY <2>3, <2>6, Zenon DEF Socket_thread, Start, Call_accept, Loop_ends, Accept, Read_some,
       Read_nothing, Dispatch, Ignore, Read_sensor, Exit
  <2>7. ASSUME NEW t \in Handlers, Handler_starts(t) \/ Handler_works(t) PROVE reply' = reply
    BY <2>7, Zenon DEF Handler_starts, Handler_works
  <2>8. ASSUME NEW d \in Clients, Client_types(d) \/ Client_runs(d) PROVE reply' = reply
    BY <2>8, Zenon DEF Client_types, Client_runs, Connect, Connect_refused, Give_up, Send,
       Receive, Receive_end
  <2>9. CASE Exit_requested \/ Monitor_ends \/ UNCHANGED vars
    BY <2>3, <2>9, Zenon DEF Exit_requested, Monitor_ends, Exit, vars
  <2> QED BY <2>3, <2>4, <2>5, <2>6, <2>7, <2>8, <2>9 DEF Next
<1> QED BY <1>1, <1>2, InvHolds, BufferedHolds, PTL DEF Spec
-----------------------------------------------------------------------------
(* No command is dropped.  A connection made waits in the backlog until it is  *)
(* the one served; it stays that until a reply is sent, as long as its client  *)
(* has sent nothing else than a command: the read then leaves that command in  *)
(* the buffer, whatever the buffer held.                                       *)
InLine(c) == \E i \in 1..Len(backlog) : backlog[i] = c
Attended(c) == c = conn /\ srv \in {"reading", "dispatch", "asking"}
Unanswered(c) ==
    /\ alive /\ client[c] \in {"prompt", "waiting"}
    /\ asked[c] \in Commands \cup {<< >>} /\ reply[c] = NoReply
Kept == \A c \in Clients : Unanswered(c) => InLine(c) \/ Attended(c)

(* While a command is being dispatched, the buffer spells it. *)
LEMMA CommandSpelled ==
    ASSUME Inv, Buffered, srv = "dispatch", asked[conn] \in Commands
    PROVE  asked[conn] \in Spelled
<1>1. buffer \in [1..5 -> Letters]
  BY Zenon DEF Inv, TypeOK
<1>2. asked[conn] \in [1..5 -> Letters] /\ Len(asked[conn]) = 5
  BY CommandFacts
<1>3. \A i \in 1..5 : buffer[i] = asked[conn][i]
  BY <1>2, SMT DEF Buffered, BufferOf
<1>4. buffer = asked[conn]
  BY <1>1, <1>2, <1>3
<1> QED BY <1>4 DEF Spelled

(* A client comes into question by connecting only. *)
LEMMA KeptFrame ==
    ASSUME Kept, NEW c \in Clients, Unanswered(c)',
           alive, client[c] \in {"prompt", "waiting"}, reply[c] = NoReply,
           asked[c] \in Commands \cup {<< >>},
           InLine(c) => InLine(c)' \/ Attended(c)', Attended(c) => Attended(c)'
    PROVE  InLine(c)' \/ Attended(c)'
BY DEF Kept, Unanswered

LEMMA KeptHolds == Spec => []Kept
<1>1. Init => Kept
  <2> SUFFICES ASSUME Init, NEW c \in Clients PROVE ~Unanswered(c)
    BY DEF Kept
  <2>1. client = [d \in Clients |-> "off"]
    BY Zenon DEF Init
  <2> QED BY <2>1 DEF Unanswered
<1>2. Inv /\ Buffered /\ Kept /\ [Next]_vars => Kept'
  <2> SUFFICES ASSUME Inv, Buffered, Kept, [Next]_vars, NEW c \in Clients, Unanswered(c)'
               PROVE  InLine(c)' \/ Attended(c)'
    BY DEF Kept
  <2> USE DEF serverVars, clientVars, callVars
  <2>1. /\ backlog \in Seq(Clients)
        /\ asked \in [Clients -> Typed \cup {<< >>}]
        /\ client \in [Clients -> {"off", "prompt", "waiting", "gone"}]
        /\ reply \in [Clients -> Replies]
        /\ srv \in {"reading", "dispatch", "asking"} => conn \in Clients
    BY Zenon DEF Inv, TypeOK, Accounts, Serving
  <2>2. alive' /\ client'[c] \in {"prompt", "waiting"} /\ reply'[c] = NoReply
        /\ asked'[c] \in Commands \cup {<< >>}
    BY DEF Unanswered
  <2>3. CASE UNCHANGED <<alive, client, asked, reply, backlog, conn>>
              /\ (srv' = srv \/ (srv \in {"reading", "dispatch"} /\ srv' \in {"dispatch", "asking"})
                  \/ srv \in {"start", "top"})
    <3>1. Attended(c) => Attended(c)'
      BY <2>3 DEF Attended
    <3>2. InLine(c) => InLine(c)'
      BY <2>3 DEF InLine
    <3> QED BY <2>2, <2>3, <3>1, <3>2, KeptFrame
  <2>4. CASE Start \/ Call_accept \/ Loop_ends \/ Read_some \/ Dispatch \/ Read_sensor
    <3>1. \/ /\ UNCHANGED <<alive, client, asked, reply, backlog, conn>>
             /\ \/ srv' = srv
                \/ srv \in {"reading", "dispatch"} /\ srv' \in {"dispatch", "asking"}
                \/ srv \in {"start", "top"}
          \/ ~alive'
      BY <2>4, Zenon DEF Start, Call_accept, Loop_ends, Read_some, Dispatch, Read_sensor, Serve,
         Exit
    <3> QED BY <2>2, <2>3, <3>1
  <2>5. CASE Accept
    <3>1. /\ srv = "accepting" /\ srv' = "reading" /\ backlog # << >> /\ backlog' = Tail(backlog)
          /\ conn' = Head(backlog) /\ UNCHANGED <<alive, client, asked, reply>>
      BY <2>5, Zenon DEF Accept, Serve
    <3>2. ~Attended(c)
      BY <3>1 DEF Attended
    <3>3. ASSUME InLine(c) PROVE InLine(c)' \/ Attended(c)'
      <4>1. PICK i \in 1..Len(backlog) : backlog[i] = c
        BY <3>3 DEF InLine
      <4>2. CASE i = 1
        BY <2>1, <3>1, <4>1, <4>2 DEF Attended
      <4>3. CASE i # 1
        <5>1. i - 1 \in 1..Len(backlog') /\ backlog'[i - 1] = c
          BY <2>1, <3>1, <4>1, <4>3
        <5> QED BY <5>1 DEF InLine
      <4> QED BY <4>2, <4>3
    <3> QED BY <2>2, <3>1, <3>2, <3>3, KeptFrame
  <2>6. CASE Read_nothing \/ Ignore
    <3>1. /\ srv \in {"reading", "dispatch"}
          /\ UNCHANGED <<alive, client, asked, reply, backlog, conn>>
      BY <2>6, Zenon DEF Read_nothing, Ignore, Serve
    <3>2. c # conn
      <4>1. CASE Read_nothing
        BY <2>2, <3>1, <4>1 DEF Read_nothing
      <4>2. CASE Ignore
        <5>1. srv = "dispatch" /\ Spelled = {}
          BY <4>2, Zenon DEF Ignore, Serve
        <5>2. asked[conn] \in Typed
          BY <5>1 DEF Buffered, BufferOf
        <5>3. asked[conn] \notin Commands
          BY <5>1, CommandSpelled
        <5> QED BY <2>2, <3>1, <5>2, <5>3, TypedFacts
      <4> QED BY <2>6, <4>1, <4>2
    <3>3. ~Attended(c)
      BY <3>2 DEF Attended
    <3>4. InLine(c) => InLine(c)'
      BY <3>1 DEF InLine
    <3> QED BY <2>2, <3>1, <3>3, <3>4, KeptFrame
  <2>7. CASE Send_error \/ Send_data
    <3>1. srv = "asking" /\ UNCHANGED <<alive, client, asked, backlog, conn>>
      BY <2>7, Zenon DEF Send_error, Send_data, Serve
    <3>2. c # conn /\ reply'[c] = reply[c]
      <4>1. CASE Send_error
        <5>1. reply' = [reply EXCEPT ![conn] = ErrorReply]
          BY <4>1, Zenon DEF Send_error
        <5>2. reply'[c] = IF c = conn THEN ErrorReply ELSE reply[c]
          BY <2>1, <5>1, ExceptElsewhere
        <5> QED BY <2>2, <5>2 DEF ErrorReply, NoReply
      <4>2. CASE Send_data
        <5>1. /\ \A d \in Clients : d # conn => reply'[d] = reply[d]
              /\ \E w \in Spelled : FromSensor(conn, w)'
          BY <2>1, <3>1, <4>2, FillTyped DEF Send_data, Inv
        <5>2. reply'[conn].label \in {"C", "K", "F", "L"}
          BY <3>1, <5>1, CommandFacts DEF FromSensor, Spelled
        <5> QED BY <2>2, <5>1, <5>2 DEF NoReply
      <4> QED BY <2>7, <4>1, <4>2
    <3>3. ~Attended(c)
      BY <3>2 DEF Attended
    <3>4. InLine(c) => InLine(c)'
      BY <3>1 DEF InLine
    <3> QED BY <2>2, <3>1, <3>2, <3>3, <3>4, KeptFrame
  <2>8. ASSUME NEW t \in Handlers, Handler_starts(t) \/ Handler_works(t)
        PROVE  UNCHANGED <<alive, client, asked, reply, backlog, conn, srv>>
    BY <2>8, Zenon DEF Handler_starts, Handler_works
  <2>9. CASE Exit_requested \/ Monitor_ends \/ UNCHANGED vars
    <3>1. UNCHANGED <<alive, client, asked, reply, backlog, conn, srv>> \/ ~alive'
      BY <2>9, Zenon DEF Exit_requested, Monitor_ends, Exit, vars
    <3> QED BY <2>2, <2>3, <3>1
  <2>10. ASSUME NEW d \in Clients, Connect(d) PROVE InLine(c)' \/ Attended(c)'
    <3>1. /\ client' = [client EXCEPT ![d] = "prompt"] /\ backlog' = Append(backlog, d)
          /\ UNCHANGED <<alive, asked, reply, conn, srv>>
      BY <2>10, Zenon DEF Connect, Client_at
    <3>2. /\ Len(backlog') = Len(backlog) + 1 /\ Len(backlog) \in Nat
          /\ backlog'[Len(backlog) + 1] = d
          /\ \A i \in 1..Len(backlog) : backlog'[i] = backlog[i] /\ i \in 1..Len(backlog')
      BY <2>1, <3>1, SMT
    <3>3. CASE c = d
      <4>1. Len(backlog) + 1 \in 1..Len(backlog')
        BY <3>2, SMT
      <4> QED BY <3>2, <3>3, <4>1 DEF InLine
    <3>4. CASE c # d
      <4>1. client'[c] = client[c]
        BY <2>1, <3>1, <3>4, ExceptElsewhere
      <4>2. InLine(c) => InLine(c)'
        BY <3>2 DEF InLine
      <4>3. Attended(c) => Attended(c)'
        BY <3>1 DEF Attended
      <4> QED BY <2>2, <3>1, <4>1, <4>2, <4>3, KeptFrame
    <3> QED BY <3>3, <3>4
  <2>11. ASSUME NEW d \in Clients, Client_types(d) \/ Client_runs(d), ~Connect(d)
         PROVE  InLine(c)' \/ Attended(c)'
    <3>1. UNCHANGED <<alive, reply, backlog, conn, srv>>
      BY <2>11, Zenon DEF Client_types, Client_runs, Connect_refused, Give_up, Send, Receive,
         Receive_end
    <3>2. InLine(c) => InLine(c)'
      BY <3>1 DEF InLine
    <3>3. Attended(c) => Attended(c)'
      BY <3>1 DEF Attended
    <3>4. CASE asked' = asked /\ client' = [client EXCEPT ![d] = "gone"]
      <4>1. client'[c] = IF c = d THEN "gone" ELSE client[c]
        BY <2>1, <3>4, ExceptElsewhere
      <4>2. client'[c] = client[c]
        BY <2>2, <4>1
      <4> QED BY <2>2, <3>1, <3>2, <3>3, <3>4, <4>2, KeptFrame
    <3>5. CASE \E w \in Typed : Send(d, w)
      <4>1. PICK w \in Typed : /\ client[d] = "prompt" /\ client' = [client EXCEPT ![d] = "waiting"]
                               /\ asked' = [asked EXCEPT ![d] = w]
        BY <3>5, Zenon DEF Send, Client_at
      <4>2. /\ client'[c] = IF c = d THEN "waiting" ELSE client[c]
            /\ asked'[c] = IF c = d THEN w ELSE asked[c]
        BY <2>1, <4>1, ExceptElsewhere
      <4>3. c = d => client[c] = "prompt" /\ asked[c] = << >>
        BY <4>1 DEF Buffered, SentOnce
      <4>4. client[c] \in {"prompt", "waiting"} /\ asked[c] \in Commands \cup {<< >>}
        BY <2>2, <4>2, <4>3
      <4> QED BY <2>2, <3>1, <3>2, <3>3, <4>4, KeptFrame
    <3> QED
      BY <2>11, <3>4, <3>5, Zenon DEF Client_types, Client_runs, Connect_refused, Give_up,
         Receive, Receive_end, Client_at
  <2> QED BY <2>3, <2>4, <2>5, <2>6, <2>7, <2>8, <2>9, <2>10, <2>11 DEF Next, Socket_thread
<1> QED BY <1>1, <1>2, InvHolds, BufferedHolds, PTL DEF Spec

(* Whoever came in between and whatever the buffer held, a command waits until *)
(* it is served.                                                               *)
THEOREM CommandsNotDropped == Spec => []CommandsKept
<1>1. Kept => CommandsKept
  BY Zenon DEF Kept, CommandsKept, Unanswered, InLine, Attended
<1> QED BY <1>1, KeptHolds, PTL
-----------------------------------------------------------------------------
(* A connection is served once: it comes off the backlog, where it stands once *)
(* and unanswered, and is never taken up again.                                *)
Queued ==
    /\ \A i \in 1..Len(backlog) : backlog[i] \notin open /\ client[backlog[i]] # "off"
    /\ \A i, j \in 1..Len(backlog) : backlog[i] = backlog[j] => i = j
Seen == \A d \in open : client[d] # "off"
AnsweredOpen == \A c \in Clients : reply[c] # NoReply => c \in open
FirstAnswer == srv \in {"reading", "dispatch", "asking"} => reply[conn] = NoReply

ServedOnce == Queued /\ Seen /\ AnsweredOpen /\ FirstAnswer

(* A step that answers nobody and takes up no connection. *)
LEMMA ServedFrame ==
    ASSUME Inv, ServedOnce, UNCHANGED <<backlog, reply, open, conn>>,
           srv' \in {"reading", "dispatch", "asking"} => srv \in {"reading", "dispatch", "asking"},
           \A c \in Clients : client'[c] = "off" => client[c] = "off"
    PROVE  ServedOnce'
<1>1. backlog \in Seq(Clients) /\ open \in SUBSET Clients
  BY Zenon DEF Inv, TypeOK
<1>2. \A i \in 1..Len(backlog) : backlog[i] \in Clients
  BY <1>1
<1>3. Queued'
  BY <1>2 DEF ServedOnce, Queued
<1>4. Seen' /\ AnsweredOpen' /\ FirstAnswer'
  BY <1>1 DEF ServedOnce, Seen, AnsweredOpen, FirstAnswer
<1> QED BY <1>3, <1>4 DEF ServedOnce

LEMMA ServedOnceHolds == Spec => []ServedOnce
<1>1. Init => ServedOnce
  <2> SUFFICES ASSUME Init PROVE ServedOnce
    OBVIOUS
  <2>1. backlog = << >> /\ open = {} /\ srv = "start" /\ reply = [c \in Clients |-> NoReply]
    BY Zenon DEF Init
  <2> QED BY <2>1 DEF ServedOnce, Queued, Seen, AnsweredOpen, FirstAnswer
<1>2. Inv /\ ServedOnce /\ [Next]_vars => ServedOnce'
  <2> SUFFICES ASSUME Inv, ServedOnce, [Next]_vars PROVE ServedOnce'
    OBVIOUS
  <2> USE DEF serverVars, clientVars, callVars
  <2>1. /\ backlog \in Seq(Clients) /\ open \in SUBSET Clients
        /\ reply \in [Clients -> Replies]
        /\ client \in [Clients -> {"off", "prompt", "waiting", "gone"}]
        /\ srv \in {"reading", "dispatch", "asking"} => conn \in open
    BY Zenon DEF Inv, TypeOK, Accounts, Serving
  <2>2. CASE UNCHANGED <<backlog, reply, open, conn, client>>
              /\ (srv' = srv \/ srv' \in {"top", "accepting", "ended"} \/ srv \in {"reading", "dispatch"})
    BY <2>2, ServedFrame
  <2>3. CASE Start \/ Call_accept \/ Loop_ends \/ Ignore \/ Read_some \/ Dispatch \/ Read_sensor
    <3>1. /\ UNCHANGED <<backlog, reply, open, client, conn>>
          /\ srv' = srv \/ srv' \in {"top", "accepting", "ended"} \/ srv \in {"reading", "dispatch"}
      BY <2>3, Zenon DEF Start, Call_accept, Loop_ends, Ignore, Read_some, Dispatch, Read_sensor,
         Serve, Exit
    <3> QED BY <2>2, <3>1
  <2>4. CASE Accept
    <3>1. /\ srv' = "reading" /\ backlog # << >> /\ backlog' = Tail(backlog)
          /\ conn' = Head(backlog) /\ open' = open \cup {Head(backlog)}
          /\ UNCHANGED <<reply, client>>
      BY <2>4, Zenon DEF Accept, Serve
    <3>2. /\ Len(backlog) \in Nat \ {0} /\ Head(backlog) = backlog[1] /\ backlog[1] \in Clients
          /\ Len(backlog') = Len(backlog) - 1
          /\ \A i \in 1..Len(backlog') : i + 1 \in 1..Len(backlog) /\ backlog'[i] = backlog[i + 1]
      BY <2>1, <3>1, SMT
    <3>3. Queued'
      <4>1. ASSUME NEW i \in 1..Len(backlog')
            PROVE  backlog'[i] \notin open' /\ client'[backlog'[i]] # "off"
        <5>1. i + 1 # 1 /\ 1 \in 1..Len(backlog)
          BY <3>2, SMT
        <5>2. backlog[i + 1] # backlog[1]
          BY <3>2, <5>1 DEF ServedOnce, Queued
        <5> QED BY <3>1, <3>2, <5>2 DEF ServedOnce, Queued
      <4>2. ASSUME NEW i \in 1..Len(backlog'), NEW j \in 1..Len(backlog'), backlog'[i] = backlog'[j]
            PROVE  i = j
        <5>1. i + 1 = j + 1
          BY <3>2, <4>2 DEF ServedOnce, Queued
        <5> QED BY <5>1, <3>2, SMT
      <4> QED BY <4>1, <4>2 DEF Queued
    <3>4. backlog[1] \notin open /\ client[backlog[1]] # "off"
      <4>1. 1 \in 1..Len(backlog)
        BY <3>2, SMT
      <4> QED BY <4>1 DEF ServedOnce, Queued
    <3>5. Seen' /\ AnsweredOpen' /\ FirstAnswer'
      BY <3>1, <3>2, <3>4 DEF ServedOnce, Seen, AnsweredOpen, FirstAnswer
    <3> QED BY <3>3, <3>5 DEF ServedOnce
  <2>5. CASE Read_nothing
    <3>1. /\ srv = "reading" /\ srv' = "top" /\ open' = open \ {conn}
          /\ UNCHANGED <<backlog, reply, client, conn>>
      BY <2>5, Zenon DEF Read_nothing, Serve
    <3> QED BY <3>1 DEF ServedOnce, Queued, Seen, AnsweredOpen, FirstAnswer
  <2>6. CASE Send_error \/ Send_data
    <3>1. /\ srv = "asking" /\ srv' = "top" /\ conn \in open
          /\ UNCHANGED <<backlog, open, client, conn>>
      BY <2>1, <2>6, Zenon DEF Send_error, Send_data, Serve
    <3>2. \A c \in Clients : c # conn => reply'[c] = reply[c]
      <4>1. CASE Send_error
        <5>1. reply' = [reply EXCEPT ![conn] = ErrorReply]
          BY <4>1, Zenon DEF Send_error
        <5> QED BY <2>1, <5>1, ExceptElsewhere
      <4>2. CASE Send_data
        BY <2>1, <3>1, <4>2, FillTyped DEF Send_data, Inv
      <4> QED BY <2>6, <4>1, <4>2
    <3> QED BY <3>1, <3>2 DEF ServedOnce, Queued, Seen, AnsweredOpen, FirstAnswer
  <2>7. ASSUME NEW t \in Handlers, Handler_starts(t) \/ Handler_works(t)
        PROVE  UNCHANGED <<backlog, reply, open, conn, client, srv>>
    BY <2>7, Zenon DEF Handler_starts, Handler_works
  <2>8. CASE Exit_requested \/ Monitor_ends \/ UNCHANGED vars
    <3>1. UNCHANGED <<backlog, reply, open, conn, client, srv>>
      BY <2>8, Zenon DEF Exit_requested, Monitor_ends, Exit, vars
    <3> QED BY <2>2, <3>1
  <2>9. ASSUME NEW c \in Clients, Connect(c) PROVE ServedOnce'
    <3>1. /\ client[c] = "off" /\ client' = [client EXCEPT ![c] = "prompt"]
          /\ backlog' = Append(backlog, c) /\ UNCHANGED <<reply, open, conn, srv>>
      BY <2>9, Zenon DEF Connect, Client_at
    <3>2. \A d \in Clients : client'[d] = IF d = c THEN "prompt" ELSE client[d]
      BY <2>1, <3>1, ExceptElsewhere
    <3>3. /\ Len(backlog) \in Nat /\ Len(backlog') = Len(backlog) + 1
          /\ backlog'[Len(backlog) + 1] = c
          /\ \A i \in 1..Len(backlog) : backlog'[i] = backlog[i] /\ backlog[i] \in Clients
      BY <2>1, <3>1, SMT
    <3>4. \A i \in 1..Len(backlog') : i \in 1..Len(backlog) \/ i = Len(backlog) + 1
      BY <3>3, SMT
    <3>5. c \notin open /\ \A i \in 1..Len(backlog) : backlog[i] # c
      BY <3>1 DEF ServedOnce, Queued, Seen
    <3>6. Queued'
      BY <3>1, <3>2, <3>3, <3>4, <3>5 DEF ServedOnce, Queued
    <3>7. Seen' /\ AnsweredOpen' /\ FirstAnswer'
      BY <2>1, <3>1, <3>2 DEF ServedOnce, Seen, AnsweredOpen, FirstAnswer
    <3> QED BY <3>6, <3>7 DEF ServedOnce
  <2>10. ASSUME NEW c \in Clients, Client_types(c) \/ Client_runs(c), ~Connect(c) PROVE ServedOnce'
    <3>1. /\ UNCHANGED <<backlog, reply, open, conn, srv>>
          /\ \E x \in {"waiting", "gone"} : client' = [client EXCEPT ![c] = x]
      BY <2>10, Zenon DEF Client_types, Client_runs, Connect_refused, Give_up, Send, Receive,
         Receive_end, Client_at
    <3>2. PICK x \in {"waiting", "gone"} : client' = [client EXCEPT ![c] = x]
      BY <3>1
    <3>3. \A d \in Clients : client'[d] = IF d = c THEN x ELSE client[d]
      BY <2>1, <3>2, ExceptElsewhere
    <3> QED BY <3>1, <3>3, ServedFrame
  <2> QED BY <2>2, <2>3, <2>4, <2>5, <2>6, <2>7, <2>8, <2>9, <2>10 DEF Next, Socket_thread
<1> QED BY <1>1, <1>2, InvHolds, PTL DEF Spec

(* What a client prints was sent to it, or the monitor ended while it waited.  *)
THEOREM ClientsToldTruly == Spec => []ClientTold
<1>1. Init => ClientTold
  <2> SUFFICES ASSUME Init, NEW c \in Clients PROVE shown[c] = "nothing"
    BY DEF ClientTold
  <2>1. shown = [d \in Clients |-> "nothing"]
    BY Zenon DEF Init
  <2> QED BY <2>1
<1>2. Inv /\ ServedOnce /\ ClientTold /\ [Next]_vars => ClientTold'
  <2> SUFFICES ASSUME Inv, ServedOnce, ClientTold, [Next]_vars, NEW c \in Clients,
                      shown'[c] # "nothing"
               PROVE  shown'[c] = reply'[c].level \/ (reply'[c] = NoReply /\ ~alive')
    BY DEF ClientTold
  <2> USE DEF serverVars, clientVars, callVars
  <2>1. /\ reply \in [Clients -> Replies]
        /\ shown \in [Clients -> {"nothing", "DATA", "ERROR"}]
        /\ open \in SUBSET Clients
        /\ srv \in {"reading", "dispatch", "asking"} => conn \in open
    BY Zenon DEF Inv, TypeOK, Accounts, Serving
  <2>2. CASE shown'[c] = shown[c] /\ reply'[c] = reply[c] /\ (alive' = alive \/ ~alive')
    BY <2>2 DEF ClientTold
  <2>3. CASE Send_error \/ Send_data
    <3>1. alive /\ alive' = alive /\ srv = "asking" /\ shown' = shown
      BY <2>3, Zenon DEF Send_error, Send_data, Serve
    <3>2. c # conn
      <4> SUFFICES ASSUME c = conn PROVE FALSE
        OBVIOUS
      <4>1. reply[c] = NoReply
        BY <3>1 DEF ServedOnce, FirstAnswer
      <4>2. shown[c] = "none"
        BY <3>1, <4>1 DEF ClientTold, NoReply
      <4> QED BY <2>1, <4>2
    <3>3. reply'[c] = reply[c]
      <4>1. CASE Send_error
        <5>1. reply' = [reply EXCEPT ![conn] = ErrorReply]
          BY <4>1, Zenon DEF Send_error
        <5> QED BY <2>1, <3>2, <5>1, ExceptElsewhere
      <4>2. CASE Send_data
        BY <2>1, <3>1, <3>2, <4>2, FillTyped DEF Send_data, Inv
      <4> QED BY <2>3, <4>1, <4>2
    <3> QED BY <2>2, <3>1, <3>3
  <2>4. CASE Socket_thread /\ ~Send_error /\ ~Send_data
    <3>1. shown' = shown /\ reply' = reply /\ (alive' = alive \/ ~alive')
      BY <2>4, Zenon DEF Socket_thread, Start, Call_accept, Loop_ends, Accept, Read_some,
         Read_nothing, Dispatch, Ignore, Read_sensor, Exit
    <3> QED BY <2>2, <3>1
  <2>5. ASSUME NEW t \in Handlers, Handler_starts(t) \/ Handler_works(t)
        PROVE  UNCHANGED <<alive, reply, shown>>
    BY <2>5, Zenon DEF Handler_starts, Handler_works
  <2>6. CASE Exit_requested \/ Monitor_ends \/ UNCHANGED vars
    <3>1. shown' = shown /\ reply' = reply /\ (alive' = alive \/ ~alive')
      BY <2>6, Zenon DEF Exit_requested, Monitor_ends, Exit, vars
    <3> QED BY <2>2, <3>1
  <2>7. ASSUME NEW d \in Clients, Client_types(d) PROVE UNCHANGED <<alive, reply, shown>>
    BY <2>7, Zenon DEF Client_types, Connect, Connect_refused, Give_up, Send
  <2>8. ASSUME NEW d \in Clients, Client_runs(d)
        PROVE  shown'[c] = reply'[c].level \/ (reply'[c] = NoReply /\ ~alive')
    <3>1. UNCHANGED <<alive, reply>>
      BY <2>8, Zenon DEF Client_runs, Receive, Receive_end
    <3>2. CASE d # c
      <4>1. \E x : shown' = [shown EXCEPT ![d] = x]
        BY <2>8, Zenon DEF Client_runs, Receive, Receive_end
      <4>2. shown'[c] = shown[c]
        BY <2>1, <3>2, <4>1, ExceptElsewhere
      <4> QED BY <2>2, <3>1, <4>2
    <3>3. CASE d = c
      <4>1. CASE Receive(c)
        <5>1. shown' = [shown EXCEPT ![c] = reply[c].level]
          BY <4>1, Zenon DEF Receive
        <5> QED BY <2>1, <3>1, <5>1, ExceptElsewhere
      <4>2. CASE Receive_end(c)
        BY <3>1, <4>2 DEF Receive_end
      <4> QED BY <2>8, <3>3, <4>1, <4>2 DEF Client_runs
    <3> QED BY <3>2, <3>3
  <2> QED BY <2>2, <2>3, <2>4, <2>5, <2>6, <2>7, <2>8 DEF Next
<1> QED BY <1>1, <1>2, InvHolds, ServedOnceHolds, PTL DEF Spec
=============================================================================
