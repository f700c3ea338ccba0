-------------------------- MODULE ButtonReaderProofs --------------------------
(***************************************************************************)
(* The reader of the button for every clock width, click limit and loop      *)
(* period: it implements the protocol of Gesture whatever the contact does,   *)
(* and reports every press of a steady contact, for what it was.              *)
(***************************************************************************)
EXTENDS ButtonReader, TLAPS

Readings == 0 .. ClockWidth - 1

(* What ties the reader's memory to the time that has really passed: the
   difference of the readings is the age of the press, and a hold has only been
   reported of a press older than the limit. *)
IInv ==
  /\ millis \in Readings /\ downTime \in Readings
  /\ lastState \in {0, 1}
  /\ age \in 0 .. LongestPress
  /\ lastState = 1 => Elapsed(millis, downTime) = age
  /\ report = Hold => lastState = 1 /\ age > ClickLimit

(* The four reports are distinguished by the fields the door reads. *)
LEMMA ReportsDiffer ==
  NoReport # Hold /\ NoReport # Click /\ Click # Hold /\ HoldEnd # Hold
<1>1. /\ NoReport.ButtonHold = FALSE /\ NoReport.ButtonClicked = FALSE
      /\ Click.ButtonHold = FALSE /\ Click.ButtonClicked = TRUE
      /\ Hold.ButtonHold = TRUE /\ Hold.ButtonReleased = FALSE
      /\ HoldEnd.ButtonReleased = TRUE
  BY DEF NoReport, Click, Hold, HoldEnd, Report
<1> QED
  BY <1>1

(* The protocol's reports are the reader's. *)
LEMMA SameReports ==
  /\ Protocol!NoReport = NoReport /\ Protocol!Click = Click
  /\ Protocol!Hold = Hold /\ Protocol!HoldEnd = HoldEnd
  BY DEF Protocol!NoReport, Protocol!Click, Protocol!Hold, Protocol!HoldEnd,
         Protocol!Report, NoReport, Click, Hold, HoldEnd, Report

(* The unsigned difference of two readings, and how it grows with a tick. *)
LEMMA ElapsedValue ==
  ASSUME NEW a \in Readings, NEW b \in Readings
  PROVE  Elapsed(a, b) = IF a >= b THEN a - b ELSE a - b + ClockWidth
  BY ButtonAssumption DEF Elapsed, Readings

(* The next reading of the clock, in range. *)
LEMMA NextReading ==
  ASSUME NEW a \in Readings
  PROVE  /\ (a + 1) % ClockWidth = IF a = ClockWidth - 1 THEN 0 ELSE a + 1
         /\ (a + 1) % ClockWidth \in Readings
  BY ButtonAssumption DEF Readings

(* A tick adds one to the difference of two readings, also when the clock wraps. *)
LEMMA ElapsedTick ==
  ASSUME NEW a \in Readings, NEW b \in Readings, NEW n \in Nat,
         Elapsed(a, b) = n, n < LongestPress
  PROVE  Elapsed((a + 1) % ClockWidth, b) = n + 1
<1> DEFINE c == (a + 1) % ClockWidth
<1>1. c = IF a = ClockWidth - 1 THEN 0 ELSE a + 1
  BY NextReading
<1>2. c \in Readings
  BY NextReading
<1>3. n = IF a >= b THEN a - b ELSE a - b + ClockWidth
  BY ElapsedValue
<1> HIDE DEF c
<1>4. Elapsed(c, b) = IF c >= b THEN c - b ELSE c - b + ClockWidth
  BY <1>2, ElapsedValue
<1>5. Elapsed(c, b) = n + 1
  BY <1>1, <1>3, <1>4, ButtonAssumption DEF Readings
<1> QED
  BY <1>5 DEF c

(* The invariant holds at the start. *)
LEMMA InitIInv == Init => IInv
  BY ReportsDiffer, ButtonAssumption DEF Init, IInv, Readings

(* Every call keeps the invariant. *)
LEMMA ReadIInv ==
  ASSUME IInv, ReadState
  PROVE  IInv'
<1> USE DEF IInv
<1>1. millis' = millis
  BY DEF ReadState, env
<1>2. CASE ReadDown
  <2>1. Elapsed(millis, millis) = 0
    BY ElapsedValue DEF Readings
  <2> QED
    BY <1>1, <1>2, <2>1, ReportsDiffer, ButtonAssumption DEF ReadDown
<1>3. CASE ReadHeld
  BY <1>1, <1>3, ReportsDiffer DEF ReadHeld
<1>4. CASE ReadUp
  BY <1>1, <1>4, ReportsDiffer DEF ReadUp
<1>5. CASE ReadIdle
  BY <1>1, <1>5, ReportsDiffer DEF ReadIdle
<1> QED
  BY <1>2, <1>3, <1>4, <1>5 DEF ReadState

(* Every step keeps the invariant. *)
LEMMA NextIInv == IInv /\ [Next]_vars => IInv'
<1> SUFFICES ASSUME IInv, [Next]_vars PROVE IInv'
  OBVIOUS
<1>1. CASE UNCHANGED vars
  BY <1>1 DEF vars, env, IInv
<1>2. CASE ReadState
  BY <1>2, ReadIInv
<1>3. CASE Toggle
  BY <1>3 DEF Toggle, IInv
<1>4. CASE Tick
  <2>1. /\ millis' = (millis + 1) % ClockWidth
        /\ age' = IF lastState = 1 THEN age + 1 ELSE age
        /\ lastState' = lastState /\ downTime' = downTime /\ report' = report
        /\ lastState = 1 => age < LongestPress
    BY <1>4 DEF Tick
  <2>2. millis' \in Readings
    BY <2>1, NextReading DEF IInv
  <2>3. age' \in 0 .. LongestPress
    BY <2>1, ButtonAssumption DEF IInv
  <2>4. ASSUME lastState' = 1 PROVE Elapsed(millis', downTime') = age'
    <3>1. /\ millis \in Readings /\ downTime \in Readings /\ age \in Nat
          /\ Elapsed(millis, downTime) = age /\ age < LongestPress
      BY <2>1, <2>4, ButtonAssumption DEF IInv
    <3>2. Elapsed((millis + 1) % ClockWidth, downTime) = age + 1
      BY <3>1, ElapsedTick
    <3> QED
      BY <2>1, <2>4, <3>2
  <2>5. ASSUME report' = Hold PROVE lastState' = 1 /\ age' > ClickLimit
    BY <2>1, <2>5, ButtonAssumption DEF IInv
  <2> QED
    BY <2>1, <2>2, <2>3, <2>4, <2>5 DEF IInv
<1> QED
  BY <1>1, <1>2, <1>3, <1>4 DEF Next

(* Every call is a step of the protocol. *)
LEMMA ReadProtocol ==
  ASSUME IInv, ReadState
  PROVE  [Protocol!Next]_(Protocol!vars)
<1> SUFFICES Protocol!Next
  OBVIOUS
<1> USE ReportsDiffer, SameReports
<1>1. CASE ReadDown
  <2>1. Phase = "up" /\ Phase' = "down" /\ report' = NoReport
    BY <1>1 DEF ReadDown, Phase
  <2> QED BY <2>1 DEF Protocol!Next, Protocol!Press
<1>2. CASE ReadHeld
  <2>1. lastState = 1 /\ lastState' = 1 /\ report' \in {Hold, NoReport}
    BY <1>2 DEF ReadHeld
  <2>2. CASE report' = Hold
    <3>1. Phase \in {"down", "held"} /\ Phase' = "held"
      BY <2>1, <2>2 DEF Phase
    <3> QED BY <2>2, <3>1 DEF Protocol!Next, Protocol!HoldOn
  <2>3. CASE report' = NoReport
    <3>1. ~(Elapsed(millis, downTime) > ClickLimit)
      BY <1>2, <2>3 DEF ReadHeld
    <3>2. report # Hold
      BY <2>1, <3>1 DEF IInv
    <3>3. Phase = "down" /\ Phase' = "down"
      BY <2>1, <2>3, <3>2 DEF Phase
    <3> QED BY <2>3, <3>3 DEF Protocol!Next, Protocol!Wait
  <2> QED BY <2>1, <2>2, <2>3
<1>3. CASE ReadUp
  <2>1. lastState = 1 /\ lastState' = 0 /\ report' \in {Click, HoldEnd}
    BY <1>3 DEF ReadUp
  <2>2. CASE report' = HoldEnd
    <3>1. Phase \in {"down", "held"} /\ Phase' = "up"
      BY <2>1 DEF Phase
    <3> QED BY <2>2, <3>1 DEF Protocol!Next, Protocol!EndHold
  <2>3. CASE report' = Click
    <3>1. Elapsed(millis, downTime) < ClickLimit
      <4>1. Click # HoldEnd
        BY DEF Click, HoldEnd, Report
      <4> QED BY <1>3, <2>3, <4>1 DEF ReadUp
    <3>2. report # Hold
      <4>1. age < ClickLimit
        BY <2>1, <3>1 DEF IInv
      <4> QED BY <4>1, ButtonAssumption DEF IInv
    <3>3. Phase = "down" /\ Phase' = "up"
      BY <2>1, <3>2 DEF Phase
    <3> QED BY <2>3, <3>3 DEF Protocol!Next, Protocol!EndClick
  <2> QED BY <2>1, <2>2, <2>3
<1>4. CASE ReadIdle
  <2>1. Phase = "up" /\ Phase' = "up" /\ report' = NoReport
    BY <1>4 DEF ReadIdle, Phase
  <2> QED BY <2>1 DEF Protocol!Next, Protocol!Idle
<1> QED
  BY <1>1, <1>2, <1>3, <1>4 DEF ReadState

(* Every step is a step of the protocol or leaves it as it is. *)
LEMMA StepProtocol == IInv /\ [Next]_vars => [Protocol!Next]_(Protocol!vars)
<1> SUFFICES ASSUME IInv, [Next]_vars PROVE [Protocol!Next]_(Protocol!vars)
  OBVIOUS
<1>1. CASE ReadState
  BY <1>1, ReadProtocol
<1>2. CASE Toggle \/ Tick \/ UNCHANGED vars
  <2>1. lastState' = lastState /\ report' = report
    BY <1>2 DEF Toggle, Tick, vars
  <2>2. Phase' = Phase
    BY <2>1 DEF Phase
  <2> QED
    BY <2>1, <2>2 DEF Protocol!vars
<1> QED
  BY <1>1, <1>2 DEF Next

(* However the contact bounces and wherever in a press the clock wraps, the
   reports keep to the protocol: no hold is interrupted or ends in a click. *)
THEOREM GestureImplemented == Spec => GestureSpec
<1>1. Init => Protocol!Init
  BY SameReports DEF Init, Protocol!Init, Phase
<1> QED
  BY <1>1, InitIInv, NextIInv, StepProtocol, PTL DEF Spec, GestureSpec, Protocol!Spec

-----------------------------------------------------------------------------
(* How the reader's memory of a press relates to the contact, whatever that does:
   an unseen press is no older than the last call, a seen one was seen within a
   loop, and no hold is missed at a call after the limit. *)
PressInv ==
  /\ contact = HIGH /\ lastState = 0 => stableFor <= sinceCall
  /\ contact = HIGH /\ lastState = 1 => stableFor <= age + LoopPeriod
  /\ lastState = 1 /\ report # Hold => age <= ClickLimit + sinceCall

(* With a steady contact the reader is at most one move of it behind, so what it
   times is the press that is owed. *)
SteadyInv ==
  /\ owed = IF steady /\ contact = LOW /\ lastState = 1 THEN 1 ELSE 0
  /\ steady /\ contact # lastState => stableFor <= sinceCall
  /\ steady /\ contact = HIGH /\ lastState = 1 => age <= stableFor
  /\ steady /\ contact = LOW /\ lastState = 1 =>
       pressLength <= age + LoopPeriod /\ age <= pressLength + sinceCall

Inv == TypeOK /\ IInv /\ PressInv

LEMMA InitInv == Init => Inv /\ SteadyInv
<1> SUFFICES ASSUME Init PROVE Inv /\ SteadyInv
  OBVIOUS
<1>1. TypeOK
  BY ButtonAssumption DEF Init, TypeOK, Reports, LOW, HIGH
<1>2. PressInv /\ SteadyInv
  BY DEF Init, PressInv, SteadyInv, LOW, HIGH
<1> QED
  BY <1>1, <1>2, InitIInv DEF Inv

(* Every call keeps the invariant. *)
LEMMA ReadInv ==
  ASSUME Inv, ReadState
  PROVE  Inv'
<1>1. IInv'
  BY ReadIInv DEF Inv
<1>2. /\ UNCHANGED <<millis, contact, steady, stableFor, pressLength>> /\ sinceCall' = 0
  BY DEF ReadState, env
<1>3. /\ contact \in {0, 1} /\ lastState \in {0, 1} /\ age \in Nat
      /\ stableFor \in Nat /\ sinceCall \in 0 .. LoopPeriod
      /\ (lastState = 1 => Elapsed(millis, downTime) = age)
  BY ButtonAssumption DEF Inv, TypeOK, IInv, LOW, HIGH
<1>4. TypeOK'
  <2>1. report' \in Reports
    BY DEF ReadState, ReadDown, ReadHeld, ReadUp, ReadIdle, Reports
  <2>2. lastState' \in {0, 1} /\ downTime' \in Readings /\ age' \in 0 .. LongestPress
    BY <1>1 DEF IInv
  <2> QED BY <1>2, <2>1, <2>2, ButtonAssumption DEF Inv, TypeOK, Readings
<1>5. PressInv'
  <2> USE <1>2, <1>3, ButtonAssumption DEF Inv, PressInv, LOW, HIGH
  <2>1. CASE ReadDown
    BY <2>1 DEF ReadDown
  <2>2. CASE ReadHeld
    BY <2>2, ReportsDiffer DEF ReadHeld
  <2>3. CASE ReadUp
    BY <2>3 DEF ReadUp
  <2>4. CASE ReadIdle
    BY <2>4 DEF ReadIdle
  <2> QED BY <2>1, <2>2, <2>3, <2>4 DEF ReadState
<1> QED
  BY <1>1, <1>4, <1>5 DEF Inv

(* The contact may move at any time. *)
LEMMA ToggleInv ==
  ASSUME Inv, Toggle
  PROVE  Inv'
<1>1. IInv'
  BY NextIInv DEF Next, Inv
<1>2. /\ contact' = 1 - contact /\ stableFor' = 0
      /\ steady' = (steady /\ stableFor >= MinStable)
      /\ UNCHANGED <<millis, sinceCall, age, lastState, downTime, report>>
  BY DEF Toggle
<1>3. pressLength' \in {0, stableFor, pressLength}
  BY DEF Toggle, Inv, TypeOK
<1>4. TypeOK'
  <2>1. pressLength' \in 0 .. LongestPress /\ stableFor' \in 0 .. LongestPress
    BY <1>2, <1>3, ButtonAssumption DEF Inv, TypeOK
  <2>2. contact' \in {LOW, HIGH} /\ steady' \in BOOLEAN
    BY <1>2 DEF Inv, TypeOK, LOW, HIGH
  <2> QED BY <1>2, <2>1, <2>2 DEF Inv, TypeOK
<1>5. PressInv'
  BY <1>2, ButtonAssumption DEF Inv, TypeOK, PressInv, LOW, HIGH
<1> QED
  BY <1>1, <1>4, <1>5 DEF Inv

LEMMA TickInv ==
  ASSUME Inv, Tick
  PROVE  Inv'
<1>1. IInv'
  BY NextIInv DEF Next, Inv
<1>2. /\ sinceCall < LoopPeriod /\ sinceCall' = sinceCall + 1
      /\ age' = IF lastState = 1 THEN age + 1 ELSE age
      /\ stableFor' \in {stableFor, stableFor + 1}
      /\ stableFor' \in 0 .. LongestPress
      /\ UNCHANGED <<contact, steady, pressLength, lastState, downTime, report, owed>>
  BY ButtonAssumption DEF Tick, Inv, TypeOK
<1>3. TypeOK'
  <2>1. sinceCall' \in 0 .. LoopPeriod
    BY <1>2, ButtonAssumption DEF Inv, TypeOK
  <2> QED BY <1>1, <1>2, <2>1 DEF Inv, TypeOK, IInv, Readings
<1>4. PressInv'
  BY <1>2, ButtonAssumption DEF Inv, TypeOK, PressInv, LOW, HIGH
<1> QED
  BY <1>1, <1>3, <1>4 DEF Inv

LEMMA NextInv == Inv /\ [Next]_vars => Inv'
<1>1. Inv /\ UNCHANGED vars => Inv'
  BY DEF Inv, TypeOK, IInv, PressInv, vars, env
<1> QED
  BY <1>1, ReadInv, ToggleInv, TickInv DEF Next

(* With a contact that keeps still for longer than a loop, a call comes between
   any two moves of it. *)
LEMMA NextSteady ==
  ASSUME MinStable > LoopPeriod, Inv, SteadyInv, [Next]_vars
  PROVE  SteadyInv'
<1> USE ButtonAssumption DEF Inv, TypeOK, LOW, HIGH
<1>1. CASE ReadState
  <2>1. UNCHANGED <<contact, steady, stableFor, pressLength>> /\ sinceCall' = 0
    BY <1>1 DEF ReadState, env
  <2>2. CASE ReadDown
    BY <2>1, <2>2 DEF ReadDown, SteadyInv
  <2>3. CASE ReadHeld
    BY <2>1, <2>3 DEF ReadHeld, SteadyInv
  <2>4. CASE ReadUp
    BY <2>1, <2>4 DEF ReadUp, SteadyInv
  <2>5. CASE ReadIdle
    BY <2>1, <2>5 DEF ReadIdle, SteadyInv
  <2> QED BY <1>1, <2>2, <2>3, <2>4, <2>5 DEF ReadState
<1>2. CASE Toggle
  <2>1. /\ contact' = 1 - contact /\ stableFor' = 0
        /\ steady' = (steady /\ stableFor >= MinStable)
        /\ UNCHANGED <<sinceCall, age, lastState>>
    BY <1>2 DEF Toggle
  <2>2. CASE ~steady'
    <3>1. owed' = 0
      BY <1>2, <2>2 DEF Toggle
    <3> QED BY <2>1, <2>2, <3>1 DEF SteadyInv
  <2>3. CASE steady'
    <3>1. steady /\ contact = lastState /\ owed = 0
      <4>1. steady /\ stableFor >= MinStable
        BY <2>1, <2>3
      <4>2. stableFor > sinceCall
        BY <4>1
      <4>3. contact = lastState
        BY <4>1, <4>2 DEF SteadyInv
      <4> QED BY <4>1, <4>3 DEF SteadyInv
    <3>2. CASE contact = HIGH
      <4>1. pressLength' = stableFor /\ owed' = 1
        BY <1>2, <2>3, <3>1, <3>2 DEF Toggle, OwedBound
      <4> QED BY <2>1, <2>3, <3>1, <3>2, <4>1 DEF SteadyInv, PressInv
    <3>3. CASE contact = LOW
      <4>1. owed' = 0
        BY <1>2, <2>3, <3>1, <3>3 DEF Toggle
      <4> QED BY <2>1, <2>3, <3>1, <3>3, <4>1 DEF SteadyInv
    <3> QED BY <3>2, <3>3
  <2> QED BY <2>2, <2>3
<1>3. CASE Tick
  <2>1. /\ sinceCall' = sinceCall + 1
        /\ contact = HIGH => stableFor < LongestPress
        /\ stableFor' = IF steady /\ stableFor < LongestPress THEN stableFor + 1 ELSE stableFor
        /\ age' = IF lastState = 1 THEN age + 1 ELSE age
        /\ UNCHANGED <<contact, steady, pressLength, lastState, owed>>
    BY <1>3 DEF Tick
  <2> QED BY <2>1 DEF SteadyInv
<1>4. CASE UNCHANGED vars
  BY <1>4 DEF vars, env, SteadyInv
<1> QED
  BY <1>1, <1>2, <1>3, <1>4 DEF Next

LEMMA Inductive == Spec => []Inv
  BY InitInv, NextInv, PTL DEF Spec

LEMMA SteadyInductive == MinStable > LoopPeriod => (Spec => []SteadyInv)
<1> SUFFICES ASSUME MinStable > LoopPeriod PROVE Spec => []SteadyInv
  OBVIOUS
<1>1. Init => SteadyInv
  BY InitInv
<1>2. Inv /\ SteadyInv /\ [Next]_vars => SteadyInv'
  BY NextSteady
<1> QED
  BY <1>1, <1>2, Inductive, PTL DEF Spec

(* The clock, the counters and the fields of the reader stay in range. *)
THEOREM ReaderTyped == Spec => []TypeOK
<1>1. Inv => TypeOK
  BY DEF Inv
<1> QED
  BY <1>1, Inductive, PTL

(* Whoever keeps pressing gets the hold within two loops over the limit, however
   the contact moved before. *)
THEOREM HoldComes == Spec => []HoldInTime
<1>1. Inv => HoldInTime
  BY ButtonAssumption DEF Inv, TypeOK, PressInv, HoldInTime, LOW, HIGH
<1> QED
  BY <1>1, Inductive, PTL

(* A contact that keeps every position for longer than a loop has each of its
   presses reported once. *)
THEOREM PressesReported == MinStable > LoopPeriod => (Spec => []EveryPressReportedOnce)
<1> SUFFICES ASSUME MinStable > LoopPeriod PROVE Spec => []EveryPressReportedOnce
  OBVIOUS
<1>1. SteadyInv => EveryPressReportedOnce
  BY DEF SteadyInv, EveryPressReportedOnce
<1> QED
  BY <1>1, SteadyInductive, PTL

(* The reports of such a contact tell the length of the press to within a loop. *)
THEOREM PressesClassified == MinStable > LoopPeriod => (Spec => ClassifiedRight)
<1> SUFFICES ASSUME MinStable > LoopPeriod PROVE Spec => ClassifiedRight
  OBVIOUS
<1>1. ASSUME Inv, SteadyInv, steady, ReadUp
      PROVE  /\ report' = Click => pressLength < ClickLimit + LoopPeriod
             /\ report' = HoldEnd => pressLength >= ClickLimit - LoopPeriod
  <2>1. /\ age \in Nat /\ pressLength \in Nat /\ sinceCall \in 0 .. LoopPeriod
        /\ Elapsed(millis, downTime) = age
        /\ pressLength <= age + LoopPeriod /\ age <= pressLength + sinceCall
    BY <1>1, ButtonAssumption DEF Inv, TypeOK, IInv, SteadyInv, ReadUp
  <2>2. report' = IF age < ClickLimit THEN Click ELSE HoldEnd
    BY <1>1, <2>1 DEF ReadUp
  <2>3. Click # HoldEnd
    BY DEF Click, HoldEnd, Report
  <2>4. CASE age < ClickLimit
    BY <2>1, <2>2, <2>3, <2>4, ButtonAssumption
  <2>5. CASE ~(age < ClickLimit)
    BY <2>1, <2>2, <2>3, <2>5, ButtonAssumption
  <2> QED BY <2>4, <2>5
<1> QED
  BY <1>1, Inductive, SteadyInductive, PTL DEF Spec, ClassifiedRight

=============================================================================
