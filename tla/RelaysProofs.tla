----------------------------- MODULE RelaysProofs -----------------------------
(***************************************************************************)
(* The heater's relay and the lamp's in one program: types, agreement of      *)
(* field and pin, the lockout and the schedule, for every width of the clock,  *)
(* lockout, loop period, set of temperatures and schedule.  The lamp by itself  *)
(* comes first.                                                                *)
(***************************************************************************)
EXTENDS Relays, TLAPS

(* The way round the dial from b to a. *)
LEMMA Around ==
  ASSUME NEW a \in Times, NEW b \in Times
  PROVE  (a - b) % SecondsPerDay
           = IF a >= b THEN a - b ELSE a - b + SecondsPerDay
  BY LightAssumption DEF Times

(* The two cases of the code, one condition: t lies on the way from
   LightsOnTime to LightsOffTime. *)
LEMMA LightOnAround ==
  ASSUME NEW t \in Times \ {LightsOnTime, LightsOffTime}
  PROVE  lightOn(t) <=>
           \/ LightsOnTime = LightsOffTime
           \/ (t - LightsOnTime) % SecondsPerDay
                < (LightsOffTime - LightsOnTime) % SecondsPerDay
<1>1. /\ LightsOnTime \in Times /\ LightsOffTime \in Times
      /\ LightsOnTime \in Int /\ 0 <= LightsOnTime /\ LightsOnTime < SecondsPerDay
      /\ LightsOffTime \in Int /\ 0 <= LightsOffTime /\ LightsOffTime < SecondsPerDay
      /\ t \in Int /\ 0 <= t /\ t < SecondsPerDay
      /\ t # LightsOnTime /\ t # LightsOffTime
      /\ SecondsPerDay \in Int
  BY LightAssumption DEF Times
<1>2. (t - LightsOnTime) % SecondsPerDay
        = IF t >= LightsOnTime THEN t - LightsOnTime
                               ELSE t - LightsOnTime + SecondsPerDay
  BY <1>1, Around
<1>3. (LightsOffTime - LightsOnTime) % SecondsPerDay
        = IF LightsOffTime >= LightsOnTime
            THEN LightsOffTime - LightsOnTime
            ELSE LightsOffTime - LightsOnTime + SecondsPerDay
  BY <1>1, Around
<1> DEFINE x == (t - LightsOnTime) % SecondsPerDay
           y == (LightsOffTime - LightsOnTime) % SecondsPerDay
<1> HIDE DEF x, y
<1>4. /\ x = IF t >= LightsOnTime THEN t - LightsOnTime
                                   ELSE t - LightsOnTime + SecondsPerDay
      /\ y = IF LightsOffTime >= LightsOnTime
               THEN LightsOffTime - LightsOnTime
               ELSE LightsOffTime - LightsOnTime + SecondsPerDay
  BY <1>2, <1>3 DEF x, y
<1>5. lightOn(t) <=> LightsOnTime = LightsOffTime \/ x < y
  <2>1. CASE LightsOnTime < LightsOffTime
    BY <1>1, <1>4, <2>1 DEF lightOn
  <2>2. CASE LightsOnTime = LightsOffTime
    BY <1>1, <2>2 DEF lightOn
  <2>3. CASE LightsOnTime > LightsOffTime
    BY <1>1, <1>4, <2>3 DEF lightOn
  <2> QED BY <1>1, <2>1, <2>2, <2>3
<1> QED
  BY <1>5 DEF x, y

(* Between calls the relay and the field agree, and once the clock is known
   both show the period of the last call. *)
IInv ==
  /\ TypeOK
  /\ Burning <=> LightsOn
  /\ Time # NoTime => (LightsOn <=> lightOn(Time))

(* Every step keeps the invariant. *)
LEMMA StepIInv == IInv /\ [Next]_vars => IInv'
<1> SUFFICES ASSUME IInv, [Next]_vars PROVE IInv'
  OBVIOUS
<1> USE DEF IInv, TypeOK, Burning, LOW, HIGH
<1>1. CASE UNCHANGED vars
  BY <1>1 DEF vars, lightOn
<1>2. CASE Next
  <2>1. PICK t \in Times \cup {NoTime} : MutateState(t)
    BY <1>2 DEF Next
  <2>2. CASE t # NoTime /\ lightOn(t) /\ ~LightsOn /\ TurnOnLight
    BY <2>1, <2>2 DEF MutateState, TurnOnLight
  <2>3. CASE t # NoTime /\ ~lightOn(t) /\ LightsOn /\ TurnOffLight
    <3>1. Time' = t /\ LIGHT_PIN' = HIGH /\ ~LightsOn' /\ LightsOn' \in BOOLEAN
      BY <2>1, <2>3 DEF MutateState, TurnOffLight
    <3>2. ~lightOn(Time')
      BY <2>3, <3>1
    <3> QED BY <3>1, <3>2
  <2>4. CASE /\ t = NoTime \/ (lightOn(t) <=> LightsOn)
             /\ UNCHANGED <<LightsOn, LIGHT_PIN>>
    <3>1. Time' = t /\ LightsOn' = LightsOn /\ LIGHT_PIN' = LIGHT_PIN
      BY <2>1, <2>4 DEF MutateState
    <3>2. TypeOK' /\ (Burning <=> LightsOn)'
      BY <3>1
    <3>3. ASSUME Time' # NoTime PROVE LightsOn' <=> lightOn(Time')
      BY <2>4, <3>1, <3>3 
    <3> QED BY <3>2, <3>3
  <2> QED
    BY <2>1, <2>2, <2>3, <2>4 DEF MutateState
<1> QED
  BY <1>1, <1>2

(* What the invariant says of the lamp itself. *)
LEMMA IInvSchedule == IInv => FollowsSchedule
<1> SUFFICES ASSUME IInv, Time \notin {NoTime, LightsOnTime, LightsOffTime}
             PROVE  Burning <=>
                      \/ LightsOnTime = LightsOffTime
                      \/ (Time - LightsOnTime) % SecondsPerDay
                           < (LightsOffTime - LightsOnTime) % SecondsPerDay
  BY DEF FollowsSchedule
<1>1. Burning <=> lightOn(Time)
  BY DEF IInv
<1>2. Time \in Times \ {LightsOnTime, LightsOffTime}
  BY DEF IInv, TypeOK
<1> QED BY <1>1, <1>2, LightOnAround

(* The lamp is off before the first call. *)
LEMMA InitIInv == Init => IInv
<1> SUFFICES ASSUME Init PROVE IInv
  OBVIOUS
<1>1. ~LightsOn /\ LightsOn \in BOOLEAN /\ LIGHT_PIN = HIGH /\ Time = NoTime
  BY DEF Init
<1> QED BY <1>1 DEF IInv, TypeOK, Burning, LOW, HIGH

(* For every schedule, across midnight or not, the lamp burns on the way from
   LightsOnTime to LightsOffTime and nowhere else. *)
THEOREM ScheduleSafe == Spec => []FollowsSchedule
BY InitIInv, StepIInv, IInvSchedule, PTL DEF Spec

-----------------------------------------------------------------------------
Readings == 0 .. ClockWidth - 1

(* What the lockout rests on: seen through the wrapping clock, with the rest of
   the call added, the relay never looks longer unmoved than it is. *)
LockoutInv ==
  sinceChange <= Lockout =>
    (millis + gap - HeaterChangedTime) % ClockWidth <= sinceChange

HeaterInv == H!TypeOK /\ H!RelayMatchesState /\ LockoutInv

RelaysInv == HeaterInv /\ IInv

(* What the assumption on the heater's constants says. *)
LEMMA Numbers ==
  /\ ClockWidth \in Nat /\ Lockout \in Nat /\ ReadGap \in Nat /\ LoopPeriod \in Nat
  /\ Lockout > 0 /\ LoopPeriod > 0
  /\ Lockout + ReadGap < ClockWidth
  BY RelaysAssumption DEF H!HeaterAssumption

(* The clock's next reading. *)
LEMMA NextReading ==
  ASSUME NEW a \in Readings
  PROVE  /\ (a + 1) % ClockWidth = IF a = ClockWidth - 1 THEN 0 ELSE a + 1
         /\ (a + 1) % ClockWidth \in Readings
  BY Numbers DEF Readings

(* Where the rest of a call ends on the dial. *)
LEMMA Ahead ==
  ASSUME NEW a \in Readings, NEW g \in 0 .. ReadGap
  PROVE  /\ (a + g) % ClockWidth = IF a + g < ClockWidth THEN a + g ELSE a + g - ClockWidth
         /\ (a + g) % ClockWidth \in Readings
  BY Numbers DEF Readings

(* The way around the dial from b to g ticks after a. *)
LEMMA AroundAhead ==
  ASSUME NEW a \in Readings, NEW b \in Readings, NEW g \in 0 .. ReadGap
  PROVE  (a + g - b) % ClockWidth =
           IF a + g < b THEN a + g - b + ClockWidth
           ELSE IF a + g - b < ClockWidth THEN a + g - b ELSE a + g - b - ClockWidth
  BY Numbers DEF Readings

(* A time stored with the rest of the call added is no time ago. *)
LEMMA StoredNow ==
  ASSUME NEW a \in Readings, NEW g \in 0 .. ReadGap
  PROVE  (a + g - ((a + g) % ClockWidth)) % ClockWidth = 0
<1> DEFINE b == (a + g) % ClockWidth
<1>1. b = (IF a + g < ClockWidth THEN a + g ELSE a + g - ClockWidth) /\ b \in Readings
  BY Ahead
<1> HIDE DEF b
<1>2. (a + g - b) % ClockWidth =
        IF a + g < b THEN a + g - b + ClockWidth
        ELSE IF a + g - b < ClockWidth THEN a + g - b ELSE a + g - b - ClockWidth
  BY <1>1, AroundAhead
<1>3. (a + g - b) % ClockWidth = 0
  BY <1>1, <1>2, Numbers DEF Readings
<1> QED
  BY <1>3 DEF b

(* A tick within a call leaves the way as it is, a tick after it adds one, as long
   as it has not come around. *)
LEMMA WayTick ==
  ASSUME NEW a \in Readings, NEW b \in Readings, NEW g \in 0 .. ReadGap
  PROVE  /\ g > 0 =>
              (((a + 1) % ClockWidth) + (g - 1) - b) % ClockWidth = (a + g - b) % ClockWidth
         /\ g = 0 /\ (a + g - b) % ClockWidth < ClockWidth - 1 =>
              (((a + 1) % ClockWidth) + 0 - b) % ClockWidth = ((a + g - b) % ClockWidth) + 1
<1> DEFINE way == (a + g - b) % ClockWidth
           next == (a + 1) % ClockWidth
<1>1. next = (IF a = ClockWidth - 1 THEN 0 ELSE a + 1) /\ next \in Readings
  BY NextReading
<1>2. way = IF a + g < b THEN a + g - b + ClockWidth
            ELSE IF a + g - b < ClockWidth THEN a + g - b ELSE a + g - b - ClockWidth
  BY AroundAhead
<1> HIDE DEF way, next
<1>3. ASSUME g > 0 PROVE (next + (g - 1) - b) % ClockWidth = way
  <2>1. g - 1 \in 0 .. ReadGap
    BY <1>3, Numbers
  <2> DEFINE h == g - 1
  <2>2. (next + h - b) % ClockWidth =
          IF next + h < b THEN next + h - b + ClockWidth
          ELSE IF next + h - b < ClockWidth THEN next + h - b ELSE next + h - b - ClockWidth
    BY <1>1, <2>1, AroundAhead
  <2> QED BY <1>1, <1>2, <1>3, <2>2, Numbers DEF Readings
<1>4. ASSUME g = 0, way < ClockWidth - 1 PROVE (next + 0 - b) % ClockWidth = way + 1
  <2>1. g \in 0 .. ReadGap
    OBVIOUS
  <2>2. (next + g - b) % ClockWidth =
          IF next + g < b THEN next + g - b + ClockWidth
          ELSE IF next + g - b < ClockWidth THEN next + g - b ELSE next + g - b - ClockWidth
    BY <1>1, <2>1, AroundAhead
  <2>3. (next + g - b) % ClockWidth = way + 1
    BY <1>1, <1>2, <1>4, <2>2, Numbers DEF Readings
  <2> QED BY <1>4, <2>3
<1> QED
  BY <1>3, <1>4 DEF way, next

(* The heater's side of the invariant, action by action. *)
LEMMA InitHeater == H!Init => HeaterInv
<1> SUFFICES ASSUME H!Init PROVE HeaterInv
  OBVIOUS
<1>1. sinceChange = Lockout + 1
  BY DEF H!Init
<1>2. LockoutInv
  BY <1>1, Numbers DEF LockoutInv
<1>3. /\ millis = 0 /\ sinceCall = 0 /\ gap = 0 /\ HeaterChangedTime = 0 /\ Heat \in Heats
      /\ HeaterOn = FALSE /\ HEATER_PIN = H!HIGH
  BY DEF H!Init
<1>4. H!TypeOK
  <2>1. HeaterOn \in BOOLEAN /\ HEATER_PIN \in {H!LOW, H!HIGH} /\ Heat \in Heats
    BY <1>3
  <2>2. /\ {millis, HeaterChangedTime} \subseteq 0 .. ClockWidth - 1
        /\ sinceCall \in 0 .. LoopPeriod /\ gap \in 0 .. ReadGap
        /\ sinceChange \in 0 .. Lockout + 1
    BY <1>1, <1>3, Numbers
  <2> QED BY <2>1, <2>2 DEF H!TypeOK
<1>5. H!RelayMatchesState
  <2>1. HEATER_PIN # H!LOW
    BY <1>3 DEF H!LOW, H!HIGH
  <2> QED BY <1>3, <2>1 DEF H!RelayMatchesState
<1> QED
  BY <1>2, <1>4, <1>5 DEF HeaterInv

LEMMA SwitchHeater ==
  ASSUME HeaterInv, gap = 0, H!Switch, UNCHANGED millis,
         Heat' \in Heats, sinceCall' = 0, HEATER_PIN' \in {H!LOW, H!HIGH},
         HeaterOn' <=> HEATER_PIN' = H!LOW
  PROVE  HeaterInv'
<1>1. /\ millis \in Readings /\ HeaterOn \in BOOLEAN
      /\ sinceChange' = 0 /\ gap' \in 0 .. ReadGap /\ millis' = millis
      /\ HeaterChangedTime' = (millis + gap') % ClockWidth
  BY DEF HeaterInv, H!TypeOK, H!Switch, Readings
<1>2. HeaterChangedTime' \in Readings
  BY <1>1, Ahead
<1>3. (millis' + gap' - HeaterChangedTime') % ClockWidth = 0
  BY <1>1, StoredNow
<1>4. LockoutInv'
  BY <1>1, <1>3 DEF LockoutInv
<1>5. H!TypeOK'
  <2>1. HeaterOn' \in BOOLEAN
    BY DEF H!Switch
  <2>2. sinceCall' \in 0 .. LoopPeriod /\ sinceChange' \in 0 .. Lockout + 1
    BY <1>1, Numbers
  <2>3. {millis', HeaterChangedTime'} \subseteq 0 .. ClockWidth - 1
    BY <1>1, <1>2 DEF Readings
  <2> QED BY <1>1, <2>1, <2>2, <2>3 DEF H!TypeOK
<1>6. H!RelayMatchesState'
  BY DEF H!RelayMatchesState
<1> QED
  BY <1>4, <1>5, <1>6 DEF HeaterInv

LEMMA MutateHeater ==
  ASSUME HeaterInv, H!MutateState
  PROVE  HeaterInv'
<1>1. gap = 0 /\ Heat' \in Heats /\ sinceCall' = 0 /\ millis' = millis
  BY DEF H!MutateState
<1>2. CASE H!SwitchOn
  <2>1. ~HeaterOn /\ HEATER_PIN' = H!LOW /\ H!Switch
    BY <1>2 DEF H!SwitchOn, H!TurnOnHeater
  <2>2. HeaterOn' <=> HEATER_PIN' = H!LOW
    BY <2>1 DEF H!Switch
  <2> QED BY <1>1, <2>1, <2>2, SwitchHeater
<1>3. CASE H!SwitchOff
  <2>1. HeaterOn /\ HEATER_PIN' = H!HIGH /\ H!Switch
    BY <1>3 DEF H!SwitchOff, H!TurnOffHeater
  <2>2. HEATER_PIN' # H!LOW
    BY <2>1 DEF H!LOW, H!HIGH
  <2>3. ~HeaterOn'
    BY <2>1 DEF H!Switch
  <2> QED BY <1>1, <2>1, <2>2, <2>3, SwitchHeater
<1>4. CASE H!Keep
  <2>1. UNCHANGED <<millis, gap, HeaterOn, HeaterChangedTime, HEATER_PIN, sinceChange>>
    BY <1>1, <1>4 DEF H!Keep
  <2>2. LockoutInv' /\ H!RelayMatchesState'
    BY <2>1 DEF HeaterInv, LockoutInv, H!RelayMatchesState
  <2>3. H!TypeOK'
    BY <1>1, <2>1, Numbers DEF HeaterInv, H!TypeOK
  <2> QED BY <2>2, <2>3 DEF HeaterInv
<1> QED
  BY <1>2, <1>3, <1>4 DEF H!MutateState

LEMMA TickHeater ==
  ASSUME HeaterInv, H!Tick
  PROVE  HeaterInv'
<1>1. /\ millis \in Readings /\ HeaterChangedTime \in Readings /\ gap \in 0 .. ReadGap
      /\ sinceChange \in 0 .. Lockout + 1 /\ sinceCall \in 0 .. LoopPeriod
  BY DEF HeaterInv, H!TypeOK, Readings
<1>2. /\ millis' = (millis + 1) % ClockWidth
      /\ gap' = IF gap > 0 THEN gap - 1 ELSE 0
      /\ sinceChange' = IF sinceChange <= Lockout THEN sinceChange + 1 ELSE sinceChange
      /\ sinceCall' = IF gap > 0 THEN sinceCall ELSE sinceCall + 1
      /\ sinceCall < LoopPeriod \/ gap > 0
      /\ UNCHANGED <<Heat, HeaterOn, HeaterChangedTime, HEATER_PIN>>
  BY DEF H!Tick
<1>3. H!TypeOK'
  <2>1. millis' \in Readings
    BY <1>1, <1>2, NextReading
  <2> QED BY <1>1, <1>2, <2>1, Numbers DEF HeaterInv, H!TypeOK, Readings
<1>4. H!RelayMatchesState'
  BY <1>2 DEF HeaterInv, H!RelayMatchesState
<1>5. LockoutInv'
  <2> SUFFICES ASSUME sinceChange' <= Lockout
               PROVE  (millis' + gap' - HeaterChangedTime') % ClockWidth <= sinceChange'
    BY DEF LockoutInv
  <2> DEFINE way == (millis + gap - HeaterChangedTime) % ClockWidth
  <2>1. sinceChange < Lockout /\ sinceChange' = sinceChange + 1
    BY <1>1, <1>2, Numbers
  <2>2. way <= sinceChange
    BY <1>1, <2>1, Numbers DEF HeaterInv, LockoutInv
  <2>3. way \in Nat
    BY <1>1, AroundAhead, Numbers DEF Readings
  <2>4. CASE gap > 0
    <3>1. (millis' + gap' - HeaterChangedTime') % ClockWidth = way
      BY <1>1, <1>2, <2>4, WayTick
    <3> HIDE DEF way
    <3> QED BY <1>1, <2>1, <2>2, <2>3, <3>1
  <2>5. CASE gap = 0
    <3>1. way < ClockWidth - 1
      BY <1>1, <2>1, <2>2, <2>3, Numbers
    <3>2. (millis' + gap' - HeaterChangedTime') % ClockWidth = way + 1
      BY <1>1, <1>2, <2>5, <3>1, WayTick
    <3> HIDE DEF way
    <3> QED BY <1>1, <2>1, <2>2, <2>3, <3>2
  <2> QED BY <1>1, <2>4, <2>5
<1> QED
  BY <1>3, <1>4, <1>5 DEF HeaterInv

LEMMA ResetHeater ==
  ASSUME HeaterInv, H!Reset
  PROVE  HeaterInv'
<1>1. /\ millis' = 0 /\ sinceCall' = 0 /\ gap' = 0 /\ HeaterOn' = FALSE
      /\ HeaterChangedTime' = 0 /\ HEATER_PIN' = H!HIGH /\ Heat' = Heat
      /\ sinceChange' = IF HEATER_PIN = H!LOW THEN 0 ELSE sinceChange
  BY DEF H!Reset, H!TurnOffHeater
<1>2. sinceChange' \in 0 .. Lockout + 1
  BY <1>1, Numbers DEF HeaterInv, H!TypeOK
<1>3. (millis' + gap' - HeaterChangedTime') % ClockWidth = 0
  BY <1>1, Numbers
<1>4. LockoutInv'
  BY <1>2, <1>3, Numbers DEF LockoutInv
<1>5. H!TypeOK'
  <2>1. HeaterOn' \in BOOLEAN /\ HEATER_PIN' \in {H!LOW, H!HIGH} /\ Heat' \in Heats
    BY <1>1 DEF HeaterInv, H!TypeOK
  <2>2. /\ {millis', HeaterChangedTime'} \subseteq 0 .. ClockWidth - 1
        /\ sinceCall' \in 0 .. LoopPeriod /\ gap' \in 0 .. ReadGap
    BY <1>1, Numbers
  <2> QED BY <1>2, <2>1, <2>2 DEF H!TypeOK
<1>6. H!RelayMatchesState'
  <2>1. HEATER_PIN' # H!LOW
    BY <1>1 DEF H!LOW, H!HIGH
  <2> QED BY <1>1, <2>1 DEF H!RelayMatchesState
<1> QED
  BY <1>4, <1>5, <1>6 DEF HeaterInv

(* Every step of the program keeps both sides. *)
LEMMA RelaysStep == RelaysInv /\ [RelaysNext]_relays => RelaysInv'
<1> SUFFICES ASSUME RelaysInv, [RelaysNext]_relays PROVE RelaysInv'
  OBVIOUS
<1>1. CASE Loop
  <2>1. HeaterInv'
    BY <1>1, MutateHeater DEF Loop, RelaysInv
  <2>2. IInv'
    BY <1>1, StepIInv DEF Loop, RelaysInv
  <2> QED BY <2>1, <2>2 DEF RelaysInv
<1>2. CASE Wait
  <2>1. HeaterInv'
    BY <1>2, TickHeater DEF Wait, RelaysInv
  <2>2. IInv'
    BY <1>2, StepIInv DEF Wait, RelaysInv
  <2> QED BY <2>1, <2>2 DEF RelaysInv
<1>3. CASE RelaysReset
  <2>1. HeaterInv'
    BY <1>3, ResetHeater DEF RelaysReset, RelaysInv
  <2>2. ~LightsOn' /\ LightsOn' \in BOOLEAN /\ LIGHT_PIN' = HIGH /\ Time' = NoTime
    BY <1>3 DEF RelaysReset
  <2>3. IInv'
    BY <2>2 DEF IInv, TypeOK, Burning, LOW, HIGH
  <2> QED BY <2>1, <2>3 DEF RelaysInv
<1>4. CASE UNCHANGED relays
  <2>1. UNCHANGED vars /\ UNCHANGED H!vars
    BY <1>4 DEF relays
  <2>2. IInv'
    BY <2>1, StepIInv DEF RelaysInv
  <2>3. UNCHANGED <<millis, sinceCall, gap, Heat, HeaterOn, HeaterChangedTime,
                    HEATER_PIN, sinceChange>>
    BY <2>1 DEF H!vars
  <2>4. HeaterInv'
    BY <2>3 DEF RelaysInv, HeaterInv, LockoutInv, H!TypeOK, H!RelayMatchesState
  <2> QED BY <2>2, <2>4 DEF RelaysInv
<1> QED
  BY <1>1, <1>2, <1>3, <1>4 DEF RelaysNext

(* The invariant holds throughout. *)
LEMMA RelaysInductive == RelaysSpec => []RelaysInv
<1>1. RelaysInit => RelaysInv
  BY InitHeater, InitIInv DEF RelaysInit, RelaysInv
<1> QED
  BY <1>1, RelaysStep, PTL DEF RelaysSpec

(* A call only moves the relay when the lockout is really over. *)
LEMMA LockoutStep ==
  RelaysInv /\ [RelaysNext]_relays =>
    [HEATER_PIN' # HEATER_PIN => sinceChange > Lockout \/ H!Reset]_(H!vars)
<1> SUFFICES ASSUME RelaysInv, [RelaysNext]_relays, HEATER_PIN' # HEATER_PIN, ~H!Reset
             PROVE  sinceChange > Lockout
  OBVIOUS
<1>1. H!MutateState
  BY DEF RelaysNext, Loop, Wait, RelaysReset, H!Tick, relays, H!vars
<1>2. gap = 0 /\ H!Unlocked
  BY <1>1 DEF H!MutateState, H!SwitchOn, H!SwitchOff, H!Keep
<1>3. /\ millis \in Readings /\ HeaterChangedTime \in Readings /\ gap \in 0 .. ReadGap
      /\ sinceChange \in 0 .. Lockout + 1
  BY DEF RelaysInv, HeaterInv, H!TypeOK, Readings
<1> DEFINE way == (millis + gap - HeaterChangedTime) % ClockWidth
<1>4. way > Lockout
  BY <1>2, <1>3 DEF H!Unlocked, Readings
<1>5. way \in Nat
  BY <1>3, AroundAhead, Numbers DEF Readings
<1>6. sinceChange <= Lockout => way <= sinceChange
  BY DEF RelaysInv, HeaterInv, LockoutInv
<1> HIDE DEF way
<1> QED
  BY <1>3, <1>4, <1>5, <1>6, Numbers

(* Types, and the agreement of the heater's field and its relay, after every call,
   tick and reset. *)
THEOREM RelaysTyped == RelaysSpec => []RelaysTypeOK
<1>1. RelaysInv => RelaysTypeOK
  BY DEF RelaysInv, HeaterInv, IInv, RelaysTypeOK
<1> QED
  BY <1>1, RelaysInductive, PTL

(* The relay of the heater keeps its lockout, wherever the clock wraps and however
   long a call takes between its two readings of it. *)
THEOREM RelaysLocked == RelaysSpec => NoRapidChange
<1> QED
  BY RelaysInductive, LockoutStep, PTL DEF RelaysSpec, NoRapidChange, H!NoRapidChange

(* The lamp follows its schedule also through resets. *)
THEOREM RelaysSchedule == RelaysSpec => []FollowsSchedule
<1>1. RelaysInv => FollowsSchedule
  BY IInvSchedule DEF RelaysInv
<1> QED
  BY <1>1, RelaysInductive, PTL

=============================================================================
