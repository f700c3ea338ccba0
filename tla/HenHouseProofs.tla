---------------------------- MODULE HenHouseProofs ----------------------------
(***************************************************************************)
(* Theorems about the controller and its door, for every length of the day,   *)
(* every schedule, activation duration, travel time and pace of the loop that *)
(* HenHouseAssumption admits: no motor is left on for too long, and a door     *)
(* recorded at rest is where it is recorded to be.                            *)
(***************************************************************************)
EXTENDS HenHouse, TLAPS


USE DEF D!LOW, D!HIGH, D!NoTime, D!CLOSED, D!OPENING, D!CLOSING, D!OPEN,
        D!MANUAL_CLOSED, D!MANUAL_OPENING, D!MANUAL_CLOSING, D!MANUAL_OPEN

(* The constants, one by one. *)
LEMMA Constants ==
  /\ SecondsPerDay \in Nat /\ MaxStep \in Nat /\ Travel \in Nat
  /\ DoorActivationDuration \in Nat /\ DoorOpenTime \in Nat /\ DoorCloseTime \in Nat
  /\ 0 < SecondsPerDay /\ 0 < Travel /\ Travel <= DoorActivationDuration
  /\ DoorActivationDuration + 2 * MaxStep < SecondsPerDay
  BY HenHouseAssumption

-----------------------------------------------------------------------------
(* What one call of the handler makes of the door, block by block. *)

OpenStates == {D!OPEN, D!MANUAL_OPEN}
ClosedStates == {D!CLOSED, D!MANUAL_CLOSED}

LEMMA States ==
  /\ D!AtRest = OpenStates \cup ClosedStates
  /\ D!DoorStates = D!AtRest \cup D!Opening \cup D!Closing
  /\ D!AtRest \cap (D!Opening \cup D!Closing) = {} /\ D!Opening \cap D!Closing = {}
  /\ OpenStates \cap ClosedStates = {}
  BY DEF OpenStates, ClosedStates, D!AtRest, D!Opening, D!Closing,
         D!DoorStates

(* The pins of the three helpers are distinct and well typed. *)
LEMMA PinFacts ==
  /\ {D!StartOpeningDoor, D!StartClosingDoor, D!StopDoor} \subseteq D!Pins
  /\ D!StartOpeningDoor # D!StartClosingDoor
  /\ D!StartOpeningDoor # D!StopDoor
  /\ D!StartClosingDoor # D!StopDoor
<1>1. /\ D!StartOpeningDoor.POWER_PIN = 255 /\ D!StopDoor.POWER_PIN = 0
      /\ D!StartClosingDoor.POWER_PIN = 255
      /\ D!StartOpeningDoor.OPEN_PIN = 1 /\ D!StartClosingDoor.OPEN_PIN = 0
  BY DEF D!StartOpeningDoor, D!StartClosingDoor, D!StopDoor
<1>2. {D!StartOpeningDoor, D!StartClosingDoor, D!StopDoor} \subseteq D!Pins
  BY DEF D!StartOpeningDoor, D!StartClosingDoor, D!StopDoor, D!Pins
<1> QED
  BY <1>1, <1>2

LEMMA BeginFacts ==
  ASSUME NEW d \in D!Door, NEW st \in D!DoorStates, NEW a \in Int, NEW p \in D!Pins
  PROVE  /\ D!Begin(d, st, a, p) \in D!Door
         /\ D!Begin(d, st, a, p).DoorState = st
         /\ D!Begin(d, st, a, p).DoorActivationTime = a
         /\ D!Begin(d, st, a, p).pins = p
  BY DEF D!Begin, D!Door

LEMMA SetFacts ==
  ASSUME NEW d \in D!Door, NEW st \in D!DoorStates, NEW p \in D!Pins
  PROVE  /\ D!Set(d, st, p) \in D!Door
         /\ D!Set(d, st, p).DoorState = st
         /\ D!Set(d, st, p).DoorActivationTime = d.DoorActivationTime
         /\ D!Set(d, st, p).pins = p
  BY DEF D!Set, D!Door

LEMMA RebaseFacts ==
  ASSUME NEW d \in D!Door, NEW t \in Int
  PROVE  /\ D!Rebase(d, t) \in D!Door
         /\ D!Rebase(d, t).DoorState = d.DoorState
         /\ D!Rebase(d, t).pins = d.pins
         /\ D!Rebase(d, t).DoorActivationTime =
              IF d.DoorActivationTime > t
                THEN d.DoorActivationTime - SecondsPerDay
                ELSE d.DoorActivationTime
  BY Constants DEF D!Rebase, D!Door

(* A door between two calls: well typed, its motor as its state says. *)
Sound(d) ==
  /\ d \in D!Door
  /\ d.DoorState \in D!AtRest => d.pins = D!StopDoor
  /\ d.DoorState \in D!Opening => d.pins \in {D!StartOpeningDoor, D!StopDoor}
  /\ d.DoorState \in D!Closing => d.pins \in {D!StartClosingDoor, D!StopDoor}

(* A door that a call leaves at rest, in one of some states. *)
RestsIn(e, S) == e \in D!Door /\ e.DoorState \in S /\ e.pins = D!StopDoor

(* A door that a call at time t sets in motion. *)
Starts(e, t) ==
  /\ e \in D!Door /\ e.DoorActivationTime = t
  /\ \/ e.DoorState \in D!Opening /\ e.pins = D!StartOpeningDoor
     \/ e.DoorState \in D!Closing /\ e.pins = D!StartClosingDoor
  /\ e.DoorState = D!OPENING => D!InOpenPeriod(t)
  /\ e.DoorState = D!CLOSING => ~D!InOpenPeriod(t)

(* A timeout ends a motion that has run its time, and no other. *)
LEMMA ExpiredIs ==
  ASSUME NEW d \in D!Door, NEW t \in Int
  PROVE  D!Expired(d, t) <=> t - d.DoorActivationTime > DoorActivationDuration
  BY Constants DEF D!Expired, D!Door

(* Setting a state of rest and stopping the motor. *)
LEMMA SetAtRest ==
  ASSUME NEW d \in D!Door, NEW S \in SUBSET D!AtRest, NEW st \in S
  PROVE  RestsIn(D!Set(d, st, D!StopDoor), S)
  BY States, SetFacts, PinFacts DEF RestsIn

(* Both rests of a motion that is cut short. *)
LEMMA ManualRestIs ==
  ASSUME NEW st
  PROVE  /\ D!ManualRest(st) \in D!AtRest
         /\ st \in D!Opening => D!ManualRest(st) \in OpenStates
         /\ st \in D!Closing => D!ManualRest(st) \in ClosedStates
  BY States DEF D!ManualRest, OpenStates, ClosedStates, D!AtRest

(* A motion begun by hand. *)
LEMMA BeginManual ==
  ASSUME NEW d \in D!Door, NEW t \in Int
  PROVE  /\ Starts(D!Begin(d, D!MANUAL_OPENING, t, D!StartOpeningDoor), t)
         /\ Starts(D!Begin(d, D!MANUAL_CLOSING, t, D!StartClosingDoor), t)
         /\ D!Begin(d, D!MANUAL_OPENING, t, D!StartOpeningDoor).DoorState = D!MANUAL_OPENING
         /\ D!Begin(d, D!MANUAL_CLOSING, t, D!StartClosingDoor).DoorState = D!MANUAL_CLOSING
<1>1. D!MANUAL_OPENING \in D!Opening /\ D!MANUAL_CLOSING \in D!Closing
  BY DEF D!Opening, D!Closing
<1>2. D!MANUAL_OPENING \in D!DoorStates /\ D!MANUAL_CLOSING \in D!DoorStates
  BY <1>1, States
<1>3. /\ D!MANUAL_OPENING # D!OPENING /\ D!MANUAL_OPENING # D!CLOSING
      /\ D!MANUAL_CLOSING # D!OPENING /\ D!MANUAL_CLOSING # D!CLOSING
  OBVIOUS
<1> QED
  BY <1>1, <1>2, <1>3, BeginFacts, PinFacts DEF Starts

(* A motion begun by the schedule. *)
LEMMA BeginScheduled ==
  ASSUME NEW d \in D!Door, NEW t \in Int
  PROVE  /\ D!InOpenPeriod(t) => Starts(D!Begin(d, D!OPENING, t, D!StartOpeningDoor), t)
         /\ ~D!InOpenPeriod(t) => Starts(D!Begin(d, D!CLOSING, t, D!StartClosingDoor), t)
<1>1. D!OPENING \in D!Opening /\ D!CLOSING \in D!Closing /\ D!OPENING # D!CLOSING
  BY DEF D!Opening, D!Closing
<1>2. D!OPENING \in D!DoorStates /\ D!CLOSING \in D!DoorStates
  BY <1>1, States
<1> QED
  BY <1>1, <1>2, BeginFacts, PinFacts DEF Starts

(* The schedule, where the door is at rest: it may relabel the rest or start the
   motion that the period asks for. *)
LEMMA PeriodAtRest ==
  ASSUME NEW d, NEW t \in Int, RestsIn(d, D!AtRest)
  PROVE  \/ d.DoorState \in OpenStates /\ RestsIn(D!OnPeriod(d, t), OpenStates)
         \/ d.DoorState \in ClosedStates /\ RestsIn(D!OnPeriod(d, t), ClosedStates)
         \/ d.DoorState \in {D!OPEN, D!CLOSED} /\ Starts(D!OnPeriod(d, t), t)
<1>1. d \in D!Door /\ d.pins = D!StopDoor
  BY DEF RestsIn
<1>2. CASE d.DoorState = D!MANUAL_OPEN
  <2>1. D!OnPeriod(d, t) = D!Set(d, D!OPEN, d.pins) \/ D!OnPeriod(d, t) = d
    BY <1>2 DEF D!OnPeriod, D!AutomaticMotion
  <2>2. D!OPEN \in OpenStates /\ d.DoorState \in OpenStates /\ OpenStates \in SUBSET D!AtRest
    BY <1>2, States DEF OpenStates
  <2>3. RestsIn(D!Set(d, D!OPEN, D!StopDoor), OpenStates) /\ RestsIn(d, OpenStates)
    BY <1>1, <2>2, SetAtRest DEF RestsIn
  <2> QED
    BY <1>1, <2>1, <2>2, <2>3
<1>3. CASE d.DoorState = D!MANUAL_CLOSED
  <2>1. D!OnPeriod(d, t) = D!Set(d, D!CLOSED, d.pins) \/ D!OnPeriod(d, t) = d
    BY <1>3 DEF D!OnPeriod, D!AutomaticMotion
  <2>2. D!CLOSED \in ClosedStates /\ d.DoorState \in ClosedStates /\ ClosedStates \in SUBSET D!AtRest
    BY <1>3, States DEF ClosedStates
  <2>3. RestsIn(D!Set(d, D!CLOSED, D!StopDoor), ClosedStates) /\ RestsIn(d, ClosedStates)
    BY <1>1, <2>2, SetAtRest DEF RestsIn
  <2> QED
    BY <1>1, <2>1, <2>2, <2>3
<1>4. CASE d.DoorState = D!CLOSED
  <2>1. \/ D!InOpenPeriod(t) /\ D!OnPeriod(d, t) = D!Begin(d, D!OPENING, t, D!StartOpeningDoor)
        \/ D!OnPeriod(d, t) = d
    BY <1>4 DEF D!OnPeriod, D!AutomaticMotion
  <2>2. RestsIn(d, ClosedStates) /\ d.DoorState \in ClosedStates
    BY <1>1, <1>4 DEF RestsIn, ClosedStates
  <2> QED
    BY <1>1, <1>4, <2>1, <2>2, BeginScheduled
<1>5. CASE d.DoorState = D!OPEN
  <2>1. \/ ~D!InOpenPeriod(t) /\ D!OnPeriod(d, t) = D!Begin(d, D!CLOSING, t, D!StartClosingDoor)
        \/ D!OnPeriod(d, t) = d
    BY <1>5 DEF D!OnPeriod, D!AutomaticMotion
  <2>2. RestsIn(d, OpenStates) /\ d.DoorState \in OpenStates
    BY <1>1, <1>5 DEF RestsIn, OpenStates
  <2> QED
    BY <1>1, <1>5, <2>1, <2>2, BeginScheduled
<1> QED
  BY <1>2, <1>3, <1>4, <1>5 DEF RestsIn, D!AtRest

(* The schedule, where the door moves. *)
LEMMA PeriodInMotion ==
  ASSUME NEW d \in D!Door, NEW t \in Int, d.DoorState \in D!Opening \cup D!Closing
  PROVE  IF d.DoorState \in D!AutomaticMotion /\ D!Expired(d, t)
           THEN D!OnPeriod(d, t) = D!Set(d, D!Scheduled(t), D!StopDoor)
           ELSE D!OnPeriod(d, t) = d
  BY States DEF D!OnPeriod, D!AutomaticMotion, D!AtRest, D!Opening, D!Closing

(* The fields of the four reports. *)
LEMMA ReportFields ==
  ASSUME NEW b \in Reports
  PROVE  /\ b = NoReport => ~b.ButtonClicked /\ ~b.ButtonHold
         /\ b = Click => b.ButtonClicked /\ ~b.ButtonHold
         /\ b \in {Hold, HoldEnd} => ~b.ButtonClicked /\ b.ButtonHold
         /\ b = Hold => ~b.ButtonReleased
         /\ b = HoldEnd => b.ButtonReleased
         /\ b \in {NoReport, Click, Hold, HoldEnd}
  BY DEF Reports, NoReport, Click, Hold, HoldEnd, Report

(* Where the button says nothing, only the timeout and the schedule act; a held
   button leaves them out. *)
LEMMA CallOf ==
  ASSUME NEW d, NEW t, NEW b \in Reports
  PROVE  LET d1 == D!Rebase(d, t)
         IN  /\ b = NoReport =>
                  D!Mutate(d, t, b) = D!OnSchedule(D!OnManualTimeout(d1, t, b), t, b)
             /\ b = Click =>
                  D!Mutate(d, t, b)
                    = D!OnSchedule(D!OnManualTimeout(D!OnClick(d1, t, b), t, b), t, b)
             /\ b.ButtonHold => D!Mutate(d, t, b) = D!OnHold(d1, b)
<1> DEFINE d1 == D!Rebase(d, t)
<1>1. \A x : ~b.ButtonClicked => D!OnClick(x, t, b) = x
  BY DEF D!OnClick
<1>2. \A x : b.ButtonHold => D!OnManualTimeout(x, t, b) = x /\ D!OnSchedule(x, t, b) = x
  BY DEF D!OnManualTimeout, D!OnSchedule
<1>3. \A x : ~b.ButtonHold => D!OnHold(x, b) = x
  BY DEF D!OnHold
<1>4. D!Mutate(d, t, b)
        = D!OnSchedule(D!OnHold(D!OnManualTimeout(D!OnClick(d1, t, b), t, b), b), t, b)
  BY DEF D!Mutate
<1> HIDE DEF d1
<1>5. b = NoReport =>
        D!Mutate(d, t, b) = D!OnSchedule(D!OnManualTimeout(d1, t, b), t, b)
  BY <1>1, <1>3, <1>4, ReportFields
<1>6. b = Click =>
        D!Mutate(d, t, b) = D!OnSchedule(D!OnManualTimeout(D!OnClick(d1, t, b), t, b), t, b)
  BY <1>3, <1>4, ReportFields
<1>7. b.ButtonHold => D!Mutate(d, t, b) = D!OnHold(d1, b)
  <2> SUFFICES ASSUME b.ButtonHold PROVE D!Mutate(d, t, b) = D!OnHold(d1, b)
    OBVIOUS
  <2>1. ~b.ButtonClicked
    BY ReportFields
  <2> QED
    BY <2>1, <1>1, <1>2, <1>4
<1> QED
  BY <1>5, <1>6, <1>7 DEF d1

(* What a call may make of a door at rest. *)
LEMMA CallAtRest ==
  ASSUME NEW d, RestsIn(d, D!AtRest), NEW t \in Int, NEW b \in Reports
  PROVE  LET e == D!Mutate(d, t, b)
         IN  \/ d.DoorState \in OpenStates /\ RestsIn(e, OpenStates)
             \/ d.DoorState \in ClosedStates /\ RestsIn(e, ClosedStates)
             \/ b.ButtonHold /\ Sound(e) /\ UnderWay(e)
             \/ ~b.ButtonHold /\ Starts(e, t)
<1> DEFINE d1 == D!Rebase(d, t)
           e == D!Mutate(d, t, b)
<1>1. /\ d1 \in D!Door /\ d1.DoorState = d.DoorState /\ d1.pins = D!StopDoor
      /\ d1.DoorState \in D!AtRest /\ RestsIn(d1, D!AtRest)
  BY RebaseFacts DEF RestsIn
<1> HIDE DEF d1, e
<1>2. \A x : ~b.ButtonHold =>
        D!OnSchedule(x, t, b) = IF t = D!NoTime THEN x ELSE D!OnPeriod(x, t)
  BY DEF D!OnSchedule
<1>3. \/ d.DoorState \in OpenStates /\ RestsIn(d1, OpenStates)
      \/ d.DoorState \in ClosedStates /\ RestsIn(d1, ClosedStates)
  BY <1>1, States DEF RestsIn
<1>4. CASE b = NoReport
  <2>1. ~b.ButtonHold
    BY <1>4, ReportFields
  <2>2. D!OnManualTimeout(d1, t, b) = d1
    BY <1>1 DEF D!OnManualTimeout, D!ManualMotion, D!AtRest
  <2>3. e = D!OnSchedule(d1, t, b)
    BY <1>4, <2>2, CallOf DEF e, d1
  <2>4. e = d1 \/ e = D!OnPeriod(d1, t)
    BY <2>1, <2>3, <1>2
  <2> QED
    BY <1>1, <1>3, <2>1, <2>4, PeriodAtRest DEF e
<1>5. CASE b = Click
  <2>1. ~b.ButtonHold /\ b.ButtonClicked
    BY <1>5, ReportFields
  <2> DEFINE d2 == D!OnClick(d1, t, b)
  <2>2. \/ d2 = D!Begin(d1, D!MANUAL_OPENING, t, D!StartOpeningDoor)
        \/ d2 = D!Begin(d1, D!MANUAL_CLOSING, t, D!StartClosingDoor)
    BY <1>1, <2>1 DEF D!OnClick, D!Opening, D!Closing, D!AtRest
  <2> HIDE DEF d2
  <2>3. Starts(d2, t) /\ d2.DoorState \in {D!MANUAL_OPENING, D!MANUAL_CLOSING}
    BY <1>1, <2>2, BeginManual
  <2>4. d2 \in D!Door /\ d2.DoorActivationTime = t /\ ~D!Expired(d2, t)
    BY <2>3, ExpiredIs, Constants DEF Starts
  <2>5. D!OnManualTimeout(d2, t, b) = d2
    BY <2>4 DEF D!OnManualTimeout
  <2>6. D!OnPeriod(d2, t) = d2
    <3>1. d2.DoorState \in D!Opening \cup D!Closing /\ d2.DoorState \notin D!AutomaticMotion
      BY <2>3 DEF D!Opening, D!Closing, D!AutomaticMotion
    <3> QED
      BY <3>1, <2>4, PeriodInMotion
  <2>7. e = d2
    BY <1>5, <2>1, <2>5, <2>6, <1>2, CallOf DEF e, d1, d2
  <2> QED
    BY <2>1, <2>3, <2>7 DEF e
<1>6. CASE b = HoldEnd
  <2>1. b.ButtonHold /\ b.ButtonReleased
    BY <1>6, ReportFields
  <2>2. e = D!OnHold(d1, b)
    BY <2>1, CallOf DEF e, d1
  <2>3. d1.DoorState \notin D!ManualMotion
    BY <1>1 DEF D!ManualMotion, D!AtRest
  <2>4. e = D!Set(d1, d1.DoorState, D!StopDoor)
    BY <2>1, <2>2, <2>3 DEF D!OnHold
  <2>5. OpenStates \in SUBSET D!AtRest /\ ClosedStates \in SUBSET D!AtRest
    BY States
  <2>6. CASE d.DoorState \in OpenStates
    BY <1>1, <2>4, <2>5, <2>6, SetAtRest DEF e
  <2>7. CASE d.DoorState \in ClosedStates
    BY <1>1, <2>4, <2>5, <2>7, SetAtRest DEF e
  <2> QED
    BY <1>3, <2>6, <2>7
<1>7. CASE b = Hold
  <2>1. b.ButtonHold /\ ~b.ButtonReleased
    BY <1>7, ReportFields
  <2>2. e = D!OnHold(d1, b)
    BY <2>1, CallOf DEF e, d1
  <2>3. \/ e = D!Set(d1, D!MANUAL_OPENING, D!StartOpeningDoor)
        \/ e = D!Set(d1, D!MANUAL_CLOSING, D!StartClosingDoor)
    BY <1>1, <2>1, <2>2 DEF D!OnHold, D!Opening, D!Closing, D!AtRest
  <2>4. D!MANUAL_OPENING \in D!Opening /\ D!MANUAL_CLOSING \in D!Closing
    BY DEF D!Opening, D!Closing
  <2>5. \/ /\ e \in D!Door /\ e.DoorState = D!MANUAL_OPENING
           /\ e.pins = D!StartOpeningDoor
        \/ /\ e \in D!Door /\ e.DoorState = D!MANUAL_CLOSING
           /\ e.pins = D!StartClosingDoor
    <3>1. D!MANUAL_OPENING \in D!DoorStates /\ D!MANUAL_CLOSING \in D!DoorStates
      BY <2>4, States
    <3> QED
      BY <3>1, <1>1, <2>3, SetFacts, PinFacts
  <2>6. UnderWay(e)
    BY <2>4, <2>5, States DEF UnderWay
  <2>7. Sound(e)
    BY <2>4, <2>5, States DEF Sound
  <2> QED
    BY <2>1, <2>6, <2>7 DEF e
<1> QED
  BY <1>4, <1>5, <1>6, <1>7, ReportFields

(* A call in which the schedule ends a motion as it should. *)
EndsIn(d, e, t) ==
  IF \/ d.DoorState = D!MANUAL_OPENING
     \/ d.DoorState = D!OPENING /\ D!InOpenPeriod(t)
    THEN RestsIn(e, OpenStates)
    ELSE \/ d.DoorState = D!MANUAL_CLOSING
         \/ d.DoorState = D!CLOSING /\ ~D!InOpenPeriod(t)
         => RestsIn(e, ClosedStates)

(* What a call may make of a door in motion: it lets it go on, stops the motor
   for good at the end of a hold, or brings it to rest. *)
LEMMA CallInMotion ==
  ASSUME NEW d, Sound(d), d.DoorState \in D!Opening \cup D!Closing,
         NEW t \in Int, NEW b \in Reports
  PROVE  LET d1 == D!Rebase(d, t)
             e == D!Mutate(d, t, b)
         IN  \/ e = d1 /\ b # Click /\ (b = NoReport /\ t # D!NoTime => ~D!Expired(d1, t))
             \/ b.ButtonHold /\ Sound(e) /\ e.DoorState = d.DoorState /\ e.pins = D!StopDoor
             \/ /\ RestsIn(e, D!AtRest)
                /\ b = NoReport => D!Expired(d1, t) /\ EndsIn(d, e, t)
<1> DEFINE d1 == D!Rebase(d, t)
           e == D!Mutate(d, t, b)
<1>1. d1 \in D!Door /\ d1.DoorState = d.DoorState /\ d1.pins = d.pins
  BY RebaseFacts DEF Sound
<1> HIDE DEF d1, e
<1>2. \A x : ~b.ButtonHold =>
        D!OnSchedule(x, t, b) = IF t = D!NoTime THEN x ELSE D!OnPeriod(x, t)
  BY DEF D!OnSchedule
<1>3. d1.DoorState \notin D!AtRest /\ d1.DoorState \in D!Opening \cup D!Closing
  BY <1>1, States
<1> DEFINE r == D!Set(d1, D!ManualRest(d1.DoorState), D!StopDoor)
<1>4. /\ RestsIn(r, D!AtRest) /\ r.DoorState \notin {D!OPEN, D!CLOSED}
      /\ d1.DoorState \in D!Opening => RestsIn(r, OpenStates)
      /\ d1.DoorState \in D!Closing => RestsIn(r, ClosedStates)
  <2>1. D!ManualRest(d1.DoorState) \in {D!MANUAL_OPEN, D!MANUAL_CLOSED}
    BY DEF D!ManualRest
  <2>2. r.DoorState = D!ManualRest(d1.DoorState) /\ r.pins = D!StopDoor /\ r \in D!Door
    <3>1. D!ManualRest(d1.DoorState) \in D!DoorStates /\ D!StopDoor \in D!Pins
      BY ManualRestIs, PinFacts, States
    <3> QED
      BY <3>1, <1>1, SetFacts
  <2>3. r.DoorState \notin {D!OPEN, D!CLOSED}
    BY <2>1, <2>2
  <2> HIDE DEF r
  <2> QED
    BY <2>2, <2>3, ManualRestIs DEF RestsIn
<1> HIDE DEF r
<1>5. LET s == D!OnPeriod(r, t)
      IN  /\ RestsIn(s, D!AtRest)
          /\ d1.DoorState \in D!Opening => RestsIn(s, OpenStates)
          /\ d1.DoorState \in D!Closing => RestsIn(s, ClosedStates)
  <2>1. \/ r.DoorState \in OpenStates /\ RestsIn(D!OnPeriod(r, t), OpenStates)
        \/ r.DoorState \in ClosedStates /\ RestsIn(D!OnPeriod(r, t), ClosedStates)
    BY <1>4, PeriodAtRest
  <2>2. /\ d1.DoorState \in D!Opening => r.DoorState \notin ClosedStates
        /\ d1.DoorState \in D!Closing => r.DoorState \notin OpenStates
    BY <1>4, States DEF RestsIn
  <2>3. RestsIn(D!OnPeriod(r, t), D!AtRest)
    BY <2>1, States DEF RestsIn
  <2> QED
    BY <2>1, <2>2, <2>3
<1>6. CASE b = Click
  <2>1. ~b.ButtonHold /\ b.ButtonClicked
    BY <1>6, ReportFields
  <2>2. D!OnClick(d1, t, b) = r
    <3>1. /\ d1.DoorState \notin {D!CLOSED, D!MANUAL_CLOSED}
          /\ d1.DoorState \notin {D!OPEN, D!MANUAL_OPEN}
      BY <1>3 DEF D!AtRest
    <3> QED
      BY <3>1, <2>1, <1>3 DEF D!OnClick, r
  <2>3. D!OnManualTimeout(r, t, b) = r
    <3>1. r.DoorState \in D!AtRest /\ D!AtRest \cap D!ManualMotion = {}
      BY <1>4 DEF RestsIn, D!AtRest, D!ManualMotion
    <3> QED
      BY <3>1 DEF D!OnManualTimeout
  <2>4. e = r \/ e = D!OnPeriod(r, t)
    BY <1>6, <2>1, <2>2, <2>3, <1>2, CallOf DEF e, d1
  <2>5. b # NoReport
    BY <2>1, ReportFields
  <2> QED
    BY <2>4, <2>5, <1>4, <1>5 DEF e
<1>7. CASE b = HoldEnd
  <2>1. b.ButtonHold /\ b.ButtonReleased /\ b # NoReport
    BY <1>7, ReportFields
  <2>2. e = D!OnHold(d1, b)
    BY <2>1, CallOf DEF e, d1
  <2>3. CASE d1.DoorState \in D!ManualMotion
    <3>1. e = r
      BY <2>1, <2>2, <2>3 DEF D!OnHold, r
    <3> QED
      BY <3>1, <2>1, <1>4 DEF e
  <2>4. CASE d1.DoorState \notin D!ManualMotion
    <3>1. e = D!Set(d1, d1.DoorState, D!StopDoor)
      BY <2>1, <2>2, <2>4 DEF D!OnHold
    <3>2. e \in D!Door /\ e.DoorState = d.DoorState /\ e.pins = D!StopDoor
      BY <3>1, <1>1, <1>3, SetFacts, PinFacts, States
    <3> QED
      BY <3>2, <2>1 DEF e, Sound
  <2> QED
    BY <2>3, <2>4
<1>8. CASE b = Hold
  <2>1. b.ButtonHold /\ ~b.ButtonReleased /\ b # NoReport /\ b # Click
    BY <1>8, ReportFields
  <2>2. e = D!OnHold(d1, b)
    BY <2>1, CallOf DEF e, d1
  <2>3. e = d1
    BY <1>3, <2>1, <2>2 DEF D!OnHold, D!AtRest
  <2> QED
    BY <2>1, <2>3 DEF e, d1
<1>9. CASE b = NoReport
  <2>1. ~b.ButtonHold /\ b # Click
    BY <1>9, ReportFields
  <2>2. CASE d1.DoorState \in D!ManualMotion /\ D!Expired(d1, t)
    <3>1. D!OnManualTimeout(d1, t, b) = r
      BY <2>1, <2>2 DEF D!OnManualTimeout, r
    <3>2. e = r \/ e = D!OnPeriod(r, t)
      BY <1>9, <2>1, <3>1, <1>2, CallOf DEF e, d1
    <3>3. /\ RestsIn(e, D!AtRest)
          /\ d1.DoorState \in D!Opening => RestsIn(e, OpenStates)
          /\ d1.DoorState \in D!Closing => RestsIn(e, ClosedStates)
      BY <3>2, <1>4, <1>5
    <3>4. /\ d1.DoorState \in D!Opening <=> d.DoorState = D!MANUAL_OPENING
          /\ d1.DoorState \in D!Closing <=> d.DoorState = D!MANUAL_CLOSING
          /\ d.DoorState # D!OPENING /\ d.DoorState # D!CLOSING
      BY <1>1, <2>2 DEF D!ManualMotion, D!Opening, D!Closing
    <3>5. EndsIn(d, e, t)
      BY <3>3, <3>4 DEF EndsIn
    <3> QED
      BY <2>2, <3>3, <3>5 DEF e, d1
  <2>3. CASE ~(d1.DoorState \in D!ManualMotion /\ D!Expired(d1, t))
    <3>1. D!OnManualTimeout(d1, t, b) = d1
      BY <2>1, <2>3 DEF D!OnManualTimeout
    <3>2. e = IF t = D!NoTime THEN d1 ELSE D!OnPeriod(d1, t)
      BY <1>9, <2>1, <3>1, <1>2, CallOf DEF e, d1
    <3>3. CASE t = D!NoTime
      BY <2>1, <3>2, <3>3 DEF e, d1
    <3>4. CASE t # D!NoTime /\ d1.DoorState \in D!AutomaticMotion /\ D!Expired(d1, t)
      <4>1. e = D!Set(d1, D!Scheduled(t), D!StopDoor)
        BY <3>2, <3>4, <1>1, <1>3, PeriodInMotion
      <4>2. /\ D!InOpenPeriod(t) => D!Scheduled(t) \in OpenStates
            /\ ~D!InOpenPeriod(t) => D!Scheduled(t) \in ClosedStates
            /\ OpenStates \in SUBSET D!AtRest /\ ClosedStates \in SUBSET D!AtRest
        BY States DEF D!Scheduled, OpenStates, ClosedStates
      <4>3. /\ D!InOpenPeriod(t) => RestsIn(e, OpenStates)
            /\ ~D!InOpenPeriod(t) => RestsIn(e, ClosedStates)
        BY <4>1, <4>2, <1>1, SetAtRest
      <4>4. RestsIn(e, D!AtRest)
        BY <4>3, States DEF RestsIn
      <4>5. d.DoorState \in {D!OPENING, D!CLOSING}
        BY <1>1, <3>4 DEF D!AutomaticMotion
      <4>6. EndsIn(d, e, t)
        BY <4>3, <4>5 DEF EndsIn
      <4> QED
        BY <3>4, <4>4, <4>6 DEF e, d1
    <3>5. CASE t # D!NoTime /\ ~(d1.DoorState \in D!AutomaticMotion /\ D!Expired(d1, t))
      <4>1. e = d1
        BY <3>2, <3>5, <1>1, <1>3, PeriodInMotion
      <4>2. d1.DoorState \in D!ManualMotion \cup D!AutomaticMotion
        BY <1>3 DEF D!Opening, D!Closing, D!ManualMotion, D!AutomaticMotion
      <4>3. ~D!Expired(d1, t)
        BY <2>3, <3>5, <4>2
      <4> QED
        BY <2>1, <4>1, <4>3 DEF e, d1
    <3> QED
      BY <3>3, <3>4, <3>5
  <2> QED
    BY <2>2, <2>3
<1> QED
  BY <1>6, <1>7, <1>8, <1>9, ReportFields

-----------------------------------------------------------------------------
(* The inductive invariant.  While a motion is disturbed by neither a hold nor
   the clock, the activation time tells how long ago it began: at least as long
   as the motor has been on, at most the activation duration.  While nothing has
   disturbed it, the motor is on, the period is the one that asked for it, and
   the door has travelled for that long. *)

Elapsed == Time - door.DoorActivationTime

TypeInv ==
  /\ Time \in D!Times \cup {D!NoTime}
  /\ mode \in {"unknown", "running", "stale"} /\ (mode = "running" => Time \in D!Times)
  /\ Sound(door)
  /\ position \in 0 .. Travel
  /\ ran \in Nat

Timely ==
  Driven(door) /\ flaws \cap {"hold", "clock"} = {} =>
    ran <= Elapsed /\ Elapsed <= DoorActivationDuration

Progress ==
  flaws = {} /\ UnderWay(door) =>
    /\ Driven(door)
    /\ door.DoorState = D!OPENING => D!InOpenPeriod(Time)
    /\ door.DoorState = D!CLOSING => ~D!InOpenPeriod(Time)
    /\ door.DoorState \in D!Opening => Least(Elapsed, Travel) <= position
    /\ door.DoorState \in D!Closing => Least(Elapsed, Travel) <= Travel - position

IInv == TypeInv /\ Timely /\ Progress /\ RestIsReal

(* A controller that has just been set up, on a door somewhere. *)
LEMMA NewDoor == RestsIn(D!DoorInit, D!AtRest) /\ D!DoorInit.DoorState = D!CLOSED
<1>1. D!CLOSED \in D!AtRest /\ D!CLOSED \in D!DoorStates /\ 0 \in Int
  BY States DEF D!AtRest
<1> QED
  BY <1>1, PinFacts DEF RestsIn, D!DoorInit, D!Door

(* A door at rest is sound, and its motor is off. *)
LEMMA RestingFacts ==
  ASSUME NEW d, RestsIn(d, D!AtRest)
  PROVE  Sound(d) /\ ~UnderWay(d) /\ ~Driven(d)
  BY States DEF RestsIn, Sound, UnderWay, Driven

LEMMA MotionFacts ==
  ASSUME NEW d, Sound(d)
  PROVE  /\ UnderWay(d) <=> d.DoorState \in D!Opening \cup D!Closing
         /\ Driven(d) => UnderWay(d)
         /\ ~UnderWay(d) => RestsIn(d, D!AtRest)
<1>1. d.DoorState \in D!DoorStates
  BY DEF Sound, D!Door
<1> QED
  BY <1>1, States DEF Sound, UnderWay, Driven, RestsIn

(* The clock over an iteration. *)
LEMMA ClockStep ==
  ASSUME TypeInv, NEW k \in 0 .. MaxStep, ReadClock(k)
  PROVE  /\ Time' \in D!Times \cup {D!NoTime}
         /\ mode' \in {"unknown", "running", "stale"} /\ (mode' = "running" => Time' \in D!Times)
         /\ mode = "running" /\ mode' = "running" => Time' = (Time + k) % SecondsPerDay
<1>1. D!Times = 0 .. SecondsPerDay - 1 /\ C!Times = 0 .. SecondsPerDay - 1
  BY DEF D!Times, C!Times
<1>2. CASE C!Advance /\ Time' = (Time + k) % SecondsPerDay
  <2>1. mode = "running" /\ mode' = "running"
    BY <1>2 DEF C!Advance
  <2>2. Time + k \in Nat
    BY <2>1, <1>1, Constants DEF TypeInv
  <2>3. Time' \in 0 .. SecondsPerDay - 1
    BY <1>2, <2>2, Constants
  <2> QED
    BY <1>1, <1>2, <2>1, <2>3
<1>3. CASE C!GoStale
  BY <1>3 DEF C!GoStale, TypeInv
<1>4. CASE C!Fix
  BY <1>1, <1>4 DEF C!Fix
<1>5. CASE mode # "running" /\ UNCHANGED <<Time, mode>>
  BY <1>5 DEF TypeInv
<1> QED
  BY <1>2, <1>3, <1>4, <1>5 DEF ReadClock

(* What the button says. *)
LEMMA ButtonStep == G!Next => button' \in Reports
<1>1. /\ G!NoReport = NoReport /\ G!Click = Click
      /\ G!Hold = Hold /\ G!HoldEnd = HoldEnd
  BY DEF G!NoReport, NoReport, G!Click, Click, G!Hold, Hold, G!HoldEnd, HoldEnd,
         G!Report, Report
<1> QED
  BY <1>1
  DEF G!Next, G!Idle, G!Press, G!Wait, G!HoldOn, G!EndClick, G!EndHold, Reports

(* The flaws noted in an iteration. *)
LEMMA FlawStep ==
  ASSUME NEW k, Observe(k)
  PROVE  /\ UnderWay(door) \/ ~UnderWay(door') => flaws \subseteq flaws'
         /\ button'.ButtonHold /\ (UnderWay(door) \/ UnderWay(door')) => "hold" \in flaws'
         /\ UnderWay(door) /\ ~(mode = "running" /\ mode' = "running") => "clock" \in flaws'
         /\ UnderWay(door) /\ button'.ButtonClicked => "cut" \in flaws'
         /\ UnderWay(door) /\ D!InOpenPeriod(Time) # D!InOpenPeriod(Time') => "cut" \in flaws'
<1>1. flaws' = Disturbances \cup
                 (IF ~UnderWay(door) /\ UnderWay(door') THEN {} ELSE flaws)
  BY DEF Observe
<1>2. UnderWay(door) \/ ~UnderWay(door') => flaws \subseteq flaws'
  BY <1>1
<1>3. Disturbances \subseteq flaws'
  BY <1>1
<1>4. button'.ButtonHold /\ (UnderWay(door) \/ UnderWay(door')) => "hold" \in Disturbances
  BY DEF Disturbances, Flaws
<1>5. UnderWay(door) /\ ~(mode = "running" /\ mode' = "running") => "clock" \in Disturbances
  BY DEF Disturbances, Flaws
<1>6. UnderWay(door) /\ button'.ButtonClicked => "cut" \in Disturbances
  BY DEF Disturbances, Flaws
<1>7. UnderWay(door) /\ D!InOpenPeriod(Time) # D!InOpenPeriod(Time') => "cut" \in Disturbances
  BY DEF Disturbances, Flaws
<1> QED
  BY <1>2, <1>3, <1>4, <1>5, <1>6, <1>7

(* The door over an iteration. *)
LEMMA DoorMoves ==
  ASSUME NEW k \in 0 .. MaxStep, position \in 0 .. Travel, Move(k)
  PROVE  /\ position' \in 0 .. Travel
         /\ door.pins = D!StartOpeningDoor => position' = Least(position + k, Travel)
         /\ door.pins = D!StartClosingDoor => position' = Most(position - k, 0)
         /\ door.pins = D!StopDoor => position' = position
<1>1. k \in Nat /\ position \in Nat /\ position <= Travel
  BY Constants
<1>2. CASE door.pins = D!StartOpeningDoor
  <2>1. position' = Least(position + k, Travel)
    BY <1>2, PinFacts DEF Move
  <2> QED
    BY <1>1, <1>2, <2>1, PinFacts, Constants DEF Least
<1>3. CASE door.pins = D!StartClosingDoor
  <2>1. position' = Most(position - k, 0)
    BY <1>3, PinFacts DEF Move
  <2> QED
    BY <1>1, <1>3, <2>1, PinFacts, Constants DEF Most
<1>4. CASE door.pins \notin {D!StartOpeningDoor, D!StartClosingDoor}
  BY <1>4 DEF Move
<1> QED
  BY <1>2, <1>3, <1>4

(* The time a motion has lasted advances with the clock, across midnight too. *)
LEMMA ElapsedStep ==
  ASSUME TypeInv, NEW k \in 0 .. MaxStep, Time \in D!Times,
         Elapsed \in 0 .. DoorActivationDuration,
         NEW t, t = (Time + k) % SecondsPerDay
  PROVE  t - D!Rebase(door, t).DoorActivationTime = Elapsed + k
<1> DEFINE a == door.DoorActivationTime
<1>1. a \in Int /\ door \in D!Door
  BY DEF TypeInv, Sound, D!Door
<1>2. Time \in Nat /\ Time < SecondsPerDay /\ k \in Nat /\ k <= MaxStep
  BY Constants DEF D!Times
<1>3. 0 <= Time - a /\ Time - a <= DoorActivationDuration
  BY <1>1, <1>2, Constants DEF Elapsed
<1>4. k < SecondsPerDay /\ Time - a + k < SecondsPerDay
  BY <1>1, <1>2, <1>3, Constants
<1>5. t = IF Time + k < SecondsPerDay THEN Time + k ELSE Time + k - SecondsPerDay
  <2>1. CASE Time + k < SecondsPerDay
    BY <2>1, <1>2, Constants
  <2>2. CASE Time + k >= SecondsPerDay
    <3> DEFINE u == Time + k - SecondsPerDay
    <3>1. u \in Nat /\ u < SecondsPerDay /\ Time + k = u + SecondsPerDay
      BY <2>2, <1>2, <1>4, Constants
    <3> HIDE DEF u
    <3>2. (u + SecondsPerDay) % SecondsPerDay = u
      BY <3>1, Constants
    <3> QED
      BY <3>1, <3>2, <2>2, <1>2, Constants
  <2> QED
    BY <2>1, <2>2, <1>2, Constants
<1>6. t \in Int
  BY <1>2, <1>5, Constants
<1>7. D!Rebase(door, t).DoorActivationTime = IF a > t THEN a - SecondsPerDay ELSE a
  BY <1>1, <1>6, RebaseFacts
<1> HIDE DEF a
<1>8. t - (IF a > t THEN a - SecondsPerDay ELSE a) = Time - a + k
  BY <1>1, <1>2, <1>3, <1>4, <1>5, Constants
<1> QED
  BY <1>7, <1>8 DEF Elapsed, a

(* An iteration that finds the door at rest. *)
LEMMA RestStep ==
  ASSUME IInv, NEW k \in 0 .. MaxStep, Loop(k), ~UnderWay(door)
  PROVE  Sound(door') /\ ran' \in Nat /\ position' \in 0 .. Travel
         /\ Timely' /\ Progress' /\ RestIsReal'
<1>1. RestsIn(door, D!AtRest) /\ ~Driven(door) /\ door.pins = D!StopDoor
  BY MotionFacts, RestingFacts DEF IInv, TypeInv, RestsIn
<1>2. Time' \in Int /\ button' \in Reports
  BY ClockStep, ButtonStep, Constants DEF IInv, Loop, D!Times
<1>3. ran' = 0
  BY <1>1 DEF Loop, Observe
<1>4. position' = position /\ position \in 0 .. Travel /\ position \in Nat
  BY <1>1, DoorMoves, Constants DEF IInv, TypeInv, Loop
<1>5. door' = D!Mutate(door, Time', button')
  BY DEF Loop
<1>6. \/ door.DoorState \in OpenStates /\ RestsIn(door', OpenStates)
      \/ door.DoorState \in ClosedStates /\ RestsIn(door', ClosedStates)
      \/ button'.ButtonHold /\ Sound(door') /\ UnderWay(door')
      \/ ~button'.ButtonHold /\ Starts(door', Time')
  BY <1>1, <1>2, <1>5, CallAtRest
<1>7. CASE \/ door.DoorState \in OpenStates /\ RestsIn(door', OpenStates)
           \/ door.DoorState \in ClosedStates /\ RestsIn(door', ClosedStates)
  <2>1. RestsIn(door', D!AtRest)
    BY <1>7, States DEF RestsIn
  <2>2. Sound(door') /\ ~UnderWay(door') /\ ~Driven(door')
    BY <2>1, RestingFacts
  <2>3. flaws \subseteq flaws'
    BY <2>2, FlawStep DEF Loop
  <2>4. Timely' /\ Progress'
    BY <2>2 DEF Timely, Progress
  <2>5. RestIsReal'
    <3>1. flaws' = {} => flaws = {}
      BY <2>3
    <3>2. \/ door.DoorState \in OpenStates /\ door'.DoorState \in OpenStates
          \/ door.DoorState \in ClosedStates /\ door'.DoorState \in ClosedStates
      BY <1>7 DEF RestsIn
    <3> QED
      BY <3>1, <3>2, <1>4, States DEF IInv, RestIsReal, OpenStates, ClosedStates
  <2> QED
    BY <1>3, <1>4, <2>2, <2>4, <2>5
<1>8. CASE button'.ButtonHold /\ Sound(door') /\ UnderWay(door')
  <2>1. "hold" \in flaws'
    BY <1>8, FlawStep DEF Loop
  <2>2. flaws' # {} /\ flaws' \cap {"hold", "clock"} # {}
    BY <2>1
  <2> QED
    BY <1>3, <1>4, <1>8, <2>2 DEF Timely, Progress, RestIsReal
<1>9. CASE ~button'.ButtonHold /\ Starts(door', Time')
  <2>1. /\ door'.DoorActivationTime = Time' /\ door' \in D!Door
        /\ door'.DoorState = D!OPENING => D!InOpenPeriod(Time')
        /\ door'.DoorState = D!CLOSING => ~D!InOpenPeriod(Time')
    BY <1>9 DEF Starts
  <2>2. \/ door'.DoorState \in D!Opening /\ door'.pins = D!StartOpeningDoor
        \/ door'.DoorState \in D!Closing /\ door'.pins = D!StartClosingDoor
    BY <1>9 DEF Starts
  <2>3. Sound(door') /\ door'.DoorState \notin D!AtRest /\ Driven(door')
    BY <2>1, <2>2, States, PinFacts DEF Sound, Driven
  <2>4. Elapsed' = 0
    <3>1. Elapsed' = Time' - door'.DoorActivationTime
      BY DEF Elapsed
    <3>2. \A n \in Int : n - n = 0
      OBVIOUS
    <3>3. Time' - Time' = 0
      BY <1>2, <3>2
    <3> QED
      BY <2>1, <3>1, <3>3, Zenon
  <2>5. Least(0, Travel) = 0
    BY Constants DEF Least
  <2>6. Timely'
    BY <1>3, <2>4, Constants DEF Timely
  <2>7. Least(Elapsed', Travel) <= position' /\ Least(Elapsed', Travel) <= Travel - position'
    BY <1>4, <2>4, <2>5, Constants
  <2>8. Progress'
    BY <2>1, <2>3, <2>7 DEF Progress
  <2>9. RestIsReal'
    BY <2>3 DEF RestIsReal, D!AtRest
  <2> QED
    BY <1>3, <1>4, <2>3, <2>6, <2>8, <2>9
<1> QED
  BY <1>6, <1>7, <1>8, <1>9

(* An iteration that finds it in motion. *)
LEMMA MotionStep ==
  ASSUME IInv, NEW k \in 0 .. MaxStep, Loop(k), UnderWay(door)
  PROVE  Sound(door') /\ ran' \in Nat /\ position' \in 0 .. Travel
         /\ Timely' /\ Progress' /\ RestIsReal'
<1> DEFINE d1 == D!Rebase(door, Time')
<1>1. Sound(door) /\ door.DoorState \in D!Opening \cup D!Closing /\ door \in D!Door
  BY MotionFacts DEF IInv, TypeInv, Sound
<1>2. Time' \in Int /\ button' \in Reports /\ k \in Nat
  BY ClockStep, ButtonStep, Constants DEF IInv, Loop, D!Times
<1>3. ran' = (IF Driven(door) THEN Least(ran + k, RanBound) ELSE 0) /\ ran \in Nat
  BY DEF Loop, Observe, IInv, TypeInv
<1>4. ran' \in Nat /\ ran' <= ran + k
  BY <1>2, <1>3, Constants DEF Least, RanBound
<1>5. /\ position' \in 0 .. Travel /\ position \in 0 .. Travel
      /\ door.pins = D!StartOpeningDoor => position' = Least(position + k, Travel)
      /\ door.pins = D!StartClosingDoor => position' = Most(position - k, 0)
  BY DoorMoves DEF IInv, TypeInv, Loop
<1>6. /\ flaws \subseteq flaws'
      /\ button'.ButtonHold => "hold" \in flaws'
      /\ ~(mode = "running" /\ mode' = "running") => "clock" \in flaws'
      /\ button'.ButtonClicked => "cut" \in flaws'
      /\ D!InOpenPeriod(Time) # D!InOpenPeriod(Time') => "cut" \in flaws'
  BY FlawStep DEF Loop
<1>7. door' = D!Mutate(door, Time', button')
  BY DEF Loop
<1>8. \/ /\ door' = d1 /\ button' # Click
         /\ button' = NoReport /\ Time' # D!NoTime => ~D!Expired(d1, Time')
      \/ /\ button'.ButtonHold /\ Sound(door') /\ door'.DoorState = door.DoorState
         /\ door'.pins = D!StopDoor
      \/ /\ RestsIn(door', D!AtRest)
         /\ button' = NoReport => D!Expired(d1, Time') /\ EndsIn(door, door', Time')
  BY <1>1, <1>2, <1>7, CallInMotion
<1>9. /\ d1 \in D!Door /\ d1.DoorState = door.DoorState /\ d1.pins = door.pins
      /\ D!Expired(d1, Time') <=> Time' - d1.DoorActivationTime > DoorActivationDuration
  BY <1>1, <1>2, RebaseFacts, ExpiredIs
(* While neither hold nor clock disturb it, the motion is dated. *)
<1>10. ASSUME flaws' \cap {"hold", "clock"} = {}, Driven(door)
       PROVE  /\ Time' \in D!Times /\ button' \in {NoReport, Click}
              /\ ran <= Elapsed /\ Elapsed \in 0 .. DoorActivationDuration
              /\ Time' - d1.DoorActivationTime = Elapsed + k
  <2>1. flaws \cap {"hold", "clock"} = {} /\ mode = "running" /\ mode' = "running"
    BY <1>6, <1>10
  <2>2. button' \in {NoReport, Click}
    BY <1>2, <1>6, <1>10, ReportFields
  <2>3. ran <= Elapsed /\ Elapsed <= DoorActivationDuration
    BY <2>1, <1>10 DEF IInv, Timely
  <2>4. Time \in D!Times /\ Time' \in D!Times /\ Time' = (Time + k) % SecondsPerDay
    BY <2>1, ClockStep DEF IInv, TypeInv, Loop
  <2>5. Elapsed \in Int
    BY <2>4, <1>1, Constants DEF Elapsed, D!Times, D!Door
  <2>6. Elapsed \in 0 .. DoorActivationDuration
    BY <2>3, <2>5, <1>3, Constants
  <2> QED
    BY <2>2, <2>3, <2>4, <2>6, ElapsedStep DEF IInv
<1>11. ASSUME flaws' = {}
       PROVE  /\ button' = NoReport /\ Driven(door)
              /\ door.DoorState = D!OPENING => D!InOpenPeriod(Time')
              /\ door.DoorState = D!CLOSING => ~D!InOpenPeriod(Time')
              /\ door.DoorState \in D!Opening => Least(Elapsed + k, Travel) <= position'
              /\ door.DoorState \in D!Closing => Least(Elapsed + k, Travel) <= Travel - position'
  <2>1. flaws = {} /\ D!InOpenPeriod(Time) = D!InOpenPeriod(Time') /\ ~button'.ButtonClicked
    BY <1>6, <1>11
  <2>2. Driven(door) /\ Progress
    BY <2>1 DEF IInv, Progress
  <2>3. button' = NoReport /\ Elapsed \in Nat
    <3>1. flaws' \cap {"hold", "clock"} = {}
      BY <1>11
    <3>2. button' \in {NoReport, Click} /\ Elapsed \in 0 .. DoorActivationDuration
      BY <1>10, <2>2, <3>1
    <3>3. button' # Click
      BY <1>2, <2>1, ReportFields
    <3> QED
      BY <3>2, <3>3, Constants
  <2>4. /\ door.DoorState \in D!Opening => door.pins = D!StartOpeningDoor
        /\ door.DoorState \in D!Closing => door.pins = D!StartClosingDoor
    BY <2>2, <1>1 DEF Sound, Driven
  <2>5. ASSUME door.DoorState \in D!Opening PROVE Least(Elapsed + k, Travel) <= position'
    <3>1. Least(Elapsed, Travel) <= position /\ position' = Least(position + k, Travel)
      BY <1>5, <2>1, <2>2, <2>4, <2>5 DEF Progress
    <3> QED
      BY <3>1, <2>3, <1>2, <1>5, Constants DEF Least
  <2>6. ASSUME door.DoorState \in D!Closing PROVE Least(Elapsed + k, Travel) <= Travel - position'
    <3>1. Least(Elapsed, Travel) <= Travel - position /\ position' = Most(position - k, 0)
      BY <1>5, <2>1, <2>2, <2>4, <2>6 DEF Progress
    <3> QED
      BY <3>1, <2>3, <1>2, <1>5, Constants DEF Least, Most
  <2> QED
    BY <2>1, <2>2, <2>3, <2>5, <2>6 DEF Progress
<1> HIDE DEF d1
<1>12. CASE /\ door' = d1 /\ button' # Click
            /\ button' = NoReport /\ Time' # D!NoTime => ~D!Expired(d1, Time')
  <2>1. Sound(door') /\ (Driven(door') <=> Driven(door)) /\ UnderWay(door')
    BY <1>1, <1>9, <1>12, States DEF Sound, Driven, UnderWay
  <2>2. ASSUME flaws' \cap {"hold", "clock"} = {}, Driven(door)
        PROVE  ran' <= Elapsed' /\ Elapsed' <= DoorActivationDuration /\ Elapsed' = Elapsed + k
    <3>1. Elapsed' = Elapsed + k
      BY <1>10, <1>12, <2>2 DEF Elapsed
    <3>2. ~D!Expired(d1, Time')
      BY <1>10, <1>12, <2>2, Constants DEF D!Times
    <3>3. Elapsed + k <= DoorActivationDuration
      BY <3>2, <1>2, <1>9, <1>10, <2>2, Constants
    <3> QED
      BY <3>1, <3>3, <1>2, <1>3, <1>4, <1>10, <2>2, Constants
  <2>3. Timely'
    BY <2>1, <2>2 DEF Timely
  <2>4. Progress'
    <3> SUFFICES ASSUME flaws' = {} PROVE
           /\ Driven(door')
           /\ door'.DoorState = D!OPENING => D!InOpenPeriod(Time')
           /\ door'.DoorState = D!CLOSING => ~D!InOpenPeriod(Time')
           /\ door'.DoorState \in D!Opening => Least(Elapsed', Travel) <= position'
           /\ door'.DoorState \in D!Closing => Least(Elapsed', Travel) <= Travel - position'
      BY DEF Progress
    <3>1. door'.DoorState = door.DoorState
      BY <1>9, <1>12
    <3>2. Elapsed' = Elapsed + k
      BY <1>11, <2>2
    <3> QED
      BY <3>1, <3>2, <2>1, <1>11
  <2>5. RestIsReal'
    BY <2>1 DEF UnderWay, RestIsReal, D!AtRest
  <2> QED
    BY <1>4, <1>5, <2>1, <2>3, <2>4, <2>5
<1>13. CASE /\ button'.ButtonHold /\ Sound(door') /\ door'.DoorState = door.DoorState
            /\ door'.pins = D!StopDoor
  <2>1. flaws' # {} /\ ~Driven(door')
    BY <1>6, <1>13 DEF Driven
  <2> QED
    BY <1>4, <1>5, <1>13, <2>1 DEF Timely, Progress, RestIsReal
<1>14. CASE /\ RestsIn(door', D!AtRest)
            /\ button' = NoReport => D!Expired(d1, Time') /\ EndsIn(door, door', Time')
  <2>1. Sound(door') /\ ~UnderWay(door') /\ ~Driven(door')
    BY <1>14, RestingFacts
  <2>2. ASSUME flaws' = {}
        PROVE  /\ door'.DoorState \in OpenStates => position' = Travel
               /\ door'.DoorState \in ClosedStates => position' = 0
    <3>1. button' = NoReport /\ Driven(door) /\ flaws' \cap {"hold", "clock"} = {}
      BY <1>11, <2>2
    <3>2. Elapsed + k > DoorActivationDuration /\ Elapsed \in Nat
      BY <3>1, <1>9, <1>10, <1>14, Constants
    <3>3. Least(Elapsed + k, Travel) = Travel
      BY <3>2, <1>2, Constants DEF Least
    <3>4. EndsIn(door, door', Time')
      BY <3>1, <1>14
    <3>5. CASE door.DoorState \in D!Opening
      <4>1. position' = Travel
        BY <3>3, <3>5, <1>5, <1>11, <2>2, Constants
      <4>2. \/ door.DoorState = D!MANUAL_OPENING
            \/ door.DoorState = D!OPENING /\ D!InOpenPeriod(Time')
        BY <3>5, <1>11, <2>2 DEF D!Opening
      <4>3. door'.DoorState \in OpenStates
        BY <3>4, <4>2 DEF EndsIn, RestsIn
      <4> QED
        BY <4>1, <4>3, States
    <3>6. CASE door.DoorState \in D!Closing
      <4>1. position' = 0
        BY <3>3, <3>6, <1>5, <1>11, <2>2, Constants
      <4>2. \/ door.DoorState = D!MANUAL_CLOSING
            \/ door.DoorState = D!CLOSING /\ ~D!InOpenPeriod(Time')
        BY <3>6, <1>11, <2>2 DEF D!Closing
      <4>3. door.DoorState \notin {D!MANUAL_OPENING, D!OPENING}
        BY <3>6 DEF D!Closing
      <4>4. door'.DoorState \in ClosedStates
        BY <3>4, <4>2, <4>3 DEF EndsIn, RestsIn
      <4> QED
        BY <4>1, <4>4, States
    <3> QED
      BY <3>5, <3>6, <1>1
  <2>3. RestIsReal'
    BY <2>2 DEF RestIsReal, OpenStates, ClosedStates
  <2> QED
    BY <1>4, <1>5, <2>1, <2>3 DEF Timely, Progress
<1> QED
  BY <1>8, <1>12, <1>13, <1>14

LEMMA InitIInv == Init => IInv
<1> SUFFICES ASSUME Init PROVE IInv
  OBVIOUS
<1>1. /\ Time = D!NoTime /\ mode = "unknown"
      /\ door = D!DoorInit /\ position \in 0 .. Travel /\ ran = 0
      /\ flaws = IF position = 0 THEN {} ELSE {"cut"}
  BY DEF Init, C!Init, C!NoTime
<1>2. RestsIn(door, D!AtRest) /\ door.DoorState = D!CLOSED
  BY <1>1, NewDoor
<1>3. Sound(door) /\ ~UnderWay(door) /\ ~Driven(door)
  BY <1>2, RestingFacts
<1>4. RestIsReal
  BY <1>1, <1>2 DEF RestIsReal
<1> QED
  BY <1>1, <1>3, <1>4 DEF IInv, TypeInv, Timely, Progress

(* Every step keeps the invariant. *)
LEMMA NextIInv == IInv /\ [Next]_vars => IInv'
<1> SUFFICES ASSUME IInv, [Next]_vars PROVE IInv'
  OBVIOUS
<1>1. ASSUME NEW k \in 0 .. MaxStep, Loop(k) PROVE IInv'
  <2>1. /\ Time' \in D!Times \cup {D!NoTime}
        /\ mode' \in {"unknown", "running", "stale"} /\ (mode' = "running" => Time' \in D!Times)
    BY <1>1, ClockStep DEF IInv, Loop
  <2>2. Sound(door') /\ ran' \in Nat /\ position' \in 0 .. Travel
        /\ Timely' /\ Progress' /\ RestIsReal'
    BY <1>1, RestStep, MotionStep
  <2> QED
    BY <2>1, <2>2 DEF IInv, TypeInv, Sound
<1>2. CASE Reset
  <2>1. /\ Time' = D!NoTime /\ mode' = "unknown" /\ door' = D!DoorInit
        /\ position' = position /\ ran' = 0 /\ flaws' # {}
    BY <1>2 DEF Reset, C!NoTime
  <2>2. Sound(door') /\ ~Driven(door')
    BY <2>1, NewDoor, RestingFacts
  <2> QED
    BY <2>1, <2>2 DEF IInv, TypeInv, Sound, Timely, Progress, RestIsReal
<1>3. CASE UNCHANGED vars
  BY <1>3 DEF vars, IInv, TypeInv, Sound, Timely, Progress, RestIsReal, Elapsed, Driven,
              UnderWay
<1> QED
  BY <1>1, <1>2, <1>3 DEF Next

(* The invariant holds of every behaviour. *)
LEMMA SpecIInv == Spec => []IInv
  BY InitIInv, NextIInv, PTL DEF Spec

(* No motor is on for longer than the activation duration. *)
THEOREM MotorIsTimely == Spec => []MotorTimely
<1>1. IInv => MotorTimely
  <2> SUFFICES ASSUME IInv, Driven(door), flaws \cap {"hold", "clock"} = {}
               PROVE  ran <= DoorActivationDuration
    BY DEF MotorTimely
  <2>1. ran <= Elapsed /\ Elapsed <= DoorActivationDuration /\ ran \in Nat
    BY DEF IInv, Timely, TypeInv
  <2>2. Elapsed \in Int
    BY Constants DEF IInv, TypeInv, Sound, Elapsed, D!Times, D!Door
  <2> QED
    BY <2>1, <2>2, Constants
<1> QED
  BY <1>1, SpecIInv, PTL

(* A door at rest is where it is recorded to be. *)
THEOREM RestingDoorIsReal == Spec => []RestIsReal
<1>1. IInv => RestIsReal
  BY DEF IInv
<1> QED
  BY <1>1, SpecIInv, PTL

=============================================================================
