-------------------------- MODULE DoorMutatorProofs --------------------------
(***************************************************************************)
(* Theorems about DoorMutator for every schedule, duration and day length.  *)
(* MutateState is a pipeline of blocks, so what a call preserves is what    *)
(* each block preserves: one lemma per block, chained in MutateInv.         *)
(***************************************************************************)
EXTENDS DoorMutator, TLAPS

Clock == Times \cup {NoTime}

(* What holds of the door record between calls: it is well typed, the motor
   matches the state, and the activation time is of today or yesterday. *)
DoorInv(d) ==
  /\ d \in Door
  /\ MotorMatches(d)
  /\ d.DoorActivationTime \in -SecondsPerDay .. SecondsPerDay - 1

(* Inside a call at time t the activation time is no longer in the future. *)
CallInv(d, t) == DoorInv(d) /\ d.DoorActivationTime <= t

USE DEF LOW, HIGH, NoTime, CLOSED, OPENING, CLOSING, OPEN, MANUAL_CLOSED,
        MANUAL_OPENING, MANUAL_CLOSING, MANUAL_OPEN

(* The rebase brings an activation time of the day before into the range that
   the rest of a call relies on, and changes nothing else. *)
LEMMA RebaseInv ==
  ASSUME NEW d, NEW t \in Clock, DoorInv(d)
  PROVE  /\ CallInv(Rebase(d, t), t)
         /\ Rebase(d, t).DoorState = d.DoorState
         /\ Rebase(d, t).pins = d.pins
  BY DoorAssumption
  DEF Clock, Times, DoorInv, CallInv, Rebase, Door, MotorMatches

(* The pins of the three helpers are distinct and well typed. *)
LEMMA PinFacts ==
  /\ {StartOpeningDoor, StartClosingDoor, StopDoor} \subseteq Pins
  /\ StartOpeningDoor # StartClosingDoor
  /\ StartOpeningDoor # StopDoor
  /\ StartClosingDoor # StopDoor
<1>1. StartOpeningDoor.POWER_PIN = 255 /\ StopDoor.POWER_PIN = 0
      /\ StartClosingDoor.POWER_PIN = 255
  BY DEF StartOpeningDoor, StartClosingDoor, StopDoor
<1>2. StartOpeningDoor.OPEN_PIN = HIGH /\ StartClosingDoor.OPEN_PIN = LOW
  BY DEF StartOpeningDoor, StartClosingDoor
<1>3. {StartOpeningDoor, StartClosingDoor, StopDoor} \subseteq Pins
  BY DEF StartOpeningDoor, StartClosingDoor, StopDoor, Pins
<1> QED
  BY <1>1, <1>2, <1>3

(* The fields of a door record after each of the two updates. *)
LEMMA BeginFacts ==
  ASSUME NEW d \in Door, NEW st \in DoorStates, NEW a \in Int, NEW p \in Pins
  PROVE  /\ Begin(d, st, a, p) \in Door
         /\ Begin(d, st, a, p).DoorState = st
         /\ Begin(d, st, a, p).DoorActivationTime = a
         /\ Begin(d, st, a, p).pins = p
  BY DEF Begin, Door

(* The same for an update that keeps the activation time. *)
LEMMA SetFacts ==
  ASSUME NEW d \in Door, NEW st \in DoorStates, NEW p \in Pins
  PROVE  /\ Set(d, st, p) \in Door
         /\ Set(d, st, p).DoorState = st
         /\ Set(d, st, p).DoorActivationTime = d.DoorActivationTime
         /\ Set(d, st, p).pins = p
  BY DEF Set, Door

(* A state and the pins that go with it when a block sets both. *)
Matching(st, p) ==
  \/ st \in DoorStates \ ManualMotion /\ p = StopDoor
  \/ st \in Opening /\ p = StartOpeningDoor
  \/ st \in Closing /\ p = StartClosingDoor

(* Matching values are well typed. *)
LEMMA MatchingTypes ==
  ASSUME NEW st, NEW p, Matching(st, p)
  PROVE  st \in DoorStates /\ p \in Pins
  BY PinFacts DEF Matching, DoorStates

(* A door set to matching values has the motor its state asks for. *)
LEMMA MatchingFacts ==
  ASSUME NEW d, Matching(d.DoorState, d.pins)
  PROVE  MotorMatches(d)
  BY PinFacts
  DEF Matching, MotorMatches, DoorStates, AtRest, Opening, Closing, ManualMotion

(* A motion begun with matching pins keeps the invariant of a call. *)
LEMMA BeginInv ==
  ASSUME NEW d, NEW t \in Clock, CallInv(d, t), NEW st, NEW p, Matching(st, p)
  PROVE  CallInv(Begin(d, st, t, p), t)
<1>1. t \in Int /\ t \in -SecondsPerDay .. SecondsPerDay - 1
  BY DoorAssumption DEF Clock, Times
<1>2. d \in Door
  BY DEF CallInv, DoorInv
<1>3. /\ Begin(d, st, t, p) \in Door
      /\ Begin(d, st, t, p).DoorState = st
      /\ Begin(d, st, t, p).DoorActivationTime = t
      /\ Begin(d, st, t, p).pins = p
  BY <1>1, <1>2, MatchingTypes, BeginFacts
<1>4. MotorMatches(Begin(d, st, t, p))
  BY <1>3, MatchingFacts
<1> QED
  BY <1>1, <1>3, <1>4 DEF CallInv, DoorInv

(* So does a change of state with matching pins. *)
LEMMA SetInv ==
  ASSUME NEW d, NEW t \in Clock, CallInv(d, t), NEW st, NEW p, Matching(st, p)
  PROVE  CallInv(Set(d, st, p), t)
<1>1. d \in Door
  BY DEF CallInv, DoorInv
<1>2. /\ Set(d, st, p) \in Door
      /\ Set(d, st, p).DoorState = st
      /\ Set(d, st, p).DoorActivationTime = d.DoorActivationTime
      /\ Set(d, st, p).pins = p
  BY <1>1, MatchingTypes, SetFacts
<1>3. MotorMatches(Set(d, st, p))
  BY <1>2, MatchingFacts
<1> QED
  BY <1>2, <1>3 DEF CallInv, DoorInv

(* Every motion that is cut short is left in a matching state of rest. *)
LEMMA RestMatches ==
  ASSUME NEW st
  PROVE  Matching(ManualRest(st), StopDoor)
  BY DEF Matching, ManualRest, DoorStates, AtRest, ManualMotion

(* The cases in which the handler splits the door states. *)
LEMMA DoorStateCases ==
  ASSUME NEW d, NEW t, CallInv(d, t)
  PROVE  \/ d.DoorState \in {CLOSED, MANUAL_CLOSED}
         \/ d.DoorState \in {OPEN, MANUAL_OPEN}
         \/ d.DoorState \in Opening \cup Closing
  BY DEF CallInv, DoorInv, Door, DoorStates, AtRest

(* The block for clicks keeps the invariant of a call. *)
LEMMA OnClickInv ==
  ASSUME NEW d, NEW t \in Clock, NEW b \in Reports, CallInv(d, t)
  PROVE  CallInv(OnClick(d, t, b), t)
<1>1. CASE ~b.ButtonClicked
  BY <1>1 DEF OnClick
<1>2. CASE b.ButtonClicked /\ d.DoorState \in {CLOSED, MANUAL_CLOSED}
  <2>1. OnClick(d, t, b) = Begin(d, MANUAL_OPENING, t, StartOpeningDoor)
    BY <1>2 DEF OnClick, Opening, Closing
  <2>2. Matching(MANUAL_OPENING, StartOpeningDoor)
    BY DEF Matching, Opening
  <2> QED BY <2>1, <2>2, BeginInv
<1>3. CASE b.ButtonClicked /\ d.DoorState \in {OPEN, MANUAL_OPEN}
  <2>1. OnClick(d, t, b) = Begin(d, MANUAL_CLOSING, t, StartClosingDoor)
    BY <1>3 DEF OnClick, Opening, Closing
  <2>2. Matching(MANUAL_CLOSING, StartClosingDoor)
    BY DEF Matching, Closing
  <2> QED BY <2>1, <2>2, BeginInv
<1>4. CASE b.ButtonClicked /\ d.DoorState \in Opening \cup Closing
  <2>1. OnClick(d, t, b) = Set(d, ManualRest(d.DoorState), StopDoor)
    BY <1>4 DEF OnClick, Opening, Closing
  <2> QED BY <2>1, RestMatches, SetInv
<1> QED
  BY <1>1, <1>2, <1>3, <1>4, DoorStateCases

(* So does the timeout of a manual motion. *)
LEMMA OnManualTimeoutInv ==
  ASSUME NEW d, NEW t \in Clock, NEW b \in Reports, CallInv(d, t)
  PROVE  CallInv(OnManualTimeout(d, t, b), t)
  BY RestMatches, SetInv DEF OnManualTimeout

(* So does the block for holds. *)
LEMMA OnHoldInv ==
  ASSUME NEW d, NEW t \in Clock, NEW b \in Reports, CallInv(d, t)
  PROVE  CallInv(OnHold(d, b), t)
<1>1. CASE ~b.ButtonHold
  BY <1>1 DEF OnHold
<1>2. CASE b.ButtonHold /\ b.ButtonReleased /\ d.DoorState \in ManualMotion
  <2>1. OnHold(d, b) = Set(d, ManualRest(d.DoorState), StopDoor)
    BY <1>2 DEF OnHold
  <2> QED BY <2>1, RestMatches, SetInv
<1>3. CASE b.ButtonHold /\ b.ButtonReleased /\ d.DoorState \notin ManualMotion
  <2>1. OnHold(d, b) = Set(d, d.DoorState, StopDoor)
    BY <1>3 DEF OnHold
  <2>2. Matching(d.DoorState, StopDoor)
    BY <1>3 DEF Matching, CallInv, DoorInv, Door
  <2> QED BY <2>1, <2>2, SetInv
<1>4. CASE /\ b.ButtonHold /\ ~b.ButtonReleased
           /\ d.DoorState \in {CLOSED, MANUAL_CLOSED}
  <2>1. OnHold(d, b) = Set(d, MANUAL_OPENING, StartOpeningDoor)
    BY <1>4 DEF OnHold, Opening, Closing
  <2>2. Matching(MANUAL_OPENING, StartOpeningDoor)
    BY DEF Matching, Opening
  <2> QED BY <2>1, <2>2, SetInv
<1>5. CASE /\ b.ButtonHold /\ ~b.ButtonReleased
           /\ d.DoorState \in {OPEN, MANUAL_OPEN}
  <2>1. OnHold(d, b) = Set(d, MANUAL_CLOSING, StartClosingDoor)
    BY <1>5 DEF OnHold, Opening, Closing
  <2>2. Matching(MANUAL_CLOSING, StartClosingDoor)
    BY DEF Matching, Closing
  <2> QED BY <2>1, <2>2, SetInv
<1>6. CASE /\ b.ButtonHold /\ ~b.ButtonReleased
           /\ d.DoorState \in Opening \cup Closing
  BY <1>6 DEF OnHold, Opening, Closing
<1> QED
  BY <1>1, <1>2, <1>3, <1>4, <1>5, <1>6, DoorStateCases

(* The cases of the schedule, as a disjunction. *)
LEMMA OnPeriodCases ==
  ASSUME NEW d, NEW t
  PROVE  \/ d.DoorState = MANUAL_OPEN /\ OnPeriod(d, t) = Set(d, OPEN, d.pins)
         \/ d.DoorState = MANUAL_CLOSED /\ OnPeriod(d, t) = Set(d, CLOSED, d.pins)
         \/ /\ d.DoorState = CLOSED /\ InOpenPeriod(t)
            /\ OnPeriod(d, t) = Begin(d, OPENING, t, StartOpeningDoor)
         \/ /\ d.DoorState = OPEN /\ ~InOpenPeriod(t)
            /\ OnPeriod(d, t) = Begin(d, CLOSING, t, StartClosingDoor)
         \/ /\ d.DoorState \in AutomaticMotion
            /\ OnPeriod(d, t) = Set(d, Scheduled(t), StopDoor)
         \/ OnPeriod(d, t) = d
<1>1. CASE InOpenPeriod(t) /\ d.DoorState = MANUAL_OPEN
  BY <1>1 DEF OnPeriod, AutomaticMotion
<1>2. CASE ~InOpenPeriod(t) /\ d.DoorState = MANUAL_CLOSED
  BY <1>2 DEF OnPeriod, AutomaticMotion
<1>3. CASE InOpenPeriod(t) /\ d.DoorState = CLOSED
  BY <1>3 DEF OnPeriod, AutomaticMotion
<1>4. CASE ~InOpenPeriod(t) /\ d.DoorState = OPEN
  BY <1>4 DEF OnPeriod, AutomaticMotion
<1>5. CASE d.DoorState \in AutomaticMotion /\ Expired(d, t)
  BY <1>5 DEF OnPeriod, AutomaticMotion
<1>6. CASE /\ ~(InOpenPeriod(t) /\ d.DoorState = MANUAL_OPEN)
           /\ ~(~InOpenPeriod(t) /\ d.DoorState = MANUAL_CLOSED)
           /\ ~(InOpenPeriod(t) /\ d.DoorState = CLOSED)
           /\ ~(~InOpenPeriod(t) /\ d.DoorState = OPEN)
           /\ ~(d.DoorState \in AutomaticMotion /\ Expired(d, t))
  BY <1>6 DEF OnPeriod
<1> QED
  BY <1>1, <1>2, <1>3, <1>4, <1>5, <1>6

(* So does the schedule. *)
LEMMA OnPeriodInv ==
  ASSUME NEW d, NEW t \in Clock, CallInv(d, t)
  PROVE  CallInv(OnPeriod(d, t), t)
<1>1. CASE d.DoorState = MANUAL_OPEN /\ OnPeriod(d, t) = Set(d, OPEN, d.pins)
  <2>1. Matching(OPEN, d.pins)
    BY <1>1 DEF CallInv, DoorInv, MotorMatches, Matching, DoorStates, AtRest,
                ManualMotion
  <2> QED BY <1>1, <2>1, SetInv
<1>2. CASE d.DoorState = MANUAL_CLOSED /\ OnPeriod(d, t) = Set(d, CLOSED, d.pins)
  <2>1. Matching(CLOSED, d.pins)
    BY <1>2 DEF CallInv, DoorInv, MotorMatches, Matching, DoorStates, AtRest,
                ManualMotion
  <2> QED BY <1>2, <2>1, SetInv
<1>3. CASE OnPeriod(d, t) = Begin(d, OPENING, t, StartOpeningDoor)
  <2>1. Matching(OPENING, StartOpeningDoor)
    BY DEF Matching, Opening
  <2> QED BY <1>3, <2>1, BeginInv
<1>4. CASE OnPeriod(d, t) = Begin(d, CLOSING, t, StartClosingDoor)
  <2>1. Matching(CLOSING, StartClosingDoor)
    BY DEF Matching, Closing
  <2> QED BY <1>4, <2>1, BeginInv
<1>5. CASE OnPeriod(d, t) = Set(d, Scheduled(t), StopDoor)
  <2>1. Matching(Scheduled(t), StopDoor)
    BY DEF Scheduled, Matching, DoorStates, AtRest, ManualMotion
  <2> QED BY <1>5, <2>1, SetInv
<1>6. CASE OnPeriod(d, t) = d
  BY <1>6
<1> QED
  BY <1>1, <1>2, <1>3, <1>4, <1>5, <1>6, OnPeriodCases

(* A whole call, from the rebase to the schedule, keeps the invariant. *)
LEMMA MutateInv ==
  ASSUME NEW d, NEW t \in Clock, NEW b \in Reports, DoorInv(d)
  PROVE  CallInv(Mutate(d, t, b), t)
<1> DEFINE d1 == Rebase(d, t)
           d2 == OnClick(d1, t, b)
           d3 == OnManualTimeout(d2, t, b)
           d4 == OnHold(d3, b)
<1>1. CallInv(d1, t)
  BY RebaseInv
<1>2. CallInv(d2, t)
  BY <1>1, OnClickInv
<1>3. CallInv(d3, t)
  BY <1>2, OnManualTimeoutInv
<1>4. CallInv(d4, t)
  BY <1>3, OnHoldInv
<1>5. CallInv(OnPeriod(d4, t), t)
  BY <1>4, OnPeriodInv
<1> HIDE DEF d1, d2, d3, d4
<1>6. CallInv(OnSchedule(d4, t, b), t)
  BY <1>4, <1>5 DEF OnSchedule
<1> QED
  BY <1>6 DEF Mutate, d1, d2, d3, d4

-----------------------------------------------------------------------------
(* The inductive invariant of typing and motor: DoorInv alone is not enough for
   ElapsedInRange, which also needs that no call leaves the activation time of
   a moving door in the future. *)
IInv ==
  /\ Time \in Clock
  /\ button \in Reports
  /\ DoorInv(door)
  /\ door.DoorState \notin AtRest => door.DoorActivationTime <= Time
  /\ override \subseteq {"closed", "open"}

(* The invariant holds of a controller that has just been set up. *)
LEMMA InitIInv == Init => IInv
<1> SUFFICES ASSUME Init PROVE IInv
  OBVIOUS
<1>1. door.DoorState = CLOSED /\ door.DoorActivationTime = 0 /\ door.pins = StopDoor
  BY DEF Init, DoorInit
<1>2. door \in Door
  BY PinFacts DEF Init, DoorInit, Door, DoorStates, AtRest
<1>3. Matching(CLOSED, StopDoor)
  BY DEF Matching, DoorStates, AtRest, ManualMotion
<1>4. MotorMatches(door)
  BY <1>1, <1>3, MatchingFacts
<1>5. DoorInv(door)
  BY <1>1, <1>2, <1>4, DoorAssumption DEF DoorInv
<1> QED
  BY <1>1, <1>5 DEF Init, IInv, Clock, AtRest, Reports

(* The calls Next makes. *)
LEMMA NextCalls ==
  ASSUME Next
  PROVE  \E t \in Clock, b \in Reports : MutateState(t, b)
  BY DEF Next, Clock

(* Every step keeps the invariant. *)
LEMMA NextIInv == IInv /\ [Next]_vars => IInv'
<1> SUFFICES ASSUME IInv, [Next]_vars PROVE IInv'
  OBVIOUS
<1>1. CASE UNCHANGED vars
  BY <1>1 DEF vars, IInv, DoorInv, MotorMatches
<1>2. CASE Next
  <2>1. PICK t \in Clock, b \in Reports : MutateState(t, b)
    BY <1>2, NextCalls
  <2>2. CallInv(Mutate(door, t, b), t)
    BY MutateInv DEF IInv
  <2>3. /\ Time' = t /\ button' = b /\ door' = Mutate(door, t, b)
        /\ override' \subseteq {"closed", "open"}
    BY <2>1 DEF MutateState, Remember
  <2>4. CallInv(door', Time')
    BY <2>2, <2>3
  <2> QED
    BY <2>3, <2>4 DEF IInv, CallInv, DoorInv, MotorMatches
<1> QED
  BY <1>1, <1>2

(* The invariant holds at all times. *)
LEMMA SpecIInv == Spec => []IInv
  BY InitIInv, NextIInv, PTL DEF Spec

(* Whatever the schedule and the duration, the handler keeps every field in its
   range. *)
THEOREM TypeCorrect == Spec => []TypeOK
<1>1. IInv => TypeOK
  BY DEF IInv, TypeOK, Clock, DoorInv
<1> QED
  BY <1>1, SpecIInv, PTL

(* Whatever the schedule and the duration, the motor is idle in every state of
   rest and runs in the recorded direction in every manual motion. *)
THEOREM MotorSafe == Spec => []MotorMatchesState
<1>1. IInv => MotorMatchesState
  BY DEF IInv, MotorMatchesState, DoorInv
<1> QED
  BY <1>1, SpecIInv, PTL

(* Whatever the clock does, including a fix that sets it back across midnight,
   the elapsed time of a motion is not negative and below two days. *)
THEOREM ElapsedSafe == Spec => []ElapsedInRange
<1>1. IInv => ElapsedInRange
  <2> SUFFICES ASSUME IInv, door.DoorState \notin AtRest
               PROVE  Time - door.DoorActivationTime \in 0 .. 2 * SecondsPerDay - 1
    BY DEF ElapsedInRange
  <2>1. /\ Time \in Int /\ Time < SecondsPerDay
        /\ door.DoorActivationTime \in -SecondsPerDay .. SecondsPerDay - 1
        /\ door.DoorActivationTime <= Time
    BY DoorAssumption DEF IInv, DoorInv, Clock, Times
  <2> QED
    BY <2>1, DoorAssumption
<1> QED
  BY <1>1, SpecIInv, PTL

-----------------------------------------------------------------------------
(* The states of a door that was closed, or opened, by hand; the motion with
   which the user takes that back; the period whose schedule it opposes. *)
ByHand(m) ==
  IF m = "closed" THEN {MANUAL_CLOSING, MANUAL_CLOSED} ELSE {MANUAL_OPENING, MANUAL_OPEN}

TakenBack(m) == IF m = "closed" THEN MANUAL_OPENING ELSE MANUAL_CLOSING

Opposed(m, t) == IF m = "closed" THEN InOpenPeriod(t) ELSE ~InOpenPeriod(t)

(* A remembered override is one the door's state still shows. *)
OverrideInv == \A m \in override : door.DoorState \in ByHand(m)

(* The fields of an update, whatever the values are. *)
LEMMA UpdateFields ==
  ASSUME NEW d \in Door, NEW st, NEW a, NEW p
  PROVE  /\ Begin(d, st, a, p).DoorState = st
         /\ Begin(d, st, a, p).DoorActivationTime = a
         /\ Begin(d, st, a, p).pins = p
         /\ Set(d, st, p).DoorState = st
         /\ Set(d, st, p).pins = p
  BY DEF Begin, Set, Door

(* A motion that this call has started is not timed out by it. *)
LEMMA FreshMotion ==
  ASSUME NEW t \in Clock, NEW d, d.DoorActivationTime = t
  PROVE  ~Expired(d, t)
<1>1. t \in Int
  BY DoorAssumption DEF Clock, Times
<1>2. DoorActivationDuration * TimeFactor \in Nat
  BY DoorAssumption
<1> QED
  BY <1>1, <1>2 DEF Expired

(* A click leaves such a door as it is or has just taken it back. *)
LEMMA OnClickKeeps ==
  ASSUME NEW d, NEW t \in Clock, NEW b \in Reports, CallInv(d, t),
         NEW m \in {"closed", "open"}, d.DoorState \in ByHand(m)
  PROVE  \/ OnClick(d, t, b).DoorState \in ByHand(m)
         \/ /\ OnClick(d, t, b).DoorState = TakenBack(m)
            /\ OnClick(d, t, b).DoorActivationTime = t
            /\ ~b.ButtonHold
<1>1. CASE ~b.ButtonClicked
  BY <1>1 DEF OnClick
<1>2. CASE b.ButtonClicked
  <2>1. ~b.ButtonHold
    BY <1>2 DEF Reports, Report, NoReport, Click, Hold, HoldEnd
  <2>2. d \in Door
    BY DEF CallInv, DoorInv
  <2>3. CASE d.DoorState \in Opening \cup Closing
    <3>1. OnClick(d, t, b) = Set(d, ManualRest(d.DoorState), StopDoor)
      BY <1>2, <2>3 DEF OnClick, Opening, Closing
    <3> QED
      BY <2>2, <2>3, <3>1, UpdateFields DEF ByHand, ManualRest, Opening, Closing
  <2>4. CASE d.DoorState = MANUAL_CLOSED
    <3>1. OnClick(d, t, b) = Begin(d, MANUAL_OPENING, t, StartOpeningDoor)
      BY <1>2, <2>4 DEF OnClick, Opening, Closing
    <3> QED
      BY <2>1, <2>2, <2>4, <3>1, UpdateFields DEF ByHand, TakenBack
  <2>5. CASE d.DoorState = MANUAL_OPEN
    <3>1. OnClick(d, t, b) = Begin(d, MANUAL_CLOSING, t, StartClosingDoor)
      BY <1>2, <2>5 DEF OnClick, Opening, Closing
    <3> QED
      BY <2>1, <2>2, <2>5, <3>1, UpdateFields DEF ByHand, TakenBack
  <2> QED
    BY <2>3, <2>4, <2>5 DEF ByHand, Opening, Closing
<1> QED
  BY <1>1, <1>2

(* The timeout ends a manual motion in the state of its own direction. *)
LEMMA OnManualTimeoutKeeps ==
  ASSUME NEW d, NEW t \in Clock, NEW b \in Reports, CallInv(d, t),
         NEW m \in {"closed", "open"}
  PROVE  /\ d.DoorState \in ByHand(m)
              => OnManualTimeout(d, t, b).DoorState \in ByHand(m)
         /\ d.DoorActivationTime = t => OnManualTimeout(d, t, b) = d
<1>1. d \in Door
  BY DEF CallInv, DoorInv
<1>2. ASSUME d.DoorState \in ByHand(m)
      PROVE  OnManualTimeout(d, t, b).DoorState \in ByHand(m)
  BY <1>1, <1>2, UpdateFields
  DEF OnManualTimeout, ByHand, ManualRest, ManualMotion, Opening
<1>3. ASSUME d.DoorActivationTime = t PROVE OnManualTimeout(d, t, b) = d
  BY <1>3, FreshMotion DEF OnManualTimeout
<1> QED
  BY <1>2, <1>3

(* A hold leaves such a door as it is or takes it back. *)
LEMMA OnHoldKeeps ==
  ASSUME NEW d, NEW t \in Clock, NEW b \in Reports, CallInv(d, t),
         NEW m \in {"closed", "open"}, d.DoorState \in ByHand(m)
  PROVE  OnHold(d, b).DoorState \in ByHand(m) \cup {TakenBack(m)}
<1>1. d \in Door
  BY DEF CallInv, DoorInv
<1>2. CASE ~b.ButtonHold
  BY <1>2 DEF OnHold
<1>3. CASE b.ButtonHold /\ b.ButtonReleased /\ d.DoorState \in ManualMotion
  <2>1. OnHold(d, b) = Set(d, ManualRest(d.DoorState), StopDoor)
    BY <1>3 DEF OnHold
  <2> QED
    BY <1>1, <1>3, <2>1, UpdateFields DEF ByHand, ManualRest, ManualMotion, Opening
<1>4. CASE b.ButtonHold /\ b.ButtonReleased /\ d.DoorState \notin ManualMotion
  <2>1. OnHold(d, b) = Set(d, d.DoorState, StopDoor)
    BY <1>4 DEF OnHold
  <2> QED BY <1>1, <2>1, UpdateFields
<1>5. CASE b.ButtonHold /\ ~b.ButtonReleased /\ d.DoorState = MANUAL_CLOSED
  <2>1. OnHold(d, b) = Set(d, MANUAL_OPENING, StartOpeningDoor)
    BY <1>5 DEF OnHold, Opening, Closing
  <2> QED BY <1>1, <1>5, <2>1, UpdateFields DEF ByHand, TakenBack
<1>6. CASE b.ButtonHold /\ ~b.ButtonReleased /\ d.DoorState = MANUAL_OPEN
  <2>1. OnHold(d, b) = Set(d, MANUAL_CLOSING, StartClosingDoor)
    BY <1>6 DEF OnHold, Opening, Closing
  <2> QED BY <1>1, <1>6, <2>1, UpdateFields DEF ByHand, TakenBack
<1>7. CASE b.ButtonHold /\ ~b.ButtonReleased /\ d.DoorState \in ManualMotion
  BY <1>7 DEF OnHold, ManualMotion, Opening, Closing
<1> QED
  BY <1>2, <1>3, <1>4, <1>5, <1>6, <1>7 DEF ByHand, ManualMotion

(* In the period it opposes, the schedule leaves such a door alone. *)
LEMMA OnScheduleKeeps ==
  ASSUME NEW d, NEW t, NEW b, NEW m \in {"closed", "open"}, Opposed(m, t),
         d.DoorState \in ByHand(m) \cup {TakenBack(m)}
  PROVE  OnSchedule(d, t, b) = d
<1>1. d.DoorState \notin AutomaticMotion \cup {OPEN, CLOSED}
  BY DEF ByHand, TakenBack, AutomaticMotion
<1>2. ~(InOpenPeriod(t) /\ d.DoorState = MANUAL_OPEN)
  BY DEF ByHand, TakenBack, Opposed
<1>3. ~(~InOpenPeriod(t) /\ d.DoorState = MANUAL_CLOSED)
  BY DEF ByHand, TakenBack, Opposed
<1>4. OnPeriod(d, t) = d
  BY <1>1, <1>2, <1>3 DEF OnPeriod
<1> QED
  BY <1>4 DEF OnSchedule

(* So does a whole call, in the period that opposes the manual position. *)
LEMMA MutateKeeps ==
  ASSUME NEW d, NEW t \in Clock, NEW b \in Reports, DoorInv(d),
         NEW m \in {"closed", "open"}, Opposed(m, t), d.DoorState \in ByHand(m)
  PROVE  Mutate(d, t, b).DoorState \in ByHand(m) \cup {TakenBack(m)}
<1> DEFINE d1 == Rebase(d, t)
           d2 == OnClick(d1, t, b)
           d3 == OnManualTimeout(d2, t, b)
           d4 == OnHold(d3, b)
<1>1. CallInv(d1, t) /\ d1.DoorState \in ByHand(m)
  BY RebaseInv
<1>2. /\ CallInv(d2, t)
      /\ \/ d2.DoorState \in ByHand(m)
         \/ /\ d2.DoorState = TakenBack(m)
            /\ d2.DoorActivationTime = t
            /\ ~b.ButtonHold
  BY <1>1, OnClickInv, OnClickKeeps
<1>3. /\ CallInv(d3, t)
      /\ \/ d3.DoorState \in ByHand(m)
         \/ d3.DoorState = TakenBack(m) /\ ~b.ButtonHold
  BY <1>2, OnManualTimeoutInv, OnManualTimeoutKeeps
<1>4. d4.DoorState \in ByHand(m) \cup {TakenBack(m)}
  <2>1. CASE d3.DoorState \in ByHand(m)
    BY <1>3, <2>1, OnHoldKeeps
  <2>2. CASE d3.DoorState = TakenBack(m) /\ ~b.ButtonHold
    BY <2>2 DEF OnHold
  <2> QED BY <1>3, <2>1, <2>2
<1> HIDE DEF d1, d2, d3, d4
<1>5. OnSchedule(d4, t, b) = d4
  BY <1>4, OnScheduleKeeps
<1> QED
  BY <1>4, <1>5 DEF Mutate, d1, d2, d3, d4

(* Every step keeps the link between the history and the state. *)
LEMMA NextOverrideInv == IInv /\ OverrideInv /\ [Next]_vars => OverrideInv'
<1> SUFFICES ASSUME IInv, OverrideInv, [Next]_vars PROVE OverrideInv'
  OBVIOUS
<1>1. CASE UNCHANGED vars
  BY <1>1 DEF vars, OverrideInv
<1>2. CASE Next
  <2>1. PICK t \in Clock, b \in Reports : MutateState(t, b)
    BY <1>2, NextCalls
  <2>2. SUFFICES ASSUME NEW m \in override' PROVE door'.DoorState \in ByHand(m)
    BY DEF OverrideInv
  <2>3. /\ m \in {"closed", "open"}
        /\ \/ door'.DoorState \in ByHand(m)
           \/ m \in override /\ Opposed(m, t) /\ door'.DoorState # TakenBack(m)
    BY <2>1 DEF MutateState, Remember, ByHand, Opposed, TakenBack
  <2>4. ASSUME m \in override, Opposed(m, t)
        PROVE  door'.DoorState \in ByHand(m) \cup {TakenBack(m)}
    <3>1. DoorInv(door) /\ door.DoorState \in ByHand(m) /\ m \in {"closed", "open"}
      BY <2>3, <2>4 DEF IInv, OverrideInv
    <3>2. Mutate(door, t, b).DoorState \in ByHand(m) \cup {TakenBack(m)}
      BY <2>4, <3>1, MutateKeeps
    <3> QED
      BY <2>1, <3>2 DEF MutateState
  <2> QED
    BY <2>3, <2>4
<1> QED
  BY <1>1, <1>2

(* Whatever the schedule, it never undoes within a period what the user did by
   hand in that period. *)
THEOREM OverrideSafe == Spec => []OverrideRespected
<1>1. Init => OverrideInv
  BY DEF Init, OverrideInv
<1>2. OverrideInv => OverrideRespected
  BY DEF OverrideInv, OverrideRespected, ByHand
<1> QED
  BY <1>1, <1>2, SpecIInv, NextOverrideInv, PTL DEF Spec

-----------------------------------------------------------------------------
(* A call made while the motor runs keeps its direction or stops it, and does
   not start it again: no block finds the door in a state it would start. *)
Coasts(d, e) ==
  \/ e.pins = d.pins /\ e.DoorState = d.DoorState
  \/ e.pins = StopDoor /\ e.DoorState \in {MANUAL_OPEN, MANUAL_CLOSED}

Moving(d) == d.DoorState \in Opening \cup Closing

(* A click during a motion stops it. *)
LEMMA OnClickCoasts ==
  ASSUME NEW d \in Door, NEW t, NEW b, Moving(d)
  PROVE  Coasts(d, OnClick(d, t, b))
<1>1. CASE ~b.ButtonClicked
  BY <1>1 DEF OnClick, Coasts
<1>2. CASE b.ButtonClicked
  <2>1. OnClick(d, t, b) = Set(d, ManualRest(d.DoorState), StopDoor)
    BY <1>2 DEF OnClick, Moving, Opening, Closing
  <2> QED
    BY <2>1, UpdateFields DEF Coasts, ManualRest
<1> QED
  BY <1>1, <1>2

(* The timeout of a manual motion stops it or leaves it alone. *)
LEMMA OnManualTimeoutCoasts ==
  ASSUME NEW d \in Door, NEW t, NEW b
  PROVE  Coasts(d, OnManualTimeout(d, t, b))
  BY UpdateFields DEF OnManualTimeout, Coasts, ManualRest

(* A release stops the motor and leaves an automatic motion's state alone. *)
LEMMA OnHoldStops ==
  ASSUME NEW d \in Door, NEW b, Moving(d)
  PROVE  OnHold(d, b).pins \in {d.pins, StopDoor}
<1>1. CASE ~b.ButtonHold
  BY <1>1 DEF OnHold
<1>2. CASE b.ButtonHold /\ b.ButtonReleased /\ d.DoorState \in ManualMotion
  <2>1. OnHold(d, b) = Set(d, ManualRest(d.DoorState), StopDoor)
    BY <1>2 DEF OnHold
  <2> QED BY <2>1, UpdateFields
<1>3. CASE b.ButtonHold /\ b.ButtonReleased /\ d.DoorState \notin ManualMotion
  <2>1. OnHold(d, b) = Set(d, d.DoorState, StopDoor)
    BY <1>3 DEF OnHold
  <2> QED BY <2>1, UpdateFields
<1>4. CASE b.ButtonHold /\ ~b.ButtonReleased
  BY <1>4 DEF OnHold, Moving, Opening, Closing
<1> QED
  BY <1>1, <1>2, <1>3, <1>4

(* The schedule never drives a door that moves, or has just been stopped, in
   the other direction. *)
LEMMA OnScheduleCoasts ==
  ASSUME NEW d \in Door, NEW t, NEW b,
         d.DoorState \in Opening \cup Closing \cup {MANUAL_OPEN, MANUAL_CLOSED}
  PROVE  OnSchedule(d, t, b).pins \in {d.pins, StopDoor}
<1>1. d.DoorState # OPEN /\ d.DoorState # CLOSED
  BY DEF Opening, Closing
<1>2. \/ OnPeriod(d, t) = Set(d, OPEN, d.pins)
      \/ OnPeriod(d, t) = Set(d, CLOSED, d.pins)
      \/ OnPeriod(d, t) = Set(d, Scheduled(t), StopDoor)
      \/ OnPeriod(d, t) = d
  BY <1>1, OnPeriodCases
<1>3. OnPeriod(d, t).pins \in {d.pins, StopDoor}
  BY <1>2, UpdateFields
<1> QED
  BY <1>3 DEF OnSchedule

(* Nor does a whole call. *)
LEMMA MutateNeverReverses ==
  ASSUME NEW d, NEW t \in Clock, NEW b \in Reports, DoorInv(d), d.pins # StopDoor
  PROVE  Mutate(d, t, b).pins \in {d.pins, StopDoor}
<1> DEFINE d1 == Rebase(d, t)
           d2 == OnClick(d1, t, b)
           d3 == OnManualTimeout(d2, t, b)
           d4 == OnHold(d3, b)
<1>1. Moving(d)
  BY DEF DoorInv, MotorMatches, Moving, Door, DoorStates
<1>2. d1 \in Door /\ Moving(d1) /\ d1.pins = d.pins
  BY <1>1, RebaseInv DEF CallInv, DoorInv, Moving
<1>3. d2 \in Door /\ Coasts(d1, d2)
  BY <1>2, RebaseInv, OnClickInv, OnClickCoasts DEF CallInv, DoorInv
<1>4. d3 \in Door /\ Coasts(d2, d3)
  BY <1>3, RebaseInv, OnClickInv, OnManualTimeoutInv, OnManualTimeoutCoasts
  DEF CallInv, DoorInv
<1> HIDE DEF d1, d2, d3, d4
<1>5. CASE ~b.ButtonHold
  <2>1. d4 = d3
    BY <1>5 DEF d4, OnHold
  <2>2. Coasts(d1, d3)
    BY <1>3, <1>4 DEF Coasts
  <2>3. d3.DoorState \in Opening \cup Closing \cup {MANUAL_OPEN, MANUAL_CLOSED}
    BY <1>2, <2>2 DEF Coasts, Moving
  <2>4. OnSchedule(d3, t, b).pins \in {d3.pins, StopDoor}
    BY <1>4, <2>3, OnScheduleCoasts
  <2>5. d3.pins \in {d.pins, StopDoor}
    BY <1>2, <2>2 DEF Coasts
  <2> QED
    BY <2>1, <2>4, <2>5 DEF Mutate, d1, d2, d3, d4
<1>6. CASE b.ButtonHold
  <2>1. ~b.ButtonClicked
    BY <1>6 DEF Reports, Report, NoReport, Click, Hold, HoldEnd
  <2>2. d3 = d1
    BY <1>6, <2>1 DEF d2, d3, OnClick, OnManualTimeout
  <2>3. d4.pins \in {d.pins, StopDoor}
    BY <1>2, <2>2, OnHoldStops DEF d4
  <2>4. OnSchedule(d4, t, b) = d4
    BY <1>6 DEF OnSchedule
  <2> QED
    BY <2>3, <2>4 DEF Mutate, d1, d2, d3, d4
<1> QED
  BY <1>5, <1>6

-----------------------------------------------------------------------------
(* The motion the actuator sees, from the pins a matching door can have. *)
LEMMA MotionOfPins ==
  ASSUME NEW d, DoorInv(d)
  PROVE  d.pins \in {StartOpeningDoor, StartClosingDoor, StopDoor}
  BY DEF DoorInv, MotorMatches, Door, DoorStates

(* Every step is a step of the abstract drive or leaves it as it is. *)
LEMMA StepDrives == IInv /\ [Next]_vars => [Drive!Next]_Motion
<1> SUFFICES ASSUME IInv, [Next]_vars PROVE [Drive!Next]_Motion
  OBVIOUS
<1>1. CASE UNCHANGED vars
  BY <1>1 DEF vars, Motion
<1>2. CASE Next
  <2>1. PICK t \in Clock, b \in Reports : MutateState(t, b)
    BY <1>2, NextCalls
  <2>2. /\ DoorInv(door) /\ DoorInv(door')
    BY <1>2, NextIInv DEF IInv
  <2>3. /\ door.pins \in {StartOpeningDoor, StartClosingDoor, StopDoor}
        /\ door'.pins \in {StartOpeningDoor, StartClosingDoor, StopDoor}
    BY <2>2, MotionOfPins
  <2>4. door.pins # StopDoor => door'.pins \in {door.pins, StopDoor}
    BY <2>1, <2>2, MutateNeverReverses DEF MutateState
  <2>5. /\ door.pins = StopDoor => Motion = "stopped"
        /\ door.pins = StartOpeningDoor => Motion = "opening"
        /\ door.pins = StartClosingDoor => Motion = "closing"
    BY PinFacts DEF Motion
  <2>6. /\ door'.pins = StopDoor => Motion' = "stopped"
        /\ door'.pins = StartOpeningDoor => Motion' = "opening"
        /\ door'.pins = StartClosingDoor => Motion' = "closing"
    BY PinFacts DEF Motion
  <2> QED
    BY <2>3, <2>4, <2>5, <2>6 DEF Drive!Next, Drive!Start, Drive!Stop
<1> QED
  BY <1>1, <1>2

(* Whatever the schedule, the duration and the clock, the pins implement a
   drive that is stopped before it is ever reversed. *)
THEOREM DriveImplemented == Spec => DriveSpec
<1>1. Init => Drive!Init
  BY PinFacts DEF Init, DoorInit, Motion, Drive!Init
<1> QED
  BY <1>1, SpecIInv, StepDrives, PTL DEF Spec, DriveSpec, Drive!Spec

=============================================================================
