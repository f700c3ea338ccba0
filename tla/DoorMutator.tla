----------------------------- MODULE DoorMutator -----------------------------
(***************************************************************************)
(* The hen house door: DoorMutator::MutateState of                          *)
(* libraries/HenHouseLib/DoorMutator.cpp.  Once per loop() the handler       *)
(* receives the clock and the button report of this iteration and drives a  *)
(* linear actuator through three pins.  A call is one atomic step: the      *)
(* program is single threaded and no interrupt touches what it reads.       *)
(***************************************************************************)
EXTENDS Integers, ButtonReports

CONSTANTS
  SecondsPerDay,          \* 86400 in the code
  DoorOpenTime,           \* second of the day after which the door opens
  DoorCloseTime,          \* second of the day at which it closes
  DoorActivationDuration, \* how long the actuator is driven, in seconds
  TimeFactor              \* speed-up of the clock, 1 in production

ASSUME DoorAssumption ==
  /\ SecondsPerDay \in Nat \ {0}
  /\ DoorOpenTime \in Int
  /\ DoorCloseTime \in Int
  /\ DoorActivationDuration \in Nat
  /\ TimeFactor \in Nat \ {0}

VARIABLES
  Time,     \* state.Time of the last call, NoTime before the first GPS fix
  button,   \* the ButtonReader report of the last call
  door,     \* state.DoorState, state.DoorActivationTime and the three pins
  override  \* history: which manual positions the schedule has to respect

vars == <<Time, button, door, override>>

LOW == 0
HIGH == 1
NoTime == -1

CLOSED == 0
OPENING == 1
CLOSING == 2
OPEN == 3
MANUAL_CLOSED == 10
MANUAL_OPENING == 11
MANUAL_CLOSING == 12
MANUAL_OPEN == 13

AtRest == {CLOSED, OPEN, MANUAL_CLOSED, MANUAL_OPEN}
Opening == {OPENING, MANUAL_OPENING}
Closing == {CLOSING, MANUAL_CLOSING}
ManualMotion == {MANUAL_OPENING, MANUAL_CLOSING}
AutomaticMotion == {OPENING, CLOSING}
DoorStates == AtRest \cup Opening \cup Closing

Times == 0 .. SecondsPerDay - 1

Pins == [OPEN_PIN: {LOW, HIGH}, CLOSE_PIN: {LOW, HIGH}, POWER_PIN: {0, 255}]

Door == [DoorState: DoorStates, DoorActivationTime: Int, pins: Pins]

-----------------------------------------------------------------------------
(* What the private helpers write to the pins. *)

StartOpeningDoor == [OPEN_PIN |-> HIGH, CLOSE_PIN |-> LOW, POWER_PIN |-> 255]

StartClosingDoor == [OPEN_PIN |-> LOW, CLOSE_PIN |-> HIGH, POWER_PIN |-> 255]

StopDoor == [OPEN_PIN |-> LOW, CLOSE_PIN |-> LOW, POWER_PIN |-> 0]

-----------------------------------------------------------------------------
(* MutateState, one operator per block of its body. *)

InOpenPeriod(t) == DoorOpenTime < t /\ t < DoorCloseTime

Expired(d, t) ==
  t - d.DoorActivationTime > DoorActivationDuration * TimeFactor

(* Bug: an activation time in the future is kept. *)
RebaseMissing(d, t) == d

(* An activation time in the future is taken to be of the day before. *)
Rebase(d, t) ==
  IF d.DoorActivationTime > t
    THEN [d EXCEPT !.DoorActivationTime = @ - SecondsPerDay]
    ELSE d

(* Bug: the automatic state in the place of the manual one. *)
ManualRestAutomatic(st) == IF st \in Opening THEN OPEN ELSE CLOSED

(* The manual state in which a motion that is cut short leaves the door. *)
ManualRest(st) == IF st \in Opening THEN MANUAL_OPEN ELSE MANUAL_CLOSED

(* The two ways a block updates the door: with or without a new activation
   time. *)
Begin(d, st, t, p) ==
  [d EXCEPT !.DoorState = st, !.DoorActivationTime = t, !.pins = p]

Set(d, st, p) == [d EXCEPT !.DoorState = st, !.pins = p]

(* Bug: a click reverses a motion under way. *)
OnClickReverses(d, t, b) ==
  CASE ~b.ButtonClicked -> d
    [] b.ButtonClicked /\ d.DoorState \in {CLOSED, MANUAL_CLOSED} \cup Closing ->
         Begin(d, MANUAL_OPENING, t, StartOpeningDoor)
    [] b.ButtonClicked /\ d.DoorState \in {OPEN, MANUAL_OPEN} \cup Opening ->
         Begin(d, MANUAL_CLOSING, t, StartClosingDoor)

(* A click starts a motion from rest and stops one under way. *)
OnClick(d, t, b) ==
  CASE ~b.ButtonClicked -> d
    [] b.ButtonClicked /\ d.DoorState \in {CLOSED, MANUAL_CLOSED} ->
         Begin(d, MANUAL_OPENING, t, StartOpeningDoor)
    [] b.ButtonClicked /\ d.DoorState \in {OPEN, MANUAL_OPEN} ->
         Begin(d, MANUAL_CLOSING, t, StartClosingDoor)
    [] b.ButtonClicked /\ d.DoorState \in Opening \cup Closing ->
         Set(d, ManualRest(d.DoorState), StopDoor)

(* Bug: the timeout records the rest and leaves the motor on. *)
OnManualTimeoutRunsOn(d, t, b) ==
  IF ~b.ButtonHold /\ d.DoorState \in ManualMotion /\ Expired(d, t)
    THEN Set(d, ManualRest(d.DoorState), d.pins)
    ELSE d

(* A manual motion ends after the activation duration unless held. *)
OnManualTimeout(d, t, b) ==
  IF ~b.ButtonHold /\ d.DoorState \in ManualMotion /\ Expired(d, t)
    THEN Set(d, ManualRest(d.DoorState), StopDoor)
    ELSE d

(* Holding drives the door until release; the activation time is left as it
   is, and a release stops the motor in every state. *)
OnHold(d, b) ==
  CASE ~b.ButtonHold -> d
    [] b.ButtonHold /\ b.ButtonReleased /\ d.DoorState \in ManualMotion ->
         Set(d, ManualRest(d.DoorState), StopDoor)
    [] b.ButtonHold /\ b.ButtonReleased /\ d.DoorState \notin ManualMotion ->
         Set(d, d.DoorState, StopDoor)
    [] b.ButtonHold /\ ~b.ButtonReleased /\ d.DoorState \in {CLOSED, MANUAL_CLOSED} ->
         Set(d, MANUAL_OPENING, StartOpeningDoor)
    [] b.ButtonHold /\ ~b.ButtonReleased /\ d.DoorState \in {OPEN, MANUAL_OPEN} ->
         Set(d, MANUAL_CLOSING, StartClosingDoor)
    [] b.ButtonHold /\ ~b.ButtonReleased /\ d.DoorState \in Opening \cup Closing -> d

(* The state the schedule wants a door at rest to have. *)
Scheduled(t) == IF InOpenPeriod(t) THEN OPEN ELSE CLOSED

(* Bug: a door moved by hand never becomes automatic again. *)
OnPeriodManualStays(d, t) ==
  CASE InOpenPeriod(t) /\ d.DoorState = CLOSED ->
         Begin(d, OPENING, t, StartOpeningDoor)
    [] ~InOpenPeriod(t) /\ d.DoorState = OPEN ->
         Begin(d, CLOSING, t, StartClosingDoor)
    [] d.DoorState \in AutomaticMotion /\ Expired(d, t) ->
         Set(d, Scheduled(t), StopDoor)
    [] OTHER -> d

(* The schedule: a door that rests by hand where the period wants it becomes
   automatic again, one that rests by schedule where the period does not want
   it is started, and an automatic motion that has run its time ends. *)
OnPeriod(d, t) ==
  CASE InOpenPeriod(t) /\ d.DoorState = MANUAL_OPEN -> Set(d, OPEN, d.pins)
    [] ~InOpenPeriod(t) /\ d.DoorState = MANUAL_CLOSED -> Set(d, CLOSED, d.pins)
    [] InOpenPeriod(t) /\ d.DoorState = CLOSED ->
         Begin(d, OPENING, t, StartOpeningDoor)
    [] ~InOpenPeriod(t) /\ d.DoorState = OPEN ->
         Begin(d, CLOSING, t, StartClosingDoor)
    [] d.DoorState \in AutomaticMotion /\ Expired(d, t) ->
         Set(d, Scheduled(t), StopDoor)
    [] OTHER -> d

(* Without a fix, or while the button is held, the schedule does nothing. *)
OnSchedule(d, t, b) ==
  IF t = NoTime \/ b.ButtonHold THEN d ELSE OnPeriod(d, t)

Mutate(d, t, b) ==
  OnSchedule(OnHold(OnManualTimeout(OnClick(Rebase(d, t), t, b), t, b), b), t, b)

-----------------------------------------------------------------------------
(* The state of a controller that has just been set up. *)
DoorInit ==
  [DoorState |-> CLOSED, DoorActivationTime |-> 0, pins |-> StopDoor]

(* History: "closed" while a door closed by hand has to stay closed, which is
   until the open period it was closed in ends or the user opens it; "open"
   likewise. *)
Remember(h, st, t) ==
  { m \in {"closed", "open"} :
      \/ m = "closed" /\ st \in {MANUAL_CLOSING, MANUAL_CLOSED}
      \/ m = "open" /\ st \in {MANUAL_OPENING, MANUAL_OPEN}
      \/ m \in h /\ m = "closed" /\ InOpenPeriod(t) /\ st # MANUAL_OPENING
      \/ m \in h /\ m = "open" /\ ~InOpenPeriod(t) /\ st # MANUAL_CLOSING }

Init ==
  /\ Time = NoTime
  /\ button = NoReport
  /\ door = DoorInit
  /\ override = {}

MutateState(t, b) ==
  /\ Time' = t
  /\ button' = b
  /\ door' = Mutate(door, t, b)
  /\ override' = Remember(override, door'.DoorState, t)

(* The clock is unknown until the first fix and may then show any second. *)
Next ==
  \/ \E b \in Reports : Time = NoTime /\ MutateState(NoTime, b)
  \/ \E t \in Times, b \in Reports : MutateState(t, b)

Spec == Init /\ [][Next]_vars

-----------------------------------------------------------------------------
(* The state is one of the eight the code names, and the pins have the levels
   that were written. *)
TypeOK ==
  /\ Time \in Times \cup {NoTime}
  /\ button \in Reports
  /\ door \in Door
  /\ override \subseteq {"closed", "open"}

(* The motor does what the recorded state says: idle in every state of rest,
   driven in the recorded direction in every motion.  Only an automatic motion
   may be idle, because OnHold stops the motor on a release without leaving
   OPENING or CLOSING. *)
MotorMatches(d) ==
  /\ d.DoorState \in AtRest => d.pins = StopDoor
  /\ d.DoorState \in Opening => d.pins \in {StartOpeningDoor, StopDoor}
  /\ d.DoorState \in Closing => d.pins \in {StartClosingDoor, StopDoor}
  /\ d.DoorState \in ManualMotion => d.pins # StopDoor

(* MotorMatches holds between any two calls of the handler. *)
MotorMatchesState == MotorMatches(door)

(* While the door moves, the elapsed time the timeouts compare is never
   negative and never reaches two days, whatever the clock does at midnight or
   at a GPS fix. *)
ElapsedInRange ==
  door.DoorState \notin AtRest =>
    Time - door.DoorActivationTime \in 0 .. 2 * SecondsPerDay - 1

(* The schedule never undoes what the user did by hand within the same period:
   a door closed by hand is not opened before the period has changed, and one
   opened by hand is not closed. *)
OverrideRespected ==
  /\ door.DoorState = OPENING => "closed" \notin override
  /\ door.DoorState = CLOSING => "open" \notin override

(* What the actuator sees of the pins; "short" is any other combination. *)
Motion ==
  CASE door.pins = StopDoor -> "stopped"
    [] door.pins = StartOpeningDoor -> "opening"
    [] door.pins = StartClosingDoor -> "closing"
    [] OTHER -> "short"

Drive == INSTANCE DoorDrive WITH motion <- Motion

(* The pins implement a drive that is never reversed without a stop. *)
DriveSpec == Drive!Spec

=============================================================================
