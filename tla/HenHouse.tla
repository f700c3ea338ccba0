------------------------------- MODULE HenHouse -------------------------------
(***************************************************************************)
(* The controller and the door it drives: Applictaion::Loop of                *)
(* HenHouseController.ino as far as it concerns the door.  An iteration reads *)
(* the clock (WallClock, which GpsReader implements) and the button (Gesture, *)
(* which ButtonReader implements) and hands both to DoorMutator; the door     *)
(* itself moves with the pins, which the code never looks back at.  The       *)
(* heater and the lamp share no field with the door and have modules of their *)
(* own.                                                                       *)
(***************************************************************************)
EXTENDS Integers, ButtonReports

CONSTANTS
  SecondsPerDay, DoorOpenTime, DoorCloseTime, DoorActivationDuration,
  MaxStep,      \* the most seconds between two iterations
  Travel,       \* the seconds the door takes from one end to the other
  RefreshAfter, \* the seconds for which a fix is good, 6 hours in the code
  LongestWait,  \* the seconds a receiver in good order makes the clock wait
  Drift         \* the seconds a clock loses or gains between two fixes

ASSUME HenHouseAssumption ==
  /\ {SecondsPerDay, MaxStep, Travel} \subseteq Nat \ {0}
  /\ {DoorOpenTime, DoorCloseTime, DoorActivationDuration} \subseteq Nat
  /\ {RefreshAfter, LongestWait, Drift} \subseteq Nat
  /\ Travel <= DoorActivationDuration
  /\ DoorCloseTime - DoorOpenTime > DoorActivationDuration + 2 * MaxStep
  /\ SecondsPerDay - (DoorCloseTime - DoorOpenTime)
       > DoorActivationDuration + 2 * MaxStep

(* For DailyCycle: a fix is good for longer than a motion, a motion that a fix makes
   end early still comes to the end, and in each period there is time for a wait
   and a motion. *)
ASSUME DailyAssumption ==
  /\ RefreshAfter > DoorActivationDuration + MaxStep
  /\ Travel + MaxStep + Drift <= DoorActivationDuration + 1
  /\ LET busy == LongestWait + Drift + DoorActivationDuration + 2 * MaxStep
         open == DoorCloseTime - DoorOpenTime
     IN  busy <= open /\ busy <= SecondsPerDay - open

VARIABLES
  Time, mode,    \* state.Time and the clock's mode
  phase, button, \* the button's phase and state.Button*
  door,          \* state.DoorState, state.DoorActivationTime and the pins
  position,      \* of the door itself: 0 is closed, Travel is open
  since,         \* seconds since the last fix, or for which Time has stood still
  beat,          \* alternates with the seconds that pass
  ran,           \* history: seconds the motor has been on, up to RanBound
  flaws          \* history: what disturbed the last motion

vars == <<Time, mode, phase, button, door, position, since, beat, ran, flaws>>

C == INSTANCE WallClock
G == INSTANCE Gesture WITH report <- button
D == INSTANCE DoorMutator WITH TimeFactor <- 1, override <- {}

Driven(d) == d.pins # D!StopDoor

(* A bound at which ran is counted no further. *)
RanBound == DoorActivationDuration + 1

(* A bound at which the seconds of a wait are counted no further. *)
SinceBound == LongestWait + 1

Least(a, b) == IF a <= b THEN a ELSE b
Most(a, b) == IF a <= b THEN b ELSE a

-----------------------------------------------------------------------------
(* The clock over an iteration that k seconds separate from the last one.  It runs
   until the fix is RefreshAfter old and then waits for the next, which takes as
   many iterations as its sentence has bytes and so never falls into the
   iteration in which the clock goes stale. *)
ReadClock(k) ==
  \/ /\ C!Advance /\ Time' = (Time + k) % SecondsPerDay
     /\ since + k <= RefreshAfter /\ since' = since + k
  \/ C!GoStale /\ since + k >= RefreshAfter /\ since' = k
  \/ C!Fix /\ since' = 0
  \/ /\ mode # "running" /\ UNCHANGED <<Time, mode>>
     /\ since' = IF mode = "stale" THEN Least(since + k, SinceBound) ELSE since

(* The door over k seconds of the pins as the last call left them. *)
Move(k) ==
  position' =
    CASE door.pins = D!StartOpeningDoor -> Least(position + k, Travel)
      [] door.pins = D!StartClosingDoor -> Most(position - k, 0)
      [] OTHER -> position

(* What disturbs a motion, from the call that starts it: a hold, a clock that
   stands still or is set, and what cuts it short or forgets it, a click, the end
   of the period it was started in or a reset. *)
UnderWay(d) == d.DoorState \notin D!AtRest

Flaws == {"hold", "clock", "cut"}

Disturbances ==
  { f \in Flaws :
      \/ f = "hold" /\ button'.ButtonHold /\ (UnderWay(door) \/ UnderWay(door'))
      \/ f = "clock" /\ UnderWay(door) /\ ~(mode = "running" /\ mode' = "running")
      \/ /\ f = "cut" /\ UnderWay(door)
         /\ button'.ButtonClicked \/ D!InOpenPeriod(Time) # D!InOpenPeriod(Time') }

Observe(k) ==
  /\ beat' = (beat + k) % 2
  /\ ran' = IF Driven(door) THEN Least(ran + k, RanBound) ELSE 0
  /\ flaws' = Disturbances \cup
       (IF ~UnderWay(door) /\ UnderWay(door') THEN {} ELSE flaws)

(* Bug: the handlers see the button before it is read in this iteration. *)
LoopStale(k) ==
  /\ ReadClock(k)
  /\ G!Next
  /\ door' = D!Mutate(door, Time', button)
  /\ Move(k)
  /\ Observe(k)

(* One iteration: the readers, then the door. *)
Loop(k) ==
  /\ ReadClock(k)
  /\ G!Next
  /\ door' = D!Mutate(door, Time', button')
  /\ Move(k)
  /\ Observe(k)

(* The board restarts and forgets everything but where the door is. *)
Reset ==
  /\ Time' = C!NoTime /\ mode' = "unknown"
  /\ phase' = "up" /\ button' = NoReport
  /\ door' = D!DoorInit
  /\ since' = 0 /\ ran' = 0
  /\ flaws' = {"cut"}
  /\ UNCHANGED <<position, beat>>

Init ==
  /\ C!Init
  /\ G!Init
  /\ door = D!DoorInit
  /\ position \in 0 .. Travel
  /\ since = 0
  /\ beat = 0
  /\ ran = 0
  /\ flaws = IF position = 0 THEN {} ELSE {"cut"}

Next == (\E k \in 0 .. MaxStep : Loop(k)) \/ Reset

Spec == Init /\ [][Next]_vars

(* Again and again a second passes.  An iteration that takes one is always
   possible and is what changes beat. *)
Second == beat' = 1 - beat

FairSpec == Spec /\ WF_beat(Second)

-----------------------------------------------------------------------------
(* A door recorded as resting open or closed is at that end, unless its last
   motion was disturbed in one of the ways that flaws names. *)
RestIsReal ==
  flaws = {} =>
    /\ door.DoorState \in {D!OPEN, D!MANUAL_OPEN} => position = Travel
    /\ door.DoorState \in {D!CLOSED, D!MANUAL_CLOSED} => position = 0

(* With a clock that runs and no hold, no iteration leaves the motor on that has
   been on for longer than the activation duration. *)
MotorTimely ==
  Driven(door) /\ flaws \cap {"hold", "clock"} = {} => ran <= DoorActivationDuration

(* What the comment in MutateState says of a manual motion that is not held, "Stop
   the door after the actionvationDuration.", at its weakest: once the button is
   left alone and the clock has settled in one mode, whichever, the motion ends. *)
StopsAfterDuration ==
  /\ <>[](phase = "up" /\ button = NoReport)
  /\ <>[](mode = "unknown") \/ <>[](mode = "stale") \/ <>[](mode = "running")
  => []<>(door.DoorState \notin D!ManualMotion)

(* What DailyCycle asks of the sky: a wait lasts LongestWait at most, and the fix that
   ends it tells the time, from which the clock may have drifted either way. *)
WaitsEnd == mode = "stale" => since <= LongestWait

FixIsRight ==
  mode = "stale" /\ mode' = "running" =>
    \E k \in - Drift .. MaxStep + Drift : Time' = (Time + since + k) % SecondsPerDay

(* Whatever has happened to the door, once the button is left alone, the board is
   not reset, and the clock, which goes on stopping every RefreshAfter seconds,
   is set right in time, the door is really opened and really closed every day. *)
DailyCycle ==
  /\ <>[](button = NoReport /\ mode # "unknown" /\ WaitsEnd)
  /\ <>[][FixIsRight]_vars
  => /\ []<>(door.DoorState = D!OPEN /\ position = Travel)
     /\ []<>(door.DoorState = D!CLOSED /\ position = 0)

=============================================================================
