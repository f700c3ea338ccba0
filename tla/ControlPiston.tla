---------------------------- MODULE ControlPiston ----------------------------
(***************************************************************************)
(* The class ControlPiston of HenHouseController.inoDERP, the previous        *)
(* program of the controller: a motor that runs while a joystick is pushed    *)
(* and is meant to run on by itself after a long push.  Its menu calls         *)
(* Increase or Decrease in every pass that finds the stick pushed, and Loop in *)
(* the others.  A push is the sign of the stick's deflection.                  *)
(***************************************************************************)
EXTENDS Integers

CONSTANTS
  ClockWidth,   \* millis() counts modulo this, 2^32 in the code
  TRIGGER_TIME, \* 1000 ms in the code
  HOLD_TIME     \* 25000 ms in the code

ASSUME PistonAssumption ==
  /\ ClockWidth \in Nat \ {0}
  /\ {TRIGGER_TIME, HOLD_TIME} \subseteq Nat

VARIABLES
  millis,  \* what millis() returns
  piston   \* the fields and the three pins

vars == <<millis, piston>>

LOW == 0
HIGH == 1

Readings == 0 .. ClockWidth - 1

(* What analogWrite is given: 0, a speed between 40 and 255, or 255. *)
Speeds == {"off", "pushed", "full"}

PistonInit ==
  [ isHolding |-> FALSE, isOpening |-> TRUE,
    time |-> 0, timeStarted |-> 0, timeHeld |-> 0, holdTimeStart |-> 0,
    lastState |-> 0,
    openPin |-> HIGH, closePin |-> LOW, pwmPin |-> "off" ]

resetTime(p) == [p EXCEPT !.timeHeld = 0, !.timeStarted = 0]

(* Bug: the length of the push is measured with the clock of this pass. *)
setTimeElapsedNow(p) ==
  LET started == IF p.timeStarted = 0 THEN millis ELSE p.timeStarted
  IN [p EXCEPT !.timeStarted = started, !.timeHeld = (millis - started) % ClockWidth]

(* When the push began and how long it has lasted. *)
setTimeElapsed(p) ==
  LET started == IF p.timeStarted = 0 THEN p.time ELSE p.timeStarted
  IN [p EXCEPT !.timeStarted = started, !.timeHeld = (p.time - started) % ClockWidth]

Drive(p, state) ==
  [p EXCEPT !.lastState = state,
            !.pwmPin = "pushed",
            !.openPin = IF state > 0 THEN HIGH ELSE LOW,
            !.closePin = IF state > 0 THEN LOW ELSE HIGH]

Engage(p, state) ==
  resetTime([p EXCEPT !.isHolding = TRUE, !.isOpening = (state > 0),
                      !.holdTimeStart = p.time])

(* Increase and Decrease alike. *)
movePiston(p, state) ==
  LET q == Drive(setTimeElapsed(p), state)
  IN IF q.timeHeld > TRIGGER_TIME THEN Engage(q, state) ELSE q

(* A hold ends when it has run its time or the last push was against it. *)
HoldOver(p) ==
  \/ p.time > (p.holdTimeStart + HOLD_TIME) % ClockWidth
  \/ ~p.isOpening /\ p.lastState > 0
  \/ p.isOpening /\ p.lastState < 0

(* Bug: the motor is left as the last push set it. *)
LoopKeepingMotor(p, now) ==
  LET q == [p EXCEPT !.time = now]
  IN IF q.isHolding THEN [q EXCEPT !.isHolding = ~HoldOver(q)] ELSE resetTime(q)

(* Hold on, or stop and forget the push. *)
Loop(p, now) ==
  LET q == [p EXCEPT !.time = now]
  IN IF q.isHolding
       THEN [q EXCEPT !.pwmPin = "full", !.isHolding = ~HoldOver(q)]
       ELSE resetTime([q EXCEPT !.pwmPin = "off"])

-----------------------------------------------------------------------------
Init == millis = 0 /\ piston = PistonInit

Push == \E state \in {-1, 1} : piston' = movePiston(piston, state) /\ UNCHANGED millis

Pause == piston' = Loop(piston, millis) /\ UNCHANGED millis

(* Any time passes between two calls. *)
Tick == millis' \in Readings /\ UNCHANGED piston

Next == Push \/ Pause \/ Tick

Spec == Init /\ [][Next]_vars

-----------------------------------------------------------------------------
(* The long push never takes effect: its length is measured with the field time,
   which only Loop advances, and Loop forgets the push.  However long the stick
   is pushed and however pushes and pauses alternate, no hold begins, and the
   motor never runs at full speed by itself. *)
HoldNeverEngages ==
  ~piston.isHolding /\ piston.timeHeld = 0 /\ piston.pwmPin # "full"

=============================================================================
