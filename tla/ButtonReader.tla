----------------------------- MODULE ButtonReader -----------------------------
(***************************************************************************)
(* ButtonReader::ReadState of libraries/HenHouseLib/ButtonReader.cpp, with    *)
(* the contact it samples and the wrapping millisecond clock it measures      *)
(* with.  The contact is the environment: it opens and closes at any time,    *)
(* and the loop samples it at least once in LoopPeriod ticks.  As long as it   *)
(* keeps every position for MinStable ticks it is steady.                     *)
(***************************************************************************)
EXTENDS Integers, ButtonReports

CONSTANTS
  ClockWidth,   \* millis() counts modulo this, 2^32 in the code
  ClickLimit,   \* 500 ms in the code
  LoopPeriod,   \* the longest time between two calls
  MinStable,    \* a contact that moves sooner than this bounces
  LongestPress  \* bound: no press is sampled as one for longer than this

ASSUME ButtonAssumption ==
  /\ {ClickLimit, LoopPeriod, LongestPress} \subseteq Nat \ {0}
  /\ MinStable \in Nat
  /\ ClockWidth \in Nat
  /\ ClickLimit < LongestPress
  /\ LongestPress < ClockWidth

VARIABLES
  millis,     \* what millis() returns
  contact,    \* the level of BUTTON_PIN
  steady,     \* history: the contact has never bounced
  stableFor,  \* ticks since a steady contact changed, up to LongestPress
  pressLength,\* how long the last finished press lasted
  sinceCall,  \* ticks since the last call
  age,        \* ticks since the call that saw the press, while lastState = 1
  lastState, downTime, \* the reader's fields
  report,     \* the button fields of State after the last call
  owed        \* presses of a steady contact that are over and not reported

env == <<millis, contact, steady, stableFor, pressLength>>
vars == <<env, sinceCall, age, lastState, downTime, report, owed>>

(* Two unreported presses are already too many: owed is not counted further. *)
OwedBound == 2

LOW == 0
HIGH == 1

(* Bug: the subtraction without the wrap of the unsigned type. *)
ElapsedSigned(now, start) == now - start

(* The unsigned subtraction of two readings of the clock. *)
Elapsed(now, start) == (now - start) % ClockWidth

Init ==
  /\ millis \in 0 .. ClockWidth - 1
  /\ contact = LOW
  /\ steady = TRUE
  /\ stableFor = LongestPress
  /\ pressLength = 0
  /\ sinceCall = 0
  /\ age = 0
  /\ lastState = 0
  /\ downTime = 0
  /\ report = NoReport
  /\ owed = 0

-----------------------------------------------------------------------------
(* ReadState, one action per path. *)

(* HIGH after LOW: the press is noticed and timed from here. *)
ReadDown ==
  /\ contact = HIGH /\ lastState = 0
  /\ downTime' = millis
  /\ age' = 0
  /\ lastState' = 1
  /\ report' = NoReport
  /\ UNCHANGED owed

(* Bug: every sample of a pressed button starts the timing again. *)
ReadHeldRestarts ==
  /\ contact = HIGH /\ lastState = 1
  /\ downTime' = millis
  /\ report' = IF Elapsed(millis, downTime) > ClickLimit THEN Hold ELSE NoReport
  /\ UNCHANGED <<age, lastState, owed>>

(* HIGH after HIGH: a hold once the limit has passed. *)
ReadHeld ==
  /\ contact = HIGH /\ lastState = 1
  /\ report' = IF Elapsed(millis, downTime) > ClickLimit THEN Hold ELSE NoReport
  /\ UNCHANGED <<downTime, age, lastState, owed>>

(* Bugs: every release is a click; the release is not remembered. *)
ReadUpClicks ==
  /\ contact = LOW /\ lastState = 1
  /\ report' = Click
  /\ lastState' = 0
  /\ owed' = IF steady THEN owed - 1 ELSE 0
  /\ UNCHANGED <<downTime, age>>

ReadUpForgets ==
  /\ contact = LOW /\ lastState = 1
  /\ report' = IF Elapsed(millis, downTime) < ClickLimit THEN Click ELSE HoldEnd
  /\ owed' = IF steady THEN owed - 1 ELSE 0
  /\ UNCHANGED <<downTime, age, lastState>>

(* LOW after HIGH: the press ends as a click or as a hold. *)
ReadUp ==
  /\ contact = LOW /\ lastState = 1
  /\ report' = IF Elapsed(millis, downTime) < ClickLimit THEN Click ELSE HoldEnd
  /\ lastState' = 0
  /\ owed' = IF steady THEN owed - 1 ELSE 0
  /\ UNCHANGED <<downTime, age>>

(* LOW after LOW. *)
ReadIdle ==
  /\ contact = LOW /\ lastState = 0
  /\ report' = NoReport
  /\ UNCHANGED <<downTime, age, lastState, owed>>

ReadState ==
  /\ ReadDown \/ ReadHeld \/ ReadUp \/ ReadIdle
  /\ sinceCall' = 0
  /\ UNCHANGED env

-----------------------------------------------------------------------------
(* The contact closes or opens; once it has bounced the presses are not told
   apart any more. *)
Toggle ==
  /\ contact' = 1 - contact
  /\ steady' = (steady /\ stableFor >= MinStable)
  /\ stableFor' = 0
  /\ CASE ~steady' -> pressLength' = 0 /\ owed' = 0
       [] steady' /\ contact = HIGH ->
            pressLength' = stableFor /\ owed' = IF owed < OwedBound THEN owed + 1 ELSE owed
       [] OTHER -> UNCHANGED <<pressLength, owed>>
  /\ UNCHANGED <<millis, sinceCall, age, lastState, downTime, report>>

(* A tick of the clock; the loop is never late and no press is too long. *)
Tick ==
  /\ sinceCall < LoopPeriod
  /\ contact = HIGH => stableFor < LongestPress
  /\ lastState = 1 => age < LongestPress
  /\ millis' = (millis + 1) % ClockWidth
  /\ sinceCall' = sinceCall + 1
  /\ stableFor' = IF steady /\ stableFor < LongestPress THEN stableFor + 1 ELSE stableFor
  /\ age' = IF lastState = 1 THEN age + 1 ELSE age
  /\ UNCHANGED <<contact, steady, pressLength, lastState, downTime, report, owed>>

Next == ReadState \/ Toggle \/ Tick

Spec == Init /\ [][Next]_vars

-----------------------------------------------------------------------------
(* The clock, the counters and the reader's fields stay in range, and the report
   is one the door knows. *)
TypeOK ==
  /\ {millis, downTime} \subseteq 0 .. ClockWidth - 1
  /\ contact \in {LOW, HIGH} /\ lastState \in {0, 1} /\ steady \in BOOLEAN
  /\ {stableFor, pressLength, age} \subseteq 0 .. LongestPress
  /\ sinceCall \in 0 .. LoopPeriod
  /\ report \in Reports

(* Where the reader is in a gesture. *)
Phase ==
  CASE lastState = 0 -> "up"
    [] lastState = 1 /\ report = Hold -> "held"
    [] OTHER -> "down"

Protocol == INSTANCE Gesture WITH phase <- Phase

(* The reader implements the protocol of Gesture, however the contact bounces
   and wherever in a press the clock wraps: a hold once reported is neither
   interrupted nor ended by a click. *)
GestureSpec == Protocol!Spec

(* As long as the contact is steady for longer than a loop, every press is
   reported once: never lost, never merged with the next, never made up. *)
EveryPressReportedOnce == owed \in {0, 1}

(* With such a contact the report at the end of a press tells how long the user
   pressed, to within a loop. *)
ClassifiedRight ==
  [][ steady /\ ReadUp =>
        /\ report' = Click => pressLength < ClickLimit + LoopPeriod
        /\ report' = HoldEnd => pressLength >= ClickLimit - LoopPeriod ]_vars

(* With such a contact, whoever keeps pressing gets the hold in time: in two
   loops over the limit. *)
HoldInTime ==
  contact = HIGH /\ stableFor > ClickLimit + 2 * LoopPeriod => report = Hold

=============================================================================
