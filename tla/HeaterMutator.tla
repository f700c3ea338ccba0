---------------------------- MODULE HeaterMutator ----------------------------
(***************************************************************************)
(* HeaterMutator::MutateState of libraries/HenHouseLib/HeaterMutator.cpp: a   *)
(* thermostat with a dead band and a lockout, timed with the wrapping clock   *)
(* millis(), on a board that may be reset at any time.  The temperature is    *)
(* what ThermoReader::ReadState stored in State.Heat in the same iteration.   *)
(***************************************************************************)
EXTENDS Integers

CONSTANTS
  ClockWidth,   \* millis() counts modulo this, 2^32 in the code
  Lockout,      \* 10000 ms in the code
  LoopPeriod,   \* the longest time between two calls
  ReadGap,      \* the longest time between the two readings of one call
  HeatGoal,     \* State.HeatGoal
  Heats         \* the temperatures ThermoReader can report

(* What the constants of the code are taken to be; Relays assumes it. *)
HeaterAssumption ==
  /\ {Lockout, LoopPeriod} \subseteq Nat \ {0}
  /\ ReadGap \in Nat
  /\ ClockWidth \in Nat
  /\ Lockout + ReadGap < ClockWidth
  /\ HeatGoal \in Int
  /\ Heats \subseteq Int

VARIABLES
  millis,     \* what millis() returns
  sinceCall,  \* ticks since the last call
  gap,        \* ticks the last call still takes after its first reading
  Heat, HeaterOn, HeaterChangedTime, \* fields of State
  HEATER_PIN, \* the level of the pin; the relay closes on LOW
  sinceChange \* history: ticks since the relay last moved, up to Lockout + 1

vars == <<millis, sinceCall, gap, Heat, HeaterOn, HeaterChangedTime, HEATER_PIN,
          sinceChange>>

LOW == 0
HIGH == 1

TurnOnHeater == HEATER_PIN' = LOW

TurnOffHeater == HEATER_PIN' = HIGH

(* The constructors of Applictaion and HeaterMutator; millis() starts at 0. *)
Init ==
  /\ millis = 0
  /\ sinceCall = 0
  /\ gap = 0
  /\ Heat \in Heats
  /\ HeaterOn = FALSE
  /\ HeaterChangedTime = 0
  /\ HEATER_PIN = HIGH
  /\ sinceChange = Lockout + 1

TooCold(h) == h < HeatGoal - 2

TooWarm(h) == h > HeatGoal + 2

(* Bugs: the readings compared as they are; the lockout off by one. *)
UnlockedSigned == millis > HeaterChangedTime + Lockout

UnlockedEarly == (millis - HeaterChangedTime) % ClockWidth >= Lockout - 1

(* Prevent rapid changes: the unsigned difference of two readings. *)
Unlocked == (millis - HeaterChangedTime) % ClockWidth > Lockout

-----------------------------------------------------------------------------
(* The relay moves; the time stored is a second reading of the clock. *)
Switch ==
  /\ HeaterOn' = ~HeaterOn
  /\ gap' \in 0 .. ReadGap
  /\ HeaterChangedTime' = (millis + gap') % ClockWidth
  /\ sinceChange' = 0

SwitchOn ==
  /\ Unlocked /\ TooCold(Heat') /\ ~HeaterOn
  /\ TurnOnHeater
  /\ Switch

(* Bug: the relay is opened and State is not told. *)
SwitchOffUntold ==
  /\ Unlocked /\ TooWarm(Heat') /\ HeaterOn
  /\ TurnOffHeater
  /\ gap' = 0
  /\ sinceChange' = 0
  /\ UNCHANGED <<HeaterOn, HeaterChangedTime>>

SwitchOff ==
  /\ Unlocked /\ TooWarm(Heat') /\ HeaterOn
  /\ TurnOffHeater
  /\ Switch

Keep ==
  /\ ~( Unlocked /\ IF HeaterOn THEN TooWarm(Heat') ELSE TooCold(Heat') )
  /\ gap' = 0
  /\ UNCHANGED <<HeaterOn, HeaterChangedTime, HEATER_PIN, sinceChange>>

(* One iteration: ThermoReader stores a temperature, then the handler runs. *)
MutateState ==
  /\ gap = 0
  /\ Heat' \in Heats
  /\ SwitchOn \/ SwitchOff \/ Keep
  /\ sinceCall' = 0
  /\ UNCHANGED millis

-----------------------------------------------------------------------------
(* A tick of the clock; the loop is never late. *)
Tick ==
  /\ sinceCall < LoopPeriod \/ gap > 0
  /\ millis' = (millis + 1) % ClockWidth
  /\ sinceCall' = IF gap > 0 THEN sinceCall ELSE sinceCall + 1
  /\ gap' = IF gap > 0 THEN gap - 1 ELSE 0
  /\ sinceChange' = IF sinceChange <= Lockout THEN sinceChange + 1 ELSE sinceChange
  /\ UNCHANGED <<Heat, HeaterOn, HeaterChangedTime, HEATER_PIN>>

(* The board restarts: every field is set up again and the heater is off. *)
Reset ==
  /\ millis' = 0 /\ sinceCall' = 0 /\ gap' = 0
  /\ HeaterOn' = FALSE /\ HeaterChangedTime' = 0
  /\ TurnOffHeater
  /\ sinceChange' = IF HEATER_PIN = LOW THEN 0 ELSE sinceChange
  /\ UNCHANGED Heat

Next == MutateState \/ Tick \/ Reset

Spec == Init /\ [][Next]_vars

-----------------------------------------------------------------------------
(* Every reading of the clock is one the counter can show, and the fields stay
   in range. *)
TypeOK ==
  /\ {millis, HeaterChangedTime} \subseteq 0 .. ClockWidth - 1
  /\ sinceCall \in 0 .. LoopPeriod
  /\ gap \in 0 .. ReadGap
  /\ Heat \in Heats /\ HeaterOn \in BOOLEAN
  /\ HEATER_PIN \in {LOW, HIGH}
  /\ sinceChange \in 0 .. Lockout + 1

(* State and relay agree after every call and every reset. *)
RelayMatchesState == HeaterOn <=> HEATER_PIN = LOW

(* Two moves of the relay are more than the lockout apart in real time, wherever
   the clock wraps; only a reset may open the relay sooner, and the relay does
   not close again within the lockout even then. *)
NoRapidChange ==
  [][ (HEATER_PIN' # HEATER_PIN) =>
        \/ sinceChange > Lockout
        \/ Reset ]_vars

(* From some time on the board is not reset. *)
StaysUp == <>[][~Reset]_vars

(* A temperature that stays below the dead band turns the heater on for good,
   however the lockout and the wrapping of the clock fall, once the resets end;
   one that stays above it turns the heater off for good. *)
HeatAnswered ==
  /\ StaysUp /\ <>[]TooCold(Heat) => <>[]HeaterOn
  /\ <>[]TooWarm(Heat) => <>[]~HeaterOn

=============================================================================
